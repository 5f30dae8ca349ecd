------------------------------ MODULE Selection -------------------------------
(* The history commands of one cx process (runtime/cx2/history_cli.py,     *)
(* history_manager.py, selection_context.py): threads are listed page by   *)
(* page, the rows get numbers, and a number stands for the thread of its   *)
(* row in /thread, /resume, /rename, /archive, /unarchive and /delete.     *)
(* Other processes use the same App Server state meanwhile.                *)
EXTENDS CodexThreads, Lists, Integers, Sequences, SequencesExt, FiniteSetsExt

CONSTANTS
  Bad,          \* an entry of a listing that is not a thread with an id
  Here,         \* the threads of this repository's directory
  Requests,     \* what is listed: [among, archived, mode]
  Limit,        \* rows of a listing (20), and entries of a page
  MaxRounds,    \* max_iterations (10)
  VersionValid, \* the Codex binary is of the validated version
  IsTty,
  Internal,     \* the threads that are internal to begin with
  MaxChanges    \* bound: changes of the server's state

ASSUME LimitAssumption == Limit \in Nat \ {0} /\ MaxRounds \in Nat \ {0}

(* An id is never taken for a number, nor what is no thread for one.       *)
ASSUME ThreadAssumption ==
  /\ Threads \cap Nat = {} /\ {Bad, NoThread} \cap Threads = {}
  /\ Here \subseteq Threads /\ IsFiniteSet(Threads)

Entries == Threads \cup {Bad}

VARIABLES
  (* the App Server's state, shared with other processes *)
  order,        \* its entries, the last used first
  status,       \* of each thread: active, archived, deleted
  internal,     \* threads that their name or source shows to be internal
  schema,       \* of its database: pre42, post42
  (* the state database of cx, shared with other processes *)
  bound,        \* the thread the repository is bound to
  (* this process *)
  at,           \* idle, listing, confirming, unbinding
  list,         \* the listing under way
  ctx,          \* the numbered entries (SelectionContext.entries)
  target,       \* the thread of the /delete, or of the unbinding, under way
  (* observation only *)
  screen,       \* the last listing that was printed to its end
  moved,        \* others have changed the state since the listing began
  rebound,      \* others have bound the repository since its row was read
  changes

appServer   == <<order, status, internal, schema, changes>>
binding     == <<bound, rebound>>
historyVars == <<appServer, binding, at, list, ctx, target, screen, moved>>

NoList   == [req |-> [mode |-> "none"], rows |-> <<>>, cursor |-> 0, seen |-> {}, rounds |-> 0]
NoScreen == [rows |-> <<>>, more |-> FALSE, stale |-> FALSE]

HistoryInit ==
  /\ order \in {SetToSeq(Threads), SetToSeq(Threads) \o <<Bad>>}
  /\ status = [t \in Threads |-> "active"]
  /\ internal = Internal
  /\ schema = "pre42"
  /\ at = "idle" /\ list = NoList /\ ctx = <<>> /\ target = NoThread /\ bound = NoThread
  /\ screen = NoScreen /\ moved = FALSE /\ rebound = FALSE /\ changes = 0

-------------------------------------------------------------------------------
(* What the server lists for a request, of all kinds; an entry that is no  *)
(* thread is listed with the active ones.                                  *)
Listed(req) ==
  Keep(order, {e \in Entries :
                 IF e = Bad THEN ~req.archived
                 ELSE e \in req.among /\ status[e] = IF req.archived THEN "archived" ELSE "active"})

IsVisible(req, e) ==
  CASE req.mode = "all"      -> TRUE
    [] req.mode = "internal" -> e \in internal
    [] OTHER                 -> e \notin internal

Visible(req, entries) == Keep(entries, {e \in Entries : IsVisible(req, e)})

UpTo(n, entries) == SubSeq(entries, 1, Min({n, Len(entries)}))

-------------------------------------------------------------------------------
(* Mutant: numbers outlive the listing they were of when nothing is found. *)
NumbersKept(rows) == IF rows = <<>> THEN ctx ELSE rows

(* Numbers follow the rows on the screen.                                  *)
Numbers(rows) == rows

(* The rows are printed, and numbered once all are; one that is no thread  *)
(* ends the printing with an error. Without rows nothing is said of more.  *)
Show(rows, more) ==
  /\ at' = "idle" /\ list' = NoList
  /\ IF ToSet(rows) \subseteq Threads
     THEN /\ ctx' = Numbers(rows)
          /\ screen' = [rows |-> rows, more |-> more /\ rows # <<>>, stale |-> FALSE]
     ELSE UNCHANGED <<ctx, screen>>

StartListing(req) ==
  /\ at = "idle" /\ at' = "listing"
  /\ list' = [NoList EXCEPT !.req = req]
  /\ moved' = FALSE
  /\ UNCHANGED <<appServer, binding, ctx, target, screen>>

(* One page from the server. It names the next one, if there is one, or    *)
(* (a server that is stuck) the same again.                                *)
NextCursors(entries, from) ==
  (IF from + Limit < Len(entries) THEN {from + Limit} ELSE {-1})
    \cup (IF from > 0 THEN {from} ELSE {})

(* Mutant: a listing that is not full is taken for a complete one.         *)
MoreOnlyWhenFull(rows, next) == Len(rows) >= Limit /\ next # -1

SaysMore(rows, next) == next # -1

(* The pages are read until there are rows enough, or no next page, or too *)
(* many were read. Of the last one entries may be left over: the cursor    *)
(* goes past them.                                                         *)
ReadPage(next) ==
  LET req     == list.req
      entries == Listed(req)
      page    == SubSeq(entries, list.cursor + 1, Min({list.cursor + Limit, Len(entries)}))
      rows    == UpTo(Limit, list.rows \o Visible(req, page))
  IN  /\ at = "listing" /\ next \in NextCursors(entries, list.cursor)
      /\ IF \/ req.mode = "all" \/ next = -1 \/ page = <<>>
            \/ Len(rows) >= Limit \/ list.rounds + 1 >= MaxRounds
            \/ next \in list.seen \cup {list.cursor}
         THEN Show(rows, SaysMore(rows, next))
         ELSE /\ list' = [list EXCEPT !.rows = rows, !.cursor = next,
                                      !.seen = @ \cup {list.cursor}, !.rounds = @ + 1]
              /\ UNCHANGED <<at, ctx, screen>>
      /\ UNCHANGED <<appServer, binding, target, moved>>

(* A request fails: what was on the screen before keeps its numbers.       *)
PageFails ==
  /\ at = "listing" /\ at' = "idle" /\ list' = NoList
  /\ UNCHANGED <<appServer, binding, ctx, target, screen, moved>>

-------------------------------------------------------------------------------
(* A number is that of a row, an id stands for itself; any other number is *)
(* an error, and nothing is done.                                          *)
References == (1..Limit) \cup Threads

Resolves(ref) == ref \in Threads \/ ref \in DOMAIN ctx

Resolved(ref) == IF ref \in Threads THEN ref ELSE ctx[ref]

CommandOn(ref) ==
  /\ at = "idle" /\ Resolves(ref)
  /\ UNCHANGED <<order, schema, list, moved>>

(* A change of the server's state.                                         *)
Changes == changes < MaxChanges /\ changes' = changes + 1

Bind(t) == bound' = t

(* /resume binds the repository to a thread of its own directory.          *)
Resume(ref) ==
  /\ CommandOn(ref)
  /\ status[Resolved(ref)] # "deleted"
  /\ Resolved(ref) \in Here
  /\ Bind(Resolved(ref))
  /\ UNCHANGED <<status, internal, changes, at, ctx, target, screen, rebound>>

(* A name may say that a thread is internal. The server's answer may be    *)
(* lost, here and below.                                                   *)
Rename(ref, hides) ==
  /\ CommandOn(ref) /\ Changes
  /\ status[Resolved(ref)] # "deleted"
  /\ internal' = IF hides THEN internal \cup {Resolved(ref)} ELSE internal \ {Resolved(ref)}
  /\ UNCHANGED <<status, binding, at, ctx, target, screen>>

(* The numbers are given up once a thread has changed its place.           *)
Forget ==
  /\ ctx' = <<>>
  /\ screen' = [screen EXCEPT !.stale = TRUE]

(* Mutant: the repository's binding goes with any thread.                  *)
UnbindAlways(t) == at' = "unbinding" /\ target' = t /\ UNCHANGED <<ctx, screen>>

(* The row is read, and cleared in a step of its own when it names the     *)
(* thread.                                                                 *)
UnbindIfSelected(t) ==
  IF bound = t
  THEN at' = "unbinding" /\ target' = t /\ UNCHANGED <<ctx, screen>>
  ELSE at' = "idle" /\ target' = NoThread /\ Forget

(* Without an answer, or a row that can be read, nothing more is done.     *)
GiveUp == at' = "idle" /\ target' = NoThread /\ UNCHANGED <<ctx, screen>>

(* answered: the server's answer arrives.                                  *)
Archive(ref, answered) ==
  /\ CommandOn(ref) /\ Changes
  /\ status[Resolved(ref)] = "active"
  /\ status' = [status EXCEPT ![Resolved(ref)] = "archived"]
  /\ IF answered THEN UnbindIfSelected(Resolved(ref)) ELSE GiveUp
  /\ UNCHANGED <<internal, binding>>

Unarchive(ref, answered) ==
  /\ CommandOn(ref) /\ Changes
  /\ status[Resolved(ref)] = "archived"
  /\ status' = [status EXCEPT ![Resolved(ref)] = "active"]
  /\ IF answered THEN Forget ELSE UNCHANGED <<ctx, screen>>
  /\ UNCHANGED <<internal, binding, at, target>>

(* evaluate_native_delete_safety: by the version and the schema of now.    *)
DeleteSupported == VersionValid /\ schema = "pre42"

(* /delete first checks that it may, and that there is such a thread; then *)
(* the user has to type its id.                                            *)
AskDelete(ref) ==
  /\ CommandOn(ref)
  /\ DeleteSupported
  /\ status[Resolved(ref)] # "deleted"
  /\ IsTty
  /\ at' = "confirming" /\ target' = Resolved(ref)
  /\ UNCHANGED <<status, internal, changes, binding, ctx, screen>>

Delete(answered) ==
  /\ Changes
  /\ at = "confirming"
  /\ status[target] # "deleted"
  /\ status' = [status EXCEPT ![target] = "deleted"]
  /\ IF answered THEN UnbindIfSelected(target) ELSE GiveUp
  /\ UNCHANGED <<order, internal, schema, binding, list, moved>>

(* It types something else, or the server refuses.                         *)
DeleteFails ==
  /\ at = "confirming" /\ GiveUp
  /\ UNCHANGED <<appServer, binding, list, moved>>

(* Whatever the row names by now is cleared, and the numbers are given up. *)
Unbind ==
  /\ at = "unbinding" /\ at' = "idle"
  /\ target' = NoThread
  /\ bound' = NoThread /\ rebound' = FALSE
  /\ Forget
  /\ UNCHANGED <<appServer, list, moved>>

(* The database may be locked: the row and the numbers stay.               *)
UnbindFails ==
  /\ at = "unbinding" /\ GiveUp
  /\ rebound' = FALSE
  /\ UNCHANGED <<appServer, bound, list, moved>>

-------------------------------------------------------------------------------
(* Another process uses a thread, archives or deletes one, or brings the   *)
(* database to a newer schema.                                             *)
Others ==
  /\ Changes /\ moved' = (at = "listing")
  /\ UNCHANGED <<internal, binding, at, list, ctx, target, screen>>

OtherUses(t) ==
  /\ Others
  /\ order' = <<t>> \o Keep(order, Entries \ {t})
  /\ UNCHANGED <<status, schema>>

OtherEnds(t, to) ==
  /\ Others
  /\ status[t] = "active"
  /\ status' = [status EXCEPT ![t] = to]
  /\ UNCHANGED <<order, schema>>

OtherMigrates ==
  /\ Others
  /\ schema' = "post42"
  /\ UNCHANGED <<order, status>>

(* Another cx process binds the repository.                                *)
OtherBinds(t) ==
  /\ Changes
  /\ bound' = t /\ rebound' = (at = "unbinding")
  /\ UNCHANGED <<order, status, internal, schema, at, list, ctx, target, screen, moved>>

Listing ==
  \/ \E r \in Requests : StartListing(r)
  \/ \E n \in -1..(Len(order)) : ReadPage(n)
  \/ PageFails

Commands ==
  \/ \E ref \in References : Resume(ref) \/ AskDelete(ref)
  \/ \E ref \in References, b \in BOOLEAN : Rename(ref, b) \/ Archive(ref, b) \/ Unarchive(ref, b)
  \/ \E b \in BOOLEAN : Delete(b)
  \/ DeleteFails
  \/ Unbind \/ UnbindFails

Elsewhere ==
  \/ \E t \in Threads : OtherUses(t)
  \/ \E t \in Threads, to \in {"archived", "deleted"} : OtherEnds(t, to)
  \/ OtherMigrates
  \/ \E t \in Here : OtherBinds(t)

HistoryNext == Listing \/ Commands \/ Elsewhere

HistorySpec == HistoryInit /\ [][HistoryNext]_historyVars

-------------------------------------------------------------------------------
(* Properties.                                                             *)

(* A number means a row: the thread it stands for is the one that the last *)
(* listing printed to its end shows there, however many listings have      *)
(* failed or been empty since and whatever others do meanwhile; and it     *)
(* stands for none once a thread was archived, brought back or deleted     *)
(* here. (selection_context.py: SelectionContext; history_cli.py:          *)
(* _print_threads.)                                                        *)
NumbersMeanRows ==
  \A n \in 1..Limit : Resolves(n) =>
    /\ n \in DOMAIN screen.rows
    /\ Resolved(n) = screen.rows[n]
    /\ ~screen.stale

(* A listing leaves nothing out in the middle: when nobody has changed     *)
(* anything meanwhile its rows are the first of what there is, and when    *)
(* they are fewer than it may show and it does not say that there are more, *)
(* they are all. (history_manager.py: list_threads, search_threads. An     *)
(* empty listing, and a full one whose last page is cut, may leave out     *)
(* more than they say.)                                                    *)
ListingIsPrefix ==
  [][at = "listing" /\ screen' # screen /\ screen'.rows # <<>> /\ ~moved =>
       LET all == Visible(list.req, Listed(list.req)) IN
       /\ IsPrefix(screen'.rows, all)
       /\ Len(screen'.rows) < Limit /\ ~screen'.more => screen'.rows = all]_historyVars

(* The repository is bound to threads of its own directory, and a binding  *)
(* is dropped only for a thread that was archived or deleted: for the one  *)
(* it names, or, when another process has bound the repository since its   *)
(* row was read, for the one it named then. (history_cli.py: /resume,      *)
(* _unbind_if_selected.)                                                   *)
BindingFollows ==
  [][bound' # bound =>
       \/ bound' \in Here
       \/ /\ bound' = NoThread /\ status[target] # "active"
          /\ bound = target \/ rebound]_historyVars
===============================================================================
