---------------------------- MODULE Session_proofs ----------------------------
(***************************************************************************)
(* What holds of the sessions for every number of processes, threads and   *)
(* branches and every plan: the types, with the bound they give on the     *)
(* turns of a prompt, that a turn runs where its thread was started, that  *)
(* a prompt follows what was chosen last, and that the row counts turns.   *)
(***************************************************************************)
EXTENDS Session, Selection, Lists_proofs

(* The points at which a prompt has its thread. *)
Holding == {"resume"} \cup Turning \cup Saving

(* Whatever may lead a prompt to a thread leads to one of its own place: the
   row to the repository's, the memory of a process, which only those outside
   the repository have, to those of its directory. *)
Placed ==
  /\ row # NoRow => home[row.thread] = "repo"
  /\ \A p \in Procs :
       /\ memory[p] # NoThread => ~ Git(p) /\ home[memory[p]] = cwd[p]
       /\ pc[p] = "gone" => memory[p] = NoThread
       /\ pc[p] \in Holding => thread[p] \in Threads /\ home[thread[p]] = cwd[p]
       /\ pc[p] \in {"evaluate", "upsert", "count"} => Git(p)

(* The turns of a prompt and those its plan still allows. *)
Planned ==
  \A p \in Procs :
    /\ pc[p] \in Idle \cup {"unbind"} => used[p] = 0
    /\ pc[p] \in {"evaluate", "resume", "start"} =>
         used[p] = 0 /\ left[p] \in 1 .. MaxAttempts
    /\ pc[p] = "turn" => left[p] >= 1 /\ left[p] + used[p] <= MaxAttempts
    /\ pc[p] = "verify" => used[p] <= MaxAttempts

Inv == TypeOK /\ Placed /\ Planned

(* A prompt that ends leaves locals of the right types, and only threads to
   the lost ones. *)
LEMMA DropType ==
  ASSUME Inv, NEW p \in Procs, DropLocals(p)
  PROVE  /\ thread' \in [Procs -> Threads \cup {NoThread}]
         /\ began' \in [Procs -> BOOLEAN] /\ stopped' \in [Procs -> BOOLEAN]
         /\ left' \in [Procs -> 0 .. MaxAttempts]
         /\ used' \in [Procs -> 0 .. MaxAttempts + 1] /\ base' \in [Procs -> Nat]
BY SessionAssumption DEF Inv, TypeOK, DropLocals

LEMMA UnsavedType ==
  ASSUME Inv, NEW p \in Procs, Unsaved(p)
  PROVE  lost' \subseteq Threads
<1>1. used[p] \in Nat
  BY SessionAssumption DEF Inv, TypeOK
<1>2. used[p] > 0 => pc[p] \in Holding
  BY <1>1 DEF Inv, TypeOK, Planned, Points, Holding, Turning, Saving, Idle
<1> QED BY <1>2 DEF Unsaved, Inv, TypeOK, Placed

LEMMA ChoiceType ==
  ASSUME Inv, NEW p \in Procs, NEW c \in Threads \cup {Fresh, Free},
         Chosen(p, c)
  PROVE  choice' \in [Procs -> Threads \cup {Fresh, Free}]
BY DEF Inv, TypeOK, Chosen

LEMMA ForgetType ==
  ASSUME Inv, NEW p \in Procs, ForgetChoice(p)
  PROVE  choice' \in [Procs -> Threads \cup {Fresh, Free}]
BY DEF Inv, TypeOK, ForgetChoice

(* The world: processes come and go, servers die, time passes. *)
LEMMA WorldStep ==
  ASSUME Inv,
         \/ \E p \in Procs : World(p)
         \/ Expires
         \/ \E b \in Branches : Checkout(b)
  PROVE  Inv'
<1> USE SessionAssumption DEF Inv, Holding, Idle, Turning, Saving
<1>1. ASSUME NEW p \in Procs, NEW w \in Places, Launch(p, w)
      PROVE  Inv'
  <2>1. TypeOK'
    BY <1>1 DEF Launch, TypeOK, locals, At, Goto, Places, Points
  <2>2. Placed'
    BY <1>1 DEF Launch, TypeOK, Placed, locals, At, Goto, Git
  <2>3. Planned'
    BY <1>1 DEF Launch, TypeOK, Planned, locals, At, Goto
  <2> QED BY <2>1, <2>2, <2>3
<1>2. ASSUME NEW p \in Procs, Ends(p)
      PROVE  Inv'
  <2>1. TypeOK'
    BY <1>2, DropType, UnsavedType
    DEF Ends, TypeOK, At, Goto, Happens, Places, Points
  <2>2. Placed'
    BY <1>2 DEF Ends, TypeOK, Placed, DropLocals, At, Goto, Git
  <2>3. Planned'
    BY <1>2 DEF Ends, TypeOK, Planned, DropLocals, At, Goto
  <2> QED BY <2>1, <2>2, <2>3
<1>3. ASSUME NEW p \in Procs, ServerDies(p)
      PROVE  Inv'
  <2>1. TypeOK' /\ Placed' /\ Planned'
    BY <1>3 DEF ServerDies, Happens, TypeOK, Placed, Planned, locals, Git
  <2> QED BY <2>1
<1>4. ASSUME Expires
      PROVE  Inv'
  <2>1. row \in Rows /\ row' = [row EXCEPT !.recent = FALSE]
    BY <1>4 DEF Expires, TypeOK
  <2>2. row' \in Rows /\ row'.thread = row.thread
    BY <2>1 DEF Rows
  <2>3. TypeOK' /\ Placed' /\ Planned'
    BY <1>4, <2>2 DEF Expires, Happens, TypeOK, Placed, Planned, locals, Git
  <2> QED BY <2>3
<1>5. ASSUME NEW b \in Branches, Checkout(b)
      PROVE  Inv'
  <2>1. TypeOK' /\ Placed' /\ Planned'
    BY <1>5 DEF Checkout, Happens, TypeOK, Placed, Planned, locals, Git
  <2> QED BY <2>1
<1> QED BY <1>1, <1>2, <1>3, <1>4, <1>5 DEF World

(* A prompt starts, or fails to, and acquires its thread. *)
LEMMA AcquireStep ==
  ASSUME Inv, NEW p \in Procs,
         \/ StartFails(p) \/ Blocked(p)
         \/ \E n \in 1 .. MaxAttempts : Prompt(p, n)
         \/ Acquire(p)
  PROVE  Inv'
<1> USE SessionAssumption DEF Inv, Holding, Idle, Turning, Saving, At, Goto, Git
<1>1. ASSUME StartFails(p)
      PROVE  Inv'
  <2>1. choice' \in [Procs -> Threads \cup {Fresh, Free}]
    BY <1>1, ForgetType DEF StartFails
  <2>2. /\ server' \in [Procs -> {"down", "up", "dead"}]
        /\ memory' \in [Procs -> Threads \cup {NoThread}]
    BY <1>1 DEF StartFails, TypeOK
  <2>3. prompts' \in 0 .. MaxPrompts
    BY <1>1 DEF StartFails, TypeOK
  <2>4. TypeOK'
    BY <1>1, <2>1, <2>2, <2>3 DEF StartFails, TypeOK, locals
  <2>5. Placed' /\ Planned'
    BY <1>1 DEF StartFails, TypeOK, Placed, Planned, locals
  <2> QED BY <2>4, <2>5
<1>2. ASSUME Restart(p)
      PROVE  /\ choice' \in [Procs -> Threads \cup {Fresh, Free}]
             /\ memory' \in [Procs -> Threads \cup {NoThread}]
             /\ memory' = memory \/ memory' = [memory EXCEPT ![p] = NoThread]
             /\ server' \in [Procs -> {"down", "up", "dead"}]
  BY <1>2, ForgetType DEF Restart, TypeOK
<1>3. ASSUME Blocked(p)
      PROVE  Inv'
  <2>1. TypeOK'
    BY <1>2, <1>3 DEF Blocked, TypeOK, locals
  <2>2. Placed' /\ Planned'
    BY <1>2, <1>3 DEF Blocked, TypeOK, Placed, Planned, locals
  <2> QED BY <2>1, <2>2
<1>4. ASSUME NEW n \in 1 .. MaxAttempts, Prompt(p, n)
      PROVE  Inv'
  <2>1. /\ thread' \in [Procs -> Threads \cup {NoThread}]
        /\ pc' \in [Procs -> Points]
        /\ left' \in [Procs -> 0 .. MaxAttempts]
    BY <1>2, <1>4 DEF Prompt, TypeOK, Points
  <2>2. TypeOK'
    BY <1>2, <1>4, <2>1 DEF Prompt, Overlaps, TypeOK
  <2>3. Placed'
    BY <1>2, <1>4 DEF Prompt, TypeOK, Placed
  <2>4. Planned'
    BY <1>4 DEF Prompt, TypeOK, Planned
  <2> QED BY <2>2, <2>3, <2>4
<1>5. ASSUME Evaluate(p)
      PROVE  Inv'
  <2>1. Reusable => row.thread \in Threads
    BY DEF Reusable, TypeOK, Rows
  <2>2. TypeOK'
    BY <1>5, <2>1 DEF Evaluate, TypeOK, Points, history
  <2>3. Placed'
    BY <1>5, <2>1 DEF Evaluate, Reusable, TypeOK, Placed, history
  <2>4. Planned'
    BY <1>5 DEF Evaluate, TypeOK, Planned, history
  <2> QED BY <2>2, <2>3, <2>4
<1>6. ASSUME Resumes(p)
      PROVE  Inv'
  <2>1. TypeOK' /\ Placed'
    BY <1>6 DEF Resumes, TypeOK, Placed, Points, locals, history
  <2>2. Planned'
    BY <1>6 DEF Resumes, TypeOK, Planned, locals, history
  <2> QED BY <2>1, <2>2
<1>7. ASSUME ResumeFails(p)
      PROVE  Inv'
  <2>1. choice' \in [Procs -> Threads \cup {Fresh, Free}]
    BY <1>7, ChoiceType DEF ResumeFails, TypeOK
  <2>2. TypeOK' /\ Placed'
    BY ZenonT(60), <1>7, <2>1 DEF ResumeFails, TypeOK, Placed, Points, locals
  <2>3. Planned'
    BY <1>7 DEF ResumeFails, TypeOK, Planned, locals
  <2> QED BY <2>2, <2>3
<1>8. ASSUME NEW t \in Threads, Starts(p, t)
      PROVE  Inv'
  <2>1. TypeOK'
    BY <1>8 DEF Starts, TypeOK, Points, Places, history
  <2>2. row # NoRow => row.thread \in Threads /\ row.thread # t
    BY <1>8 DEF Starts, TypeOK, Rows, Placed
  <2>3. \A q \in Procs : cwd[q] # "none"
    BY DEF TypeOK, Places
  <2>4. Placed'
    BY <1>8, <2>2, <2>3 DEF Starts, TypeOK, Placed, history
  <2>5. Planned'
    BY <1>8 DEF Starts, TypeOK, Planned, history
  <2> QED BY <2>1, <2>4, <2>5
<1> QED BY <1>1, <1>3, <1>4, <1>5, <1>6, <1>7, <1>8 DEF Acquire

(* A turn of the prompt returns, or something raises. *)
LEMMA TurnStep ==
  ASSUME Inv, NEW p \in Procs,
         \/ RunTurns(p)
         \/ \E how \in {"interrupt", "timeout", "error"} : Raises(p, how)
  PROVE  Inv'
<1> USE SessionAssumption DEF Inv, Holding, Idle, Turning, Saving, At, Goto, Git
<1>1. ASSUME NEW outcome \in Statuses, Returned(p, outcome), pc[p] \in Turning
      PROVE  /\ ran' \in [Threads -> Nat] /\ stopped' \in [Procs -> BOOLEAN]
             /\ used' \in [Procs -> 0 .. MaxAttempts + 1]
             /\ used' = [used EXCEPT ![p] = used[p] + 1]
  BY <1>1 DEF Returned, TypeOK, Placed, Planned
<1>2. ASSUME NEW outcome \in Statuses, Escalates(p, outcome)
      PROVE  Inv'
  <2>1. TypeOK'
    BY <1>1, <1>2 DEF Escalates, TypeOK
  <2>2. Placed'
    BY <1>2 DEF Escalates, TypeOK, Placed
  <2>3. Planned'
    BY <1>1, <1>2 DEF Escalates, TypeOK, Planned
  <2> QED BY <2>1, <2>2, <2>3
<1>3. ASSUME NEW outcome \in Statuses, Settles(p, outcome)
      PROVE  Inv'
  <2>1. TypeOK'
    BY <1>1, <1>3 DEF Settles, TypeOK, Points
  <2>2. Placed'
    BY <1>3 DEF Settles, TypeOK, Placed
  <2>3. Planned'
    BY <1>1, <1>3 DEF Settles, TypeOK, Planned
  <2> QED BY <2>1, <2>2, <2>3
<1>4. ASSUME NEW outcome \in Statuses, Verified(p, outcome)
      PROVE  Inv'
  <2>1. TypeOK'
    BY <1>1, <1>4 DEF Verified, TypeOK, Points
  <2>2. Placed'
    BY <1>4 DEF Verified, TypeOK, Placed
  <2>3. Planned'
    BY <1>1, <1>4 DEF Verified, TypeOK, Planned
  <2> QED BY <2>1, <2>2, <2>3
<1>5. ASSUME NEW how \in {"interrupt", "timeout", "error"}, Raises(p, how)
      PROVE  Inv'
  <2>1. /\ choice' \in [Procs -> Threads \cup {Fresh, Free}]
        /\ memory' \in [Procs -> Threads \cup {NoThread}]
        /\ memory' = memory \/ memory' = [memory EXCEPT ![p] = NoThread]
    BY <1>5, ForgetType DEF Raises, TypeOK
  <2>2. TypeOK'
    BY <1>5, <2>1, DropType, UnsavedType DEF Raises, TypeOK, Points
  <2>3. pc[p] # "gone"
    BY <1>5 DEF Raises, Raisable
  <2>4. /\ row' = row /\ home' = home /\ cwd' = cwd
        /\ pc' = [pc EXCEPT ![p] = "idle"]
        /\ thread' = [thread EXCEPT ![p] = NoThread]
    BY <1>5 DEF Raises, DropLocals
  <2>5. Placed'
    BY <2>1, <2>3, <2>4 DEF TypeOK, Placed
  <2>6. Planned'
    BY <1>5 DEF Raises, DropLocals, TypeOK, Planned
  <2> QED BY <2>2, <2>5, <2>6
<1> QED BY <1>2, <1>3, <1>4, <1>5 DEF RunTurns

(* The row that a process writes. *)
LEMMA RowType ==
  ASSUME Inv, NEW t \in Threads, NEW n \in Nat
  PROVE  RowOf(t, n) \in Rows /\ RowOf(t, n).thread = t
BY DEF Inv, TypeOK, RowOf, Rows

(* A prompt saves what it did. *)
LEMMA SaveStep ==
  ASSUME Inv, NEW p \in Procs, Save(p)
  PROVE  Inv'
<1> USE SessionAssumption DEF Inv, Holding, Idle, Turning, Saving, At, Goto, Git
<1>1. row # NoRow => row \in Rows /\ row.turns \in Nat /\ row.thread \in Threads
  BY DEF TypeOK, Rows
<1>2. CASE Remember(p)
  <2>1. thread[p] \in Threads
    BY <1>2 DEF Remember, Placed
  <2>2. TypeOK'
    BY <1>2, <2>1, DropType DEF Remember, TypeOK, Points
  <2>3. Placed'
    BY <1>2, <2>1 DEF Remember, DropLocals, TypeOK, Placed
  <2>4. Planned'
    BY <1>2 DEF Remember, DropLocals, TypeOK, Planned
  <2> QED BY <2>2, <2>3, <2>4
<1>3. CASE SaveReads(p)
  <2>1. choice' \in [Procs -> Threads \cup {Fresh, Free}]
    BY <1>3, ChoiceType DEF SaveReads, TypeOK
  <2>2. BaseTurns(p) \in Nat
    BY <1>1 DEF BaseTurns, Names
  <2>3. TypeOK'
    BY <1>3, <2>1, <2>2 DEF SaveReads, TypeOK, Points
  <2>4. Placed' /\ Planned'
    BY <1>3 DEF SaveReads, TypeOK, Placed, Planned
  <2> QED BY <2>3, <2>4
<1>4. CASE Upserts(p)
  <2>1. /\ thread[p] \in Threads /\ home[thread[p]] = "repo"
        /\ row' \in Rows /\ row'.thread = thread[p]
    BY <1>1, <1>4, RowType DEF Upserts, Placed
  <2>2. choice' \in [Procs -> Threads \cup {Fresh, Free}]
    BY <1>4, <2>1, ChoiceType DEF Upserts
  <2>3. TypeOK'
    BY <1>4, <2>1, <2>2 DEF Upserts, TypeOK, Points, locals
  <2>4. Placed' /\ Planned'
    BY <1>4, <2>1 DEF Upserts, TypeOK, Placed, Planned, locals
  <2> QED BY <2>3, <2>4
<1>5. CASE Counts(p)
  <2>1. base[p] + used[p] \in Nat
    BY DEF TypeOK
  <2>2. row' = NoRow \/ (row # NoRow /\ row' \in Rows /\ row'.thread = row.thread)
    BY <1>1, <1>5, <2>1 DEF Counts, Rows
  <2>3. TypeOK'
    BY <1>5, <2>2, DropType DEF Counts, TypeOK, Points, history
  <2>4. Placed' /\ Planned'
    BY <1>5, <2>2 DEF Counts, DropLocals, TypeOK, Placed, Planned, history
  <2> QED BY <2>3, <2>4
<1>6. CASE SaveFails(p)
  <2>1. TypeOK'
    BY <1>6, DropType, UnsavedType DEF SaveFails, TypeOK, Points
  <2>2. Placed' /\ Planned'
    BY <1>6 DEF SaveFails, DropLocals, TypeOK, Placed, Planned
  <2> QED BY <2>1, <2>2
<1> QED BY <1>2, <1>3, <1>4, <1>5, <1>6 DEF Save

(* A command. *)
LEMMA CommandStep ==
  ASSUME Inv, NEW p \in Procs, Command(p)
  PROVE  Inv'
<1> USE SessionAssumption DEF Inv, Holding, Idle, Turning, Saving, At, Goto, Git
<1>1. CASE NewSession(p)
  <2>1. choice' \in [Procs -> Threads \cup {Fresh, Free}]
    BY <1>1, ChoiceType DEF NewSession, TypeOK
  <2>2. TypeOK'
    BY <1>1, <2>1 DEF NewSession, Overlaps, TypeOK, locals
  <2>3. Placed' /\ Planned'
    BY <1>1 DEF NewSession, TypeOK, Placed, Planned, locals
  <2> QED BY <2>2, <2>3
<1>2. CASE Unbinds(p)
  <2>1. choice' \in [Procs -> Threads \cup {Fresh, Free}]
    BY <1>2, ChoiceType DEF Unbinds
  <2>2. TypeOK'
    BY <1>2, <2>1 DEF Unbinds, TypeOK, Points, locals
  <2>3. Placed' /\ Planned'
    BY <1>2 DEF Unbinds, TypeOK, Placed, Planned, locals
  <2> QED BY <2>2, <2>3
<1>3. ASSUME NEW t \in Threads, Binds(p, t)
      PROVE  Inv'
  <2>1. row' \in Rows /\ row'.thread = t /\ home[t] = "repo"
    BY <1>3, RowType DEF Binds, Bindable
  <2>2. choice' \in [Procs -> Threads \cup {Fresh, Free}]
    BY <1>3, ChoiceType DEF Binds
  <2>3. TypeOK'
    BY <1>3, <2>1, <2>2 DEF Binds, Overlaps, TypeOK, locals
  <2>4. Placed' /\ Planned'
    BY <1>3, <2>1 DEF Binds, TypeOK, Placed, Planned, locals
  <2> QED BY <2>3, <2>4
<1>4. ASSUME NEW t \in Threads, NEW forGood \in BOOLEAN, Removes(p, t, forGood)
      PROVE  Inv'
  <2>1. /\ choice' \in [Procs -> Threads \cup {Fresh, Free}]
        /\ memory' \in [Procs -> Threads \cup {NoThread}]
        /\ memory' = memory \/ memory' = [memory EXCEPT ![p] = NoThread]
        /\ server' \in [Procs -> {"down", "up", "dead"}]
    BY <1>4, ForgetType DEF Removes, Restart, TypeOK
  <2>2. TypeOK'
    BY <1>4, <2>1 DEF Removes, Overlaps, TypeOK, Points, locals
  <2>3. Placed' /\ Planned'
    BY <1>4, <2>1 DEF Removes, TypeOK, Placed, Planned, locals
  <2> QED BY <2>2, <2>3
<1> QED BY <1>1, <1>2, <1>3, <1>4 DEF Command

-----------------------------------------------------------------------------
LEMMA Invariance == Spec => []Inv
<1>1. Init => Inv
  <2> SUFFICES ASSUME Init PROVE Inv
    OBVIOUS
  <2>1. TypeOK
    <3>1. home \in [Threads -> Places \cup {"other", "none"}]
      BY DEF Init
    <3>2. /\ row \in Rows \cup {NoRow} /\ branch \in Branches
          /\ deleted \subseteq Threads /\ lost \subseteq Threads
          /\ pc \in [Procs -> Points] /\ cwd \in [Procs -> Places]
          /\ server \in [Procs -> {"down", "up", "dead"}]
      BY DEF Init, Places, Points, Idle
    <3>3. /\ memory \in [Procs -> Threads \cup {NoThread}]
          /\ thread \in [Procs -> Threads \cup {NoThread}]
          /\ began \in [Procs -> BOOLEAN] /\ stopped \in [Procs -> BOOLEAN]
          /\ choice \in [Procs -> Threads \cup {Fresh, Free}]
      BY DEF Init
    <3>4. /\ left \in [Procs -> 0 .. MaxAttempts]
          /\ used \in [Procs -> 0 .. MaxAttempts + 1] /\ base \in [Procs -> Nat]
          /\ ran \in [Threads -> Nat] /\ overlap \in BOOLEAN
          /\ prompts \in 0 .. MaxPrompts /\ events \in 0 .. MaxEvents
      <4>1. 0 \in 0 .. MaxAttempts /\ 0 \in 0 .. MaxAttempts + 1
        BY SessionAssumption
      <4>2. 0 \in 0 .. MaxPrompts /\ 0 \in 0 .. MaxEvents
        BY SessionAssumption
      <4> QED BY <4>1, <4>2 DEF Init
    <3> QED BY <3>1, <3>2, <3>3, <3>4 DEF TypeOK
  <2>2. Placed /\ Planned
    BY DEF Init, Placed, Planned, Holding, Turning, Saving, Idle
  <2> QED BY <2>1, <2>2 DEF Inv
<1>2. Inv /\ [Next]_vars => Inv'
  <2> SUFFICES ASSUME Inv, [Next]_vars PROVE Inv'
    OBVIOUS
  <2>1. CASE UNCHANGED vars
    BY <2>1 DEF vars, locals, history, Inv, TypeOK, Placed, Planned, Git
  <2>2. CASE Next
    BY <2>2, WorldStep, AcquireStep, TurnStep, SaveStep, CommandStep DEF Next
  <2> QED BY <2>1, <2>2
<1> QED BY <1>1, <1>2, PTL DEF Spec

(* The variables keep their types; no prompt runs more turns than the attempts
   of its plan and one continuation (cx2_runtime.py "MAX 1"). *)
THEOREM TypeCorrect == Spec => []TypeOK
BY Invariance, PTL DEF Inv

(* A turn runs where its thread was started: neither a row shared by any
   number of processes, nor the memory of one, nor /resume carries a
   conversation from one place to another (cx2_runtime.py execute_prompt,
   history_cli.py /resume). *)
THEOREM TurnsStayHome == Spec => []TurnAtHome
<1>1. Inv => TurnAtHome
  BY DEF Inv, Placed, TurnAtHome, Holding
<1> QED BY <1>1, Invariance, PTL

-----------------------------------------------------------------------------
(* What a step leaves alone. Only its own process moves, but for a choice. *)
OthersStay(p) ==
  \A q \in Procs \ {p} :
    /\ pc'[q] = pc[q] /\ cwd'[q] = cwd[q] /\ memory'[q] = memory[q]
    /\ thread'[q] = thread[q] /\ began'[q] = began[q]
    /\ used'[q] = used[q] /\ base'[q] = base[q]

(* The row names the same thread and may be resumed as before; its count may
   change. *)
SameRow ==
  /\ branch' = branch
  /\ row = NoRow <=> row' = NoRow
  /\ row # NoRow => /\ row'.thread = row.thread /\ row'.recent = row.recent
                    /\ row'.branch = row.branch

(* Their choices stay too, or the processes of the repository are free. *)
OthersChoose(p) ==
  \/ SameRow /\ \A q \in Procs \ {p} : choice'[q] = choice[q]
  \/ \A q \in Procs \ {p} : choice'[q] = IF Git(q) THEN Free ELSE choice[q]

LEMMA DropOthers ==
  ASSUME Inv, NEW p \in Procs, DropLocals(p)
  PROVE  /\ \A q \in Procs \ {p} : /\ thread'[q] = thread[q] /\ began'[q] = began[q]
                                   /\ used'[q] = used[q] /\ base'[q] = base[q]
         /\ thread'[p] = NoThread /\ began'[p] = FALSE /\ used'[p] = 0
BY DEF Inv, TypeOK, DropLocals

LEMMA ForgetOthers ==
  ASSUME Inv, NEW p \in Procs, ForgetChoice(p)
  PROVE  /\ \A q \in Procs \ {p} : choice'[q] = choice[q]
         /\ choice'[p] = IF Git(p) THEN choice[p] ELSE Fresh
BY DEF Inv, TypeOK, ForgetChoice

LEMMA ChosenOthers ==
  ASSUME Inv, NEW p \in Procs, NEW c, Chosen(p, c)
  PROVE  choice'[p] = c /\ OthersChoose(p)
BY DEF Inv, TypeOK, Chosen, OthersChoose, Git

LEMMA RestartOthers ==
  ASSUME Inv, NEW p \in Procs, Restart(p)
  PROVE  /\ \A q \in Procs \ {p} : memory'[q] = memory[q] /\ choice'[q] = choice[q]
         /\ \/ memory'[p] = memory[p] /\ choice'[p] = choice[p]
            \/ memory'[p] = NoThread /\ choice'[p] = IF Git(p) THEN choice[p] ELSE Fresh
BY ForgetOthers DEF Inv, TypeOK, Restart

LEMMA SameRowWhenKept ==
  ASSUME row' = row, branch' = branch
  PROVE  SameRow
BY DEF SameRow

-----------------------------------------------------------------------------
(* What a prompt follows. A choice is what the row, or outside Git the memory,
   leads to: a new thread when there is nothing, and the thread that is there
   to be resumed. *)
Leads(p) ==
  /\ choice[p] = Fresh => IF Git(p) THEN row = NoRow ELSE memory[p] = NoThread
  /\ choice[p] \in Threads =>
       IF Git(p) THEN Reusable /\ Names(choice[p]) ELSE memory[p] = choice[p]

(* A prompt resumes only a thread that it may, and starts one only if there is
   none it should resume. *)
Follows(p) ==
  /\ pc[p] = "resume" => choice[p] # Fresh
  /\ pc[p] = "start" => choice[p] \notin Threads
  /\ pc[p] = "unbind" => Git(p)
  /\ pc[p] \in Turning \cup Saving /\ choice[p] = Fresh => began[p]
  /\ pc[p] \in Holding /\ choice[p] \in Threads => thread[p] = choice[p]

ChoiceInv == \A p \in Procs : Leads(p) /\ Follows(p)

(* A choice that is free asks for nothing. *)
LEMMA FreeFollowsNext ==
  ASSUME NEW p \in Procs, choice'[p] = Free, pc'[p] = "unbind" => cwd'[p] = "repo"
  PROVE  Leads(p)' /\ Follows(p)'
BY SessionAssumption DEF Leads, Follows, Free, Fresh, Git

LEMMA KeepsFollowing ==
  ASSUME ChoiceInv, NEW q \in Procs,
         pc'[q] = pc[q], cwd'[q] = cwd[q], memory'[q] = memory[q], thread'[q] = thread[q],
         began'[q] = began[q], choice'[q] = choice[q], Git(q) => SameRow
  PROVE  Leads(q)' /\ Follows(q)'
<1>1. Leads(q) /\ Follows(q)
  BY DEF ChoiceInv
<1>2. Git(q)' <=> Git(q)
  BY DEF Git
<1>3. Leads(q)'
  <2>1. CASE Git(q)
    BY <1>1, <1>2, <2>1 DEF SameRow, Leads, Reusable, Names
  <2>2. CASE ~ Git(q)
    BY <1>1, <1>2, <2>2 DEF Leads
  <2> QED BY <2>1, <2>2
<1>4. Follows(q)'
  BY <1>1, <1>2 DEF Follows
<1> QED BY <1>3, <1>4

(* So only the process that moves is left to look at. *)
LEMMA OthersFollow ==
  ASSUME ChoiceInv, NEW p \in Procs, OthersStay(p), OthersChoose(p),
         Leads(p)' /\ Follows(p)'
  PROVE  ChoiceInv'
<1>1. ASSUME NEW q \in Procs, q # p
      PROVE  Leads(q)' /\ Follows(q)'
  <2>1. /\ pc'[q] = pc[q] /\ cwd'[q] = cwd[q] /\ memory'[q] = memory[q]
        /\ thread'[q] = thread[q] /\ began'[q] = began[q]
    BY <1>1 DEF OthersStay
  <2>2. \/ choice'[q] = choice[q] /\ (Git(q) => SameRow)
        \/ choice'[q] = Free
    BY <1>1 DEF OthersChoose
  <2>3. pc[q] = "unbind" => cwd[q] = "repo"
    BY DEF ChoiceInv, Follows, Git
  <2> QED BY <2>1, <2>2, <2>3, KeepsFollowing, FreeFollowsNext
<1> QED BY <1>1 DEF ChoiceInv

LEMMA WorldOthers ==
  ASSUME Inv, NEW p \in Procs, World(p)
  PROVE  OthersStay(p)
<1>1. ASSUME NEW w \in Places, Launch(p, w)
      PROVE  OthersStay(p)
  BY <1>1 DEF Launch, locals, Goto, Inv, TypeOK, OthersStay
<1>2. CASE Ends(p)
  BY <1>2, DropOthers DEF Ends, Goto, Inv, TypeOK, OthersStay
<1>3. CASE ServerDies(p)
  BY <1>3 DEF ServerDies, locals, OthersStay
<1> QED BY <1>1, <1>2, <1>3 DEF World

LEMMA WorldFollows ==
  ASSUME Inv, ChoiceInv, NEW p \in Procs, World(p)
  PROVE  ChoiceInv'
<1>1. ASSUME NEW w \in Places, Launch(p, w)
      PROVE  ChoiceInv'
  <2>1. /\ pc[p] = "gone" /\ pc'[p] = "idle" /\ memory'[p] = NoThread
        /\ choice'[p] = IF w = "repo" THEN Free ELSE Fresh
        /\ cwd'[p] = w
    BY <1>1 DEF Launch, At, Goto, Inv, TypeOK, Placed
  <2>2. Leads(p)' /\ Follows(p)'
    BY <2>1, SessionAssumption DEF Leads, Follows, Git, Free, Fresh, Turning, Saving, Holding
  <2>3. OthersChoose(p)
    BY <1>1 DEF Launch, OthersChoose, SameRow, Inv, TypeOK
  <2> QED BY <1>1, <2>2, <2>3, WorldOthers, OthersFollow DEF World
<1>2. CASE Ends(p)
  <2>1. pc'[p] = "gone" /\ choice'[p] = Free
    BY <1>2 DEF Ends, At, Goto, Inv, TypeOK
  <2>2. OthersChoose(p)
    BY <1>2 DEF Ends, OthersChoose, SameRow, Inv, TypeOK
  <2> QED BY <1>2, <2>1, <2>2, FreeFollowsNext, WorldOthers, OthersFollow DEF World
<1>3. CASE ServerDies(p)
  <2>1. UNCHANGED <<row, branch, pc, cwd, memory, thread, began, choice>>
    BY <1>3 DEF ServerDies, locals
  <2> QED BY <2>1 DEF ChoiceInv, Leads, Follows, Reusable, Names, Git
<1> QED BY <1>1, <1>2, <1>3 DEF World

(* Time, and the user's branch, set everybody in the repository free. *)
LEMMA TimeFollows ==
  ASSUME Inv, ChoiceInv, Expires \/ \E b \in Branches : Checkout(b)
  PROVE  ChoiceInv'
<1>1. /\ UNCHANGED <<pc, cwd, memory, thread, began>>
      /\ choice' = [q \in Procs |-> IF cwd[q] = "repo" THEN Free ELSE choice[q]]
  BY DEF Expires, Checkout, locals
<1>2. ASSUME NEW q \in Procs
      PROVE  Leads(q)' /\ Follows(q)'
  <2>1. CASE Git(q)
    BY <1>1, <2>1, FreeFollowsNext DEF Git
  <2>2. CASE ~ Git(q)
    BY <1>1, <2>2, KeepsFollowing DEF Git
  <2> QED BY <2>1, <2>2
<1> QED BY <1>2 DEF ChoiceInv

LEMMA AcquireOthers ==
  ASSUME Inv, NEW p \in Procs,
         \/ StartFails(p) \/ Blocked(p)
         \/ \E n \in 1 .. MaxAttempts : Prompt(p, n)
         \/ Acquire(p)
  PROVE  OthersStay(p)
<1>1. CASE StartFails(p)
  BY <1>1 DEF StartFails, locals, Inv, TypeOK, OthersStay
<1>2. CASE Blocked(p)
  BY <1>2, RestartOthers DEF Blocked, locals, Inv, TypeOK, OthersStay
<1>3. ASSUME NEW n \in 1 .. MaxAttempts, Prompt(p, n)
      PROVE  OthersStay(p)
  BY <1>3, RestartOthers DEF Prompt, Goto, Inv, TypeOK, OthersStay
<1>4. CASE Acquire(p)
  BY <1>4 DEF Acquire, Evaluate, Resumes, ResumeFails, Starts, Goto, locals, history, Inv, TypeOK,
              OthersStay
<1> QED BY <1>1, <1>2, <1>3, <1>4

LEMMA AcquireFollows ==
  ASSUME Inv, ChoiceInv, NEW p \in Procs,
         \/ StartFails(p) \/ Blocked(p)
         \/ \E n \in 1 .. MaxAttempts : Prompt(p, n)
         \/ Acquire(p)
  PROVE  ChoiceInv'
<1>1. OthersStay(p)
  BY AcquireOthers
<1>2. Leads(p) /\ Follows(p) /\ (memory[p] # NoThread => ~ Git(p))
  BY DEF ChoiceInv, Inv, Placed
<1> USE SessionAssumption DEF Free, Fresh, Turning, Saving, Holding
<1>3. CASE StartFails(p)
  <2>1. /\ UNCHANGED <<row, branch, pc, cwd, thread, began>> /\ memory'[p] = NoThread
        /\ pc[p] = "idle"
        /\ choice'[p] = IF Git(p) THEN choice[p] ELSE Fresh
    BY <1>3, ForgetOthers DEF StartFails, locals, At, Inv, TypeOK
  <2>2. Leads(p)' /\ Follows(p)'
    BY <1>2, <2>1 DEF Leads, Follows, Reusable, Names, Git
  <2>3. OthersChoose(p)
    BY <1>3, <2>1, ForgetOthers DEF StartFails, OthersChoose, SameRow
  <2> QED BY <1>1, <2>2, <2>3, OthersFollow
<1>4. CASE Blocked(p)
  <2>1. UNCHANGED <<row, branch, pc, cwd, thread, began>> /\ pc[p] = "idle"
    BY <1>4 DEF Blocked, locals, At
  <2>2. \/ memory'[p] = memory[p] /\ choice'[p] = choice[p]
        \/ memory'[p] = NoThread /\ choice'[p] = IF Git(p) THEN choice[p] ELSE Fresh
    BY <1>4, RestartOthers DEF Blocked
  <2>3. Leads(p)' /\ Follows(p)'
    BY <1>2, <2>1, <2>2 DEF Leads, Follows, Reusable, Names, Git
  <2>4. OthersChoose(p)
    BY <1>4, <2>1, RestartOthers DEF Blocked, OthersChoose, SameRow
  <2> QED BY <1>1, <2>3, <2>4, OthersFollow
<1>5. ASSUME NEW n \in 1 .. MaxAttempts, Prompt(p, n)
      PROVE  ChoiceInv'
  <2>1. UNCHANGED <<row, branch, cwd, began>> /\ pc[p] = "idle"
    BY <1>5 DEF Prompt, At
  <2>2. \/ memory'[p] = memory[p] /\ choice'[p] = choice[p]
        \/ memory'[p] = NoThread /\ choice'[p] = IF Git(p) THEN choice[p] ELSE Fresh
    BY <1>5, RestartOthers DEF Prompt
  <2>3. IF Git(p) THEN pc'[p] = "evaluate"
        ELSE IF memory'[p] # NoThread THEN pc'[p] = "resume" /\ thread'[p] = memory'[p]
             ELSE pc'[p] = "start"
    BY ZenonT(60), <1>5 DEF Prompt, Goto, Inv, TypeOK
  <2>4. Leads(p)'
    BY <1>2, <2>1, <2>2 DEF Leads, Reusable, Names, Git
  <2>5. Follows(p)'
    BY <1>2, <2>1, <2>2, <2>3, <2>4 DEF Leads, Follows, Git
  <2>6. OthersChoose(p)
    BY <1>5, <2>1, RestartOthers DEF Prompt, OthersChoose, SameRow
  <2> QED BY <1>1, <2>4, <2>5, <2>6, OthersFollow
<1>6. CASE Evaluate(p) \/ Resumes(p) \/ \E t \in Threads : Starts(p, t)
  <2>1. UNCHANGED <<row, branch, cwd, memory, choice>>
    BY <1>6 DEF Evaluate, Resumes, Starts, locals, history
  <2>2. Leads(p)'
    BY <1>2, <2>1 DEF Leads, Reusable, Names, Git
  <2>3. Follows(p)'
    <3>1. CASE Evaluate(p)
      <4>1. Git(p)
        BY <3>1 DEF Evaluate, At, Inv, Placed
      <4>2. IF Reusable THEN pc'[p] = "resume" /\ thread'[p] = row.thread ELSE pc'[p] = "start"
        BY ZenonT(60), <3>1 DEF Evaluate, Goto, Inv, TypeOK
      <4> QED BY <1>2, <2>1, <4>1, <4>2 DEF Leads, Follows, Reusable, Names, Git
    <3>2. CASE Resumes(p)
      BY <1>2, <2>1, <3>2 DEF Resumes, At, Goto, locals, Inv, TypeOK, Follows, Git
    <3>3. ASSUME NEW t \in Threads, Starts(p, t)
          PROVE  Follows(p)'
      BY <1>2, <2>1, <3>3 DEF Starts, At, Goto, Inv, TypeOK, Follows, Git
    <3> QED BY <1>6, <3>1, <3>2, <3>3
  <2>4. OthersChoose(p)
    BY <2>1 DEF OthersChoose, SameRow
  <2> QED BY <1>1, <2>2, <2>3, <2>4, OthersFollow
<1>7. CASE ResumeFails(p)
  <2>1. pc'[p] = "start"
    BY <1>7 DEF ResumeFails, Goto, Inv, TypeOK
  <2>2. choice'[p] = Free /\ OthersChoose(p)
    <3>1. CASE Git(p)
      <4>1. Chosen(p, Free)
        BY <1>7, <3>1 DEF ResumeFails
      <4> QED BY <4>1, ChosenOthers
    <3>2. CASE ~ Git(p)
      <4>1. choice' = [choice EXCEPT ![p] = Free] /\ UNCHANGED <<row, branch>>
        BY <1>7, <3>2 DEF ResumeFails
      <4> QED BY <4>1 DEF OthersChoose, SameRow, Inv, TypeOK
    <3> QED BY <3>1, <3>2
  <2> QED BY <1>1, <2>1, <2>2, FreeFollowsNext, OthersFollow
<1> QED BY <1>3, <1>4, <1>5, <1>6, <1>7 DEF Acquire

LEMMA TurnOthers ==
  ASSUME Inv, NEW p \in Procs,
         \/ RunTurns(p)
         \/ \E how \in {"interrupt", "timeout", "error"} : Raises(p, how)
  PROVE  OthersStay(p)
<1>1. CASE RunTurns(p)
  BY <1>1 DEF RunTurns, Escalates, Settles, Verified, Returned, Goto, Inv, TypeOK, OthersStay
<1>2. ASSUME NEW how \in {"interrupt", "timeout", "error"}, Raises(p, how)
      PROVE  OthersStay(p)
  <2>1. /\ pc' = [pc EXCEPT ![p] = "idle"] /\ cwd' = cwd
        /\ memory' = memory \/ memory' = [memory EXCEPT ![p] = NoThread]
    BY <1>2 DEF Raises, Goto
  <2>2. DropLocals(p)
    BY <1>2 DEF Raises
  <2>3. \A q \in Procs \ {p} : pc'[q] = pc[q] /\ cwd'[q] = cwd[q] /\ memory'[q] = memory[q]
    BY <2>1 DEF Inv, TypeOK
  <2> QED BY <2>2, <2>3, DropOthers DEF OthersStay
<1> QED BY <1>1, <1>2

LEMMA TurnFollows ==
  ASSUME Inv, ChoiceInv, NEW p \in Procs,
         \/ RunTurns(p)
         \/ \E how \in {"interrupt", "timeout", "error"} : Raises(p, how)
  PROVE  ChoiceInv'
<1>1. OthersStay(p)
  BY TurnOthers
<1>2. Leads(p) /\ Follows(p) /\ (memory[p] # NoThread => ~ Git(p))
  BY DEF ChoiceInv, Inv, Placed
<1> USE SessionAssumption DEF Free, Fresh, Turning, Saving, Holding
<1>3. CASE RunTurns(p)
  <2>1. /\ UNCHANGED <<row, branch, cwd, memory, thread, began, choice>>
        /\ pc[p] \in Turning /\ pc'[p] \in {pc[p], "save", "verify"}
    BY <1>3 DEF RunTurns, Escalates, Settles, Verified, At, Goto, Inv, TypeOK
  <2>2. Leads(p)' /\ Follows(p)'
    BY <1>2, <2>1 DEF Leads, Follows, Reusable, Names, Git
  <2>3. OthersChoose(p)
    BY <2>1 DEF OthersChoose, SameRow
  <2> QED BY <1>1, <2>2, <2>3, OthersFollow
<1>4. ASSUME NEW how \in {"interrupt", "timeout", "error"}, Raises(p, how)
      PROVE  ChoiceInv'
  <2>1. UNCHANGED <<row, branch, cwd>> /\ pc'[p] = "idle"
    BY <1>4 DEF Raises, Goto, Inv, TypeOK
  <2>2. /\ \/ memory'[p] = memory[p] /\ choice'[p] = choice[p]
           \/ memory'[p] = NoThread /\ choice'[p] = IF Git(p) THEN choice[p] ELSE Fresh
        /\ \A q \in Procs \ {p} : choice'[q] = choice[q]
    <3>1. CASE how = "interrupt"
      BY <1>4, <3>1 DEF Raises
    <3>2. CASE how # "interrupt"
      <4>1. memory' = [memory EXCEPT ![p] = NoThread] /\ ForgetChoice(p)
        BY <1>4, <3>2 DEF Raises
      <4>2. memory'[p] = NoThread
        BY <4>1 DEF Inv, TypeOK
      <4> QED BY <4>1, <4>2, ForgetOthers
    <3> QED BY <3>1, <3>2
  <2>3. Leads(p)' /\ Follows(p)'
    BY <1>2, <2>1, <2>2 DEF Leads, Follows, Reusable, Names, Git
  <2>4. OthersChoose(p)
    BY <2>1, <2>2 DEF OthersChoose, SameRow
  <2> QED BY <1>1, <2>3, <2>4, OthersFollow
<1> QED BY <1>3, <1>4

LEMMA SaveOthers ==
  ASSUME Inv, NEW p \in Procs, Save(p)
  PROVE  OthersStay(p)
<1>1. CASE Remember(p)
  BY <1>1, DropOthers DEF Remember, Goto, Inv, TypeOK, OthersStay
<1>2. CASE SaveReads(p) \/ Upserts(p)
  BY <1>2 DEF SaveReads, Upserts, Goto, locals, Inv, TypeOK, OthersStay
<1>3. CASE Counts(p) \/ SaveFails(p)
  BY <1>3, DropOthers DEF Counts, SaveFails, Goto, history, Inv, TypeOK, OthersStay
<1> QED BY <1>1, <1>2, <1>3 DEF Save

LEMMA CountTypes ==
  ASSUME Inv, NEW p \in Procs
  PROVE  /\ base[p] \in Nat /\ used[p] \in Nat /\ base[p] + used[p] \in Nat
         /\ row # NoRow => /\ row \in Rows /\ row.thread \in Threads
                           /\ row.turns \in Nat /\ row.turns + 1 \in Nat
<1>1. base[p] \in Nat /\ used[p] \in Nat
  BY SessionAssumption DEF Inv, TypeOK
<1>2. row # NoRow => row \in Rows
  BY DEF Inv, TypeOK
<1>3. row \in Rows => row.thread \in Threads /\ row.turns \in Nat
  BY DEF Rows
<1> QED BY <1>1, <1>2, <1>3

LEMMA RowFields ==
  ASSUME Inv, NEW t \in Threads, NEW n \in Nat, row' = RowOf(t, n)
  PROVE  /\ row' # NoRow /\ row'.thread = t /\ row'.turns = n
         /\ row'.recent /\ row'.branch = branch
<1>1. row' # NoRow
  BY RowType, SessionAssumption
<1> QED BY <1>1 DEF RowOf

LEMMA SaveFollows ==
  ASSUME Inv, ChoiceInv, NEW p \in Procs, Save(p)
  PROVE  ChoiceInv'
<1>1. OthersStay(p)
  BY SaveOthers
<1>2. Leads(p) /\ Follows(p)
  BY DEF ChoiceInv
<1> USE SessionAssumption DEF Free, Fresh, Turning, Saving, Holding
<1>3. CASE Remember(p)
  <2>1. /\ UNCHANGED <<row, branch, cwd>> /\ ~ Git(p) /\ pc'[p] = "idle"
        /\ thread[p] \in Threads
        /\ memory'[p] = thread[p] /\ choice'[p] = thread[p]
        /\ \A q \in Procs \ {p} : choice'[q] = choice[q]
    BY ZenonT(60), <1>3 DEF Remember, At, Goto, Inv, TypeOK, Placed
  <2>2. Leads(p)' /\ Follows(p)'
    BY <2>1 DEF Leads, Follows, Git
  <2>3. OthersChoose(p)
    BY <2>1 DEF OthersChoose, SameRow
  <2> QED BY <1>1, <2>2, <2>3, OthersFollow
<1>4. CASE SaveReads(p)
  <2>1. /\ Git(p) /\ pc[p] = "save" /\ pc'[p] = "upsert"
        /\ UNCHANGED <<branch, cwd, thread, began>>
    BY <1>4 DEF SaveReads, At, Goto, Inv, TypeOK
  <2>2. CASE row # NoRow /\ ~ Names(thread[p])
    <3>1. row' = NoRow /\ Chosen(p, choice[p])
      BY <1>4, <2>2 DEF SaveReads
    <3>2. choice'[p] = choice[p] /\ OthersChoose(p)
      BY <3>1, ChosenOthers
    <3>3. choice[p] \notin Threads
      BY <1>2, <2>1, <2>2 DEF Leads, Follows
    <3>4. Leads(p)' /\ Follows(p)'
      BY <1>2, <2>1, <3>1, <3>2, <3>3 DEF Leads, Follows, Git
    <3> QED BY <1>1, <3>2, <3>4, OthersFollow
  <2>3. CASE ~ (row # NoRow /\ ~ Names(thread[p]))
    <3>1. UNCHANGED <<row, choice>>
      BY <1>4, <2>3 DEF SaveReads
    <3>2. Leads(p)' /\ Follows(p)'
      BY <1>2, <2>1, <3>1 DEF Leads, Follows, Reusable, Names, Git
    <3>3. OthersChoose(p)
      BY <2>1, <3>1 DEF OthersChoose, SameRow
    <3> QED BY <1>1, <3>2, <3>3, OthersFollow
  <2> QED BY <2>2, <2>3
<1>5. CASE Upserts(p)
  <2>1. /\ Git(p) /\ pc[p] = "upsert" /\ pc'[p] = "count" /\ thread[p] \in Threads
        /\ UNCHANGED <<branch, cwd, thread, began>>
    BY ZenonT(60), <1>5 DEF Upserts, At, Goto, locals, Inv, TypeOK, Placed
  <2>2. choice'[p] = thread[p] /\ OthersChoose(p)
    BY <1>5, ChosenOthers DEF Upserts
  <2>3. /\ row' # NoRow /\ row'.thread = thread[p] /\ row'.recent /\ row'.branch = branch
    <3>1. \E n \in Nat : row' = RowOf(thread[p], n)
      BY <1>5, CountTypes DEF Upserts
    <3> QED BY <2>1, <3>1, RowFields
  <2>4. Leads(p)' /\ Follows(p)'
    BY <2>1, <2>2, <2>3 DEF Leads, Follows, Reusable, Names, Git
  <2> QED BY <1>1, <2>2, <2>4, OthersFollow
<1>6. CASE Counts(p)
  <2>1. /\ UNCHANGED <<branch, cwd, memory, choice>> /\ pc'[p] = "idle"
    BY <1>6 DEF Counts, Goto, history, Inv, TypeOK
  <2>2. SameRow
    <3>1. row # NoRow => row \in Rows /\ base[p] + used[p] \in Nat
      BY CountTypes
    <3>2. row # NoRow => /\ row' \in Rows /\ row'.thread = row.thread
                         /\ row'.recent = row.recent /\ row'.branch = row.branch
      BY <1>6, <3>1 DEF Counts, Rows
    <3>3. row = NoRow => row' = NoRow
      BY <1>6 DEF Counts
    <3> QED BY <2>1, <3>2, <3>3 DEF SameRow
  <2>3. Leads(p)' /\ Follows(p)'
    <3>1. Leads(p)'
      BY <1>2, <2>1, <2>2 DEF SameRow, Leads, Reusable, Names, Git
    <3> QED BY <2>1, <3>1 DEF Follows
  <2>4. OthersChoose(p)
    BY <2>1, <2>2 DEF OthersChoose
  <2> QED BY <1>1, <2>3, <2>4, OthersFollow
<1>7. CASE SaveFails(p)
  <2>1. UNCHANGED <<row, branch, cwd, memory, choice>> /\ pc'[p] = "idle"
    BY <1>7 DEF SaveFails, Goto, Inv, TypeOK
  <2>2. Leads(p)' /\ Follows(p)'
    BY <1>2, <2>1 DEF Leads, Follows, Reusable, Names, Git
  <2>3. OthersChoose(p)
    BY <2>1 DEF OthersChoose, SameRow
  <2> QED BY <1>1, <2>2, <2>3, OthersFollow
<1> QED BY <1>3, <1>4, <1>5, <1>6, <1>7 DEF Save

LEMMA CommandOthers ==
  ASSUME Inv, NEW p \in Procs, Command(p)
  PROVE  OthersStay(p)
<1>1. CASE NewSession(p) \/ Unbinds(p) \/ \E t \in Threads : Binds(p, t)
  BY <1>1 DEF NewSession, Unbinds, Binds, Goto, locals, Inv, TypeOK, OthersStay
<1>2. ASSUME NEW t \in Threads, NEW g \in BOOLEAN, Removes(p, t, g)
      PROVE  OthersStay(p)
  BY <1>2, RestartOthers DEF Removes, locals, Inv, TypeOK, OthersStay
<1> QED BY <1>1, <1>2 DEF Command

LEMMA CommandFollows ==
  ASSUME Inv, ChoiceInv, NEW p \in Procs, Command(p)
  PROVE  ChoiceInv'
<1>1. OthersStay(p)
  BY CommandOthers
<1>2. Leads(p) /\ Follows(p) /\ (memory[p] # NoThread => ~ Git(p))
  BY DEF ChoiceInv, Inv, Placed
<1> USE SessionAssumption DEF Free, Fresh, Turning, Saving, Holding
<1>3. CASE NewSession(p)
  <2>1. /\ UNCHANGED <<branch, pc, cwd>> /\ pc[p] = "idle" /\ memory'[p] = NoThread
        /\ row' = IF Git(p) THEN NoRow ELSE row
    BY <1>3 DEF NewSession, At, Inv, TypeOK
  <2>2. choice'[p] = Fresh /\ OthersChoose(p)
    <3>1. CASE Git(p)
      <4>1. Chosen(p, Fresh)
        BY <1>3, <3>1 DEF NewSession
      <4> QED BY <4>1, ChosenOthers
    <3>2. CASE ~ Git(p)
      <4>1. choice' = [choice EXCEPT ![p] = Fresh]
        BY <1>3, <3>2 DEF NewSession
      <4> QED BY <2>1, <3>2, <4>1 DEF OthersChoose, SameRow, Inv, TypeOK
    <3> QED BY <3>1, <3>2
  <2>3. Leads(p)' /\ Follows(p)'
    BY <2>1, <2>2 DEF Leads, Follows, Git
  <2> QED BY <1>1, <2>2, <2>3, OthersFollow
<1>4. CASE Unbinds(p)
  <2>1. /\ row' = NoRow /\ UNCHANGED <<branch, cwd>> /\ pc'[p] = "idle" /\ Git(p)
    BY <1>2, <1>4 DEF Unbinds, At, Goto, Inv, TypeOK, Follows
  <2>2. choice'[p] = Fresh /\ OthersChoose(p)
    BY <1>4, ChosenOthers DEF Unbinds
  <2>3. Leads(p)' /\ Follows(p)'
    BY <2>1, <2>2 DEF Leads, Follows, Git
  <2> QED BY <1>1, <2>2, <2>3, OthersFollow
<1>5. ASSUME NEW t \in Threads, Binds(p, t)
      PROVE  ChoiceInv'
  <2>1. /\ UNCHANGED <<branch, pc, cwd>> /\ pc[p] = "idle" /\ Git(p)
        /\ row' = RowOf(t, 0)
    BY <1>5 DEF Binds, At
  <2>2. row' # NoRow /\ row'.thread = t /\ row'.recent /\ row'.branch = branch
    BY <2>1, RowFields
  <2>3. choice'[p] = t /\ OthersChoose(p)
    BY <1>5, ChosenOthers DEF Binds
  <2>4. Leads(p)' /\ Follows(p)'
    BY <2>1, <2>2, <2>3 DEF Leads, Follows, Reusable, Names, Git
  <2> QED BY <1>1, <2>3, <2>4, OthersFollow
<1>6. ASSUME NEW t \in Threads, NEW g \in BOOLEAN, Removes(p, t, g)
      PROVE  ChoiceInv'
  <2>1. /\ UNCHANGED <<row, branch, cwd>> /\ pc[p] = "idle"
        /\ pc'[p] = "idle" \/ (pc'[p] = "unbind" /\ Git(p))
    BY <1>6 DEF Removes, At, Inv, TypeOK
  <2>2. \/ memory'[p] = memory[p] /\ choice'[p] = choice[p]
        \/ memory'[p] = NoThread /\ choice'[p] = IF Git(p) THEN choice[p] ELSE Fresh
    BY <1>6, RestartOthers DEF Removes
  <2>3. Leads(p)' /\ Follows(p)'
    BY <1>2, <2>1, <2>2 DEF Leads, Follows, Reusable, Names, Git
  <2>4. OthersChoose(p)
    BY <1>6, <2>1, RestartOthers DEF Removes, OthersChoose, SameRow
  <2> QED BY <1>1, <2>3, <2>4, OthersFollow
<1> QED BY <1>3, <1>4, <1>5, <1>6 DEF Command

LEMMA ChoicesHold == Spec => []ChoiceInv
<1>1. Init => ChoiceInv
  <2> SUFFICES ASSUME Init, NEW p \in Procs
               PROVE  choice[p] = Free /\ pc[p] = "gone"
    BY SessionAssumption
    DEF ChoiceInv, Leads, Follows, Free, Fresh, Turning, Saving, Holding
  <2> QED BY DEF Init
<1>2. Inv /\ ChoiceInv /\ [Next]_vars => ChoiceInv'
  <2> SUFFICES ASSUME Inv, ChoiceInv, [Next]_vars PROVE ChoiceInv'
    OBVIOUS
  <2>1. CASE UNCHANGED vars
    BY <2>1 DEF vars, locals, history, ChoiceInv, Leads, Follows, Reusable, Names, Git
  <2>2. CASE Next
    BY <2>2, WorldFollows, TimeFollows, AcquireFollows, TurnFollows, SaveFollows, CommandFollows
    DEF Next
  <2> QED BY <2>1, <2>2
<1> QED BY <1>1, <1>2, Invariance, PTL DEF Spec

(* A prompt follows what was chosen last: the thread its last prompt used or
   /resume bound, the new one that /new announced (cx2_runtime.py
   execute_prompt, src/cx.py session_reusable and bind_repo_session). *)
THEOREM PromptsFollow == Spec => []FollowsChoice
<1>1. ChoiceInv => FollowsChoice
  BY DEF ChoiceInv, Follows, FollowsChoice, Holding
<1> QED BY <1>1, ChoicesHold, PTL

-----------------------------------------------------------------------------
(* The count of the row. A thread that is not started has run no turn, and a
   prompt that saves has run one. *)
NoTurnUnstarted == \A t \in Threads : home[t] = "none" => ran[t] = 0

SavesTurns == \A p \in Procs : pc[p] \in Saving => used[p] >= 1

(* Without an overlap one process at a time works on the row. *)
OneWorker == \A p, q \in Procs : Busy(p) /\ Busy(q) => p = q

(* n turns of a thread are all it ran, or fewer when some were lost. *)
CountOf(t, n) ==
  /\ n <= ran[t]
  /\ t \notin lost => n = ran[t]

Working(p) == Git(p) /\ pc[p] \in Turning \cup Saving

(* The row never counts too many turns, and all of them unless a prompt with
   its thread is under way. *)
RowCounts ==
  row # NoRow =>
    /\ row.turns <= ran[row.thread]
    /\ CountOf(row.thread, row.turns) \/ \E p \in Procs : Working(p) /\ Names(thread[p])

(* The turns of the prompt under way are what the row is short of; while it is
   being saved, base holds what the row counted before. *)
PromptCounts(p) ==
  Git(p) =>
    /\ pc[p] = "resume" => Names(thread[p])
    /\ pc[p] \in Turning \cup {"save"} => CountOf(thread[p], BaseTurns(p) + used[p])
    /\ pc[p] \in {"upsert", "count"} => CountOf(thread[p], base[p] + used[p])
    /\ pc[p] = "upsert" => (row = NoRow \/ Names(thread[p])) /\ base[p] = BaseTurns(p)
    /\ pc[p] = "count" => Names(thread[p])

CountsRight == OneWorker /\ RowCounts /\ \A p \in Procs : PromptCounts(p)

CountInv == NoTurnUnstarted /\ SavesTurns /\ (~ overlap => CountsRight)

-----------------------------------------------------------------------------
(* What keeps the counts. *)
SameCount ==
  /\ row = NoRow <=> row' = NoRow
  /\ row # NoRow => row'.thread = row.thread /\ row'.turns = row.turns

LEMMA SameCountWhenKept ==
  ASSUME row' = row
  PROVE  SameCount
BY DEF SameCount

(* p alone works on the row before and after, or the step is quiet. *)
Alone(p) == \A q \in Procs \ {p} : ~ Busy(q)

(* Two processes that work at once have overlapped. *)
Admitted(p) ==
  ~ overlap' => ~ overlap /\ (Busy(p)' => Busy(p) \/ Alone(p))

LEMMA OneWorkerStays ==
  ASSUME CountInv, NEW p \in Procs, OthersStay(p), Admitted(p), ~ overlap'
  PROVE  OneWorker'
<1>1. \A q \in Procs \ {p} : Busy(q)' <=> Busy(q)
  BY DEF OthersStay, Busy, Git
<1>2. OneWorker /\ (Busy(p)' => Busy(p) \/ Alone(p))
  BY DEF CountInv, CountsRight, Admitted
<1>3. ASSUME NEW q \in Procs, NEW r \in Procs, Busy(q)', Busy(r)'
      PROVE  q = r
  BY <1>1, <1>2, <1>3 DEF OneWorker, Alone
<1> QED BY <1>3 DEF OneWorker

LEMMA WorkersAreBusy ==
  ASSUME NEW q \in Procs, pc[q] \in {"resume"} \cup Turning \cup Saving, Git(q)
  PROVE  Busy(q)
BY DEF Busy, Idle, Turning, Saving

(* Nothing is asked of a process that does not work on the row, nor is more of
   one that does while the row and its thread keep their counts. *)
LEMMA IdleCounted ==
  ASSUME NEW q \in Procs, ~ (Busy(q)')
  PROVE  PromptCounts(q)'
BY DEF Busy, Idle, Turning, Saving, PromptCounts

LEMMA OtherCounted ==
  ASSUME Inv, NEW p \in Procs, OthersStay(p), NEW q \in Procs, q # p, PromptCounts(q),
         \/ ~ Busy(q)
         \/ /\ SameCount /\ lost \subseteq lost'
            /\ thread[q] \in Threads => ran'[thread[q]] = ran[thread[q]]
  PROVE  PromptCounts(q)'
<1>1. /\ pc'[q] = pc[q] /\ cwd'[q] = cwd[q] /\ thread'[q] = thread[q]
      /\ used'[q] = used[q] /\ base'[q] = base[q]
  BY DEF OthersStay
<1>2. CASE ~ Busy(q)
  <2>1. ~ (Busy(q)')
    BY <1>1, <1>2 DEF Busy, Git
  <2> QED BY <2>1, IdleCounted
<1>3. CASE /\ SameCount /\ lost \subseteq lost'
           /\ thread[q] \in Threads => ran'[thread[q]] = ran[thread[q]]
  <2>1. Names(thread[q])' <=> Names(thread[q])
    BY <1>1, <1>3 DEF SameCount, Names
  <2>2. BaseTurns(q)' = BaseTurns(q)
    BY <1>1, <1>3, <2>1 DEF SameCount, BaseTurns, Names
  <2>3. pc[q] \in Turning \cup Saving => thread[q] \in Threads
    BY DEF Inv, Placed, Holding
  <2>4. (row = NoRow)' <=> row = NoRow
    BY <1>3 DEF SameCount
  <2>5. ASSUME pc[q] \in Turning \cup Saving, NEW n, CountOf(thread[q], n)
        PROVE  CountOf(thread[q], n)'
    BY <1>1, <1>3, <2>3, <2>5 DEF CountOf
  <2>6. ASSUME Git(q)
        PROVE  PromptCounts(q)'
    <3>1. pc[q] = "resume" => Names(thread[q])'
      BY <2>1, <2>6 DEF PromptCounts
    <3>2. pc[q] \in Turning \cup {"save"} => CountOf(thread[q], BaseTurns(q) + used[q])'
      <4>1. ASSUME pc[q] \in Turning \cup {"save"}
            PROVE  /\ BaseTurns(q)' + used'[q] = BaseTurns(q) + used[q]
                   /\ CountOf(thread[q], BaseTurns(q) + used[q])
        BY <1>1, <2>2, <2>6, <4>1 DEF PromptCounts
      <4> QED BY <1>1, <1>3, <2>3, <4>1 DEF CountOf, Saving
    <3>3. pc[q] \in {"upsert", "count"} => CountOf(thread[q], base[q] + used[q])'
      BY <1>1, <1>3, <2>3, <2>6 DEF PromptCounts, CountOf, Saving
    <3> QED
      BY <1>1, <2>1, <2>2, <2>4, <2>6, <3>1, <3>2, <3>3 DEF PromptCounts
  <2>7. Git(q)' <=> Git(q)
    BY <1>1 DEF Git
  <2> QED BY <2>6, <2>7 DEF PromptCounts
<1> QED BY <1>2, <1>3

LEMMA RowCountsStays ==
  ASSUME RowCounts, SameCount, lost \subseteq lost',
         row # NoRow => ran'[row.thread] = ran[row.thread],
         \A q \in Procs : Working(q) /\ Names(thread[q]) => (Working(q) /\ Names(thread[q]))'
  PROVE  RowCounts'
<1> SUFFICES ASSUME row' # NoRow
             PROVE  /\ row'.turns <= ran'[row'.thread]
                    /\ \/ CountOf(row.thread, row.turns)'
                       \/ \E p \in Procs : (Working(p) /\ Names(thread[p]))'
  BY DEF RowCounts
<1>1. row # NoRow /\ row'.thread = row.thread /\ row'.turns = row.turns
  BY DEF SameCount
<1>2. CountOf(row.thread, row.turns) => CountOf(row.thread, row.turns)'
  BY <1>1 DEF CountOf
<1> QED BY <1>1, <1>2 DEF RowCounts

(* A step that counts nothing: p does not work on the row with a thread, or
   stops at the row's own. *)
LEMMA QuietCounts ==
  ASSUME Inv, CountInv, NEW p \in Procs, OthersStay(p), Admitted(p), SameCount,
         ran' = ran, lost' = lost,
         \A t \in Threads : home'[t] = "none" => home[t] = "none",
         ~ Working(p), ~ (Working(p)'), pc'[p] \notin Saving,
         Git(p)' /\ pc'[p] = "resume" => Names(thread[p])'
  PROVE  CountInv'
<1>1. NoTurnUnstarted'
  BY DEF CountInv, NoTurnUnstarted
<1>2. SavesTurns'
  BY DEF OthersStay, CountInv, SavesTurns
<1>3. ASSUME ~ overlap'
      PROVE  CountsRight'
  <2>1. CountsRight
    BY <1>3 DEF Admitted, CountInv
  <2>2. ASSUME NEW q \in Procs
        PROVE  PromptCounts(q)'
    <3>1. CASE q = p
      BY <3>1 DEF PromptCounts, Working, Turning, Saving
    <3>2. CASE q # p
      BY <2>1, <3>2, OtherCounted DEF CountsRight
    <3> QED BY <3>1, <3>2
  <2>3. \A q \in Procs : Working(q) /\ Names(thread[q]) => (Working(q) /\ Names(thread[q]))'
    BY DEF OthersStay, SameCount, Working, Names, Git
  <2>4. RowCounts'
    BY <2>1, <2>3, RowCountsStays DEF CountsRight
  <2> QED BY <1>3, <2>2, <2>4, OneWorkerStays DEF CountsRight
<1> QED BY <1>1, <1>2, <1>3 DEF CountInv

(* The row is cleared, by the one process at work. *)
LEMMA ClearCounts ==
  ASSUME Inv, CountInv, NEW p \in Procs, OthersStay(p), Admitted(p), ~ overlap' => Alone(p),
         row' = NoRow, ran' = ran, home' = home, pc'[p] \in {"idle", "start"}
  PROVE  CountInv'
<1>1. NoTurnUnstarted'
  BY DEF CountInv, NoTurnUnstarted
<1>2. SavesTurns'
  BY DEF OthersStay, CountInv, SavesTurns, Saving
<1>3. ASSUME ~ overlap'
      PROVE  CountsRight'
  <2>1. CountsRight
    BY <1>3 DEF Admitted, CountInv
  <2>2. ASSUME NEW q \in Procs
        PROVE  PromptCounts(q)'
    <3>1. CASE q = p
      BY <3>1 DEF PromptCounts, Turning, Saving
    <3>2. CASE q # p
      BY <1>3, <2>1, <3>2, OtherCounted DEF CountsRight, Alone
    <3> QED BY <3>1, <3>2
  <2> QED BY <1>3, <2>2, OneWorkerStays DEF CountsRight, RowCounts
<1> QED BY <1>1, <1>2, <1>3 DEF CountInv

(* A prompt ends without being saved: the turns it ran are lost, or it ran
   none. *)
LEMMA DropCounts ==
  ASSUME Inv, CountInv, NEW p \in Procs, OthersStay(p), overlap' = overlap,
         row' = row, ran' = ran, home' = home, Unsaved(p), pc'[p] \in Idle
  PROVE  CountInv'
<1>1. NoTurnUnstarted'
  BY DEF CountInv, NoTurnUnstarted
<1>2. SavesTurns'
  BY DEF OthersStay, CountInv, SavesTurns, Saving, Idle
<1>3. SameCount /\ lost \subseteq lost'
  BY DEF SameCount, Unsaved
<1>4. Admitted(p)
  BY DEF Admitted, Busy
<1>5. ASSUME ~ overlap'
      PROVE  CountsRight'
  <2>1. CountsRight
    BY <1>5 DEF CountInv
  <2>2. ASSUME NEW q \in Procs
        PROVE  PromptCounts(q)'
    <3>1. CASE q = p
      BY <3>1, IdleCounted DEF Busy
    <3>2. CASE q # p
      BY <1>3, <2>1, <3>2, OtherCounted DEF CountsRight
    <3> QED BY <3>1, <3>2
  <2>3. RowCounts'
    <3> SUFFICES ASSUME row # NoRow
                 PROVE  RowCounts'
      BY DEF RowCounts
    <3>1. row.turns <= ran[row.thread]
      BY <2>1 DEF CountsRight, RowCounts
    <3>2. CASE CountOf(row.thread, row.turns)
      BY <1>3, <3>1, <3>2 DEF RowCounts, CountOf
    <3>3. ASSUME NEW q \in Procs, q # p, Working(q), Names(thread[q])
          PROVE  RowCounts'
      <4>1. (Working(q) /\ Names(thread[q]))'
        BY <3>3 DEF OthersStay, Working, Names, Git
      <4> QED BY <3>1, <4>1 DEF RowCounts
    <3>4. CASE Working(p) /\ Names(thread[p])
      <4>1. row.thread = thread[p]
        BY <3>4 DEF Names
      <4>2. used[p] \in Nat
        BY CountTypes
      <4>3. CASE used[p] > 0
        BY <3>1, <4>1, <4>3 DEF Unsaved, RowCounts, CountOf
      <4>4. CASE used[p] = 0
        <5>1. pc[p] \notin Saving
          BY <4>4 DEF CountInv, SavesTurns
        <5>2. CountOf(thread[p], BaseTurns(p) + used[p])
          BY <2>1, <3>4, <5>1 DEF CountsRight, PromptCounts, Working
        <5>3. BaseTurns(p) + used[p] = row.turns
          BY <3>4, <4>4, CountTypes DEF BaseTurns
        <5>4. CountOf(row.thread, row.turns)
          BY <4>1, <5>2, <5>3
        <5> QED BY <3>2, <5>4
      <4> QED BY <4>2, <4>3, <4>4
    <3> QED BY <2>1, <3>2, <3>3, <3>4 DEF CountsRight, RowCounts
  <2> QED BY <1>4, <1>5, <2>2, <2>3, OneWorkerStays DEF CountsRight
<1> QED BY <1>1, <1>2, <1>5 DEF CountInv

(* A turn has run. Elsewhere it is of a thread that the row cannot name; in the
   repository it is one more of the prompt. *)
LEMMA ReturnCounts ==
  ASSUME Inv, CountInv, NEW p \in Procs, OthersStay(p), overlap' = overlap,
         row' = row, lost' = lost, home' = home, cwd' = cwd, thread' = thread,
         pc[p] \in Turning, pc'[p] \in Turning \cup {"save"},
         used'[p] = used[p] + 1, ran' = [ran EXCEPT ![thread[p]] = @ + 1]
  PROVE  CountInv'
<1>1. /\ thread[p] \in Threads /\ home[thread[p]] = cwd[p] /\ cwd[p] \in {"repo", "dir"}
      /\ used[p] \in Nat
  BY CountTypes DEF Inv, Placed, Holding, TypeOK, Places
<1>2. /\ ran[thread[p]] \in Nat /\ ran'[thread[p]] = ran[thread[p]] + 1
      /\ \A t \in Threads : t # thread[p] => ran'[t] = ran[t]
  BY <1>1 DEF Inv, TypeOK
<1>3. NoTurnUnstarted'
  BY <1>1, <1>2 DEF CountInv, NoTurnUnstarted
<1>4. SavesTurns'
  BY <1>1 DEF OthersStay, CountInv, SavesTurns
<1>5. SameCount /\ Admitted(p)
  BY DEF SameCount, Admitted, Busy, Git, Idle, Turning
<1>6. \A q \in Procs : Working(q) /\ Names(thread[q]) => (Working(q) /\ Names(thread[q]))'
  BY DEF OthersStay, Working, Names, Git, Saving
<1>7. row # NoRow => row.thread \in Threads /\ home[row.thread] = "repo" /\ row.turns \in Nat
  BY CountTypes DEF Inv, Placed
<1>8. ASSUME ~ overlap', ~ Git(p)
      PROVE  CountsRight'
  <2>1. CountsRight
    BY <1>8 DEF CountInv
  <2>2. home[thread[p]] = "dir"
    BY <1>1, <1>8 DEF Git
  <2>3. ASSUME NEW q \in Procs
        PROVE  PromptCounts(q)'
    <3>1. CASE q = p
      BY <1>8, <3>1 DEF PromptCounts, Git
    <3>2. CASE q # p /\ pc[q] \in Holding /\ Git(q)
      <4>1. thread[q] \in Threads /\ home[thread[q]] = "repo"
        BY <3>2 DEF Inv, Placed, Git
      <4> QED BY <1>2, <1>5, <2>1, <2>2, <3>2, <4>1, OtherCounted DEF CountsRight
    <3>3. CASE q # p /\ ~ (pc[q] \in Holding /\ Git(q))
      BY <3>3 DEF OthersStay, PromptCounts, Git, Holding, Turning, Saving
    <3> QED BY <3>1, <3>2, <3>3
  <2>4. RowCounts'
    BY <1>2, <1>5, <1>6, <1>7, <2>1, <2>2, RowCountsStays DEF CountsRight
  <2> QED BY <1>5, <1>8, <2>3, <2>4, OneWorkerStays DEF CountsRight
<1>9. ASSUME ~ overlap', Git(p)
      PROVE  CountsRight'
  <2>1. CountsRight
    BY <1>9 DEF CountInv
  <2>2. Alone(p)
    BY <1>9, <2>1, WorkersAreBusy DEF Alone, CountsRight, OneWorker
  <2>3. ASSUME NEW q \in Procs
        PROVE  PromptCounts(q)'
    <3>1. CASE q # p
      BY <2>1, <2>2, <3>1, OtherCounted DEF CountsRight, Alone
    <3>2. CASE q = p
      <4>1. CountOf(thread[p], BaseTurns(p) + used[p])
        BY <1>9, <2>1 DEF CountsRight, PromptCounts
      <4>2. BaseTurns(p) \in Nat /\ BaseTurns(p)' = BaseTurns(p)
        BY <1>7 DEF BaseTurns, Names
      <4>3. BaseTurns(p)' + used'[p] = (BaseTurns(p) + used[p]) + 1
        BY <1>1, <4>2
      <4>4. CountOf(thread[p], BaseTurns(p) + used[p])'
        BY <1>1, <1>2, <4>1, <4>2, <4>3 DEF CountOf
      <4> QED BY <3>2, <4>4 DEF PromptCounts, Turning
    <3> QED BY <3>1, <3>2
  <2>4. RowCounts'
    <3>1. CASE row # NoRow /\ row.thread = thread[p]
      <4>1. row.turns <= ran'[row.thread]
        BY <1>2, <1>7, <2>1, <3>1 DEF CountsRight, RowCounts
      <4>2. (Working(p) /\ Names(thread[p]))'
        BY <1>6, <1>9, <3>1 DEF Working, Names
      <4> QED BY <4>1, <4>2 DEF RowCounts
    <3>2. CASE row # NoRow /\ row.thread # thread[p]
      BY <1>2, <1>5, <1>6, <1>7, <2>1, <3>2, RowCountsStays DEF CountsRight
    <3>3. CASE row = NoRow
      BY <3>3 DEF RowCounts
    <3> QED BY <3>1, <3>2, <3>3
  <2> QED BY <1>5, <1>9, <2>3, <2>4, OneWorkerStays DEF CountsRight
<1> QED BY <1>3, <1>4, <1>8, <1>9 DEF CountInv

(* A resumed thread is the row's, and the row has counted all of it; a new one
   has run nothing. *)
LEMMA ResumesCounts ==
  ASSUME Inv, CountInv, NEW p \in Procs, Resumes(p)
  PROVE  CountInv'
<1>1. OthersStay(p)
  BY AcquireOthers DEF Acquire
<1>2. /\ pc[p] = "resume" /\ pc'[p] = "turn" /\ cwd' = cwd /\ thread' = thread
      /\ UNCHANGED <<row, ran, lost, home, overlap, used, base>>
  BY DEF Resumes, At, Goto, locals, history, Inv, TypeOK
<1>3. SameCount /\ Admitted(p)
  BY <1>2 DEF SameCount, Admitted, Busy, Git, Idle
<1>4. CASE ~ Git(p)
  BY <1>1, <1>2, <1>3, <1>4, QuietCounts DEF Working, Git, Saving
<1>5. CASE Git(p)
  <2>1. NoTurnUnstarted' /\ SavesTurns'
    BY <1>1, <1>2 DEF OthersStay, CountInv, NoTurnUnstarted, SavesTurns, Saving
  <2>2. ASSUME ~ overlap'
        PROVE  CountsRight'
    <3>1. CountsRight
      BY <1>2, <2>2 DEF CountInv
    <3>2. Alone(p)
      BY <1>2, <1>5, <3>1, WorkersAreBusy DEF Alone, CountsRight, OneWorker
    <3>3. Names(thread[p])
      BY <1>2, <1>5, <3>1 DEF CountsRight, PromptCounts
    <3>4. CountOf(row.thread, row.turns)
      <4>1. \A q \in Procs : ~ Working(q)
        BY <1>2, <3>2, WorkersAreBusy DEF Alone, Working, Turning, Saving
      <4> QED BY <3>1, <3>3, <4>1 DEF CountsRight, RowCounts, Names
    <3>5. BaseTurns(p) + used[p] = row.turns
      <4>1. used[p] = 0 /\ row.turns \in Nat
        BY <1>2, <3>3, CountTypes DEF Inv, Planned, Names
      <4> QED BY <3>3, <4>1 DEF BaseTurns
    <3>6. PromptCounts(p)'
      <4>1. CountOf(thread[p], BaseTurns(p) + used[p])
        BY <3>3, <3>4, <3>5 DEF Names
      <4>2. CountOf(thread[p], BaseTurns(p) + used[p])'
        BY <1>2, <4>1 DEF CountOf, BaseTurns, Names
      <4> QED BY <1>2, <4>2 DEF PromptCounts
    <3>7. \A q \in Procs : PromptCounts(q)'
      BY <1>1, <3>1, <3>2, <3>6, OtherCounted DEF CountsRight, Alone
    <3>8. \A q \in Procs : Working(q) /\ Names(thread[q]) => (Working(q) /\ Names(thread[q]))'
      BY <1>1, <1>2 DEF OthersStay, Working, Names, Git, Turning, Saving
    <3>9. RowCounts'
      BY <1>2, <1>3, <3>1, <3>8, RowCountsStays DEF CountsRight
    <3> QED BY <1>1, <1>3, <2>2, <3>7, <3>9, OneWorkerStays DEF CountsRight
  <2> QED BY <2>1, <2>2 DEF CountInv
<1> QED BY <1>4, <1>5

LEMMA StartsCounts ==
  ASSUME Inv, CountInv, NEW p \in Procs, NEW t \in Threads, Starts(p, t)
  PROVE  CountInv'
<1>1. OthersStay(p)
  BY AcquireOthers DEF Acquire
<1>2. /\ pc[p] = "start" /\ pc'[p] = "turn" /\ cwd' = cwd /\ thread'[p] = t
      /\ home[t] = "none" /\ home' = [home EXCEPT ![t] = cwd[p]] /\ cwd[p] \in Places
      /\ UNCHANGED <<row, ran, lost, overlap, used, base>>
  BY DEF Starts, At, Goto, history, Inv, TypeOK
<1>3. SameCount /\ Admitted(p)
  BY <1>2 DEF SameCount, Admitted, Busy, Git, Idle
<1>4. \A u \in Threads : home'[u] = "none" => home[u] = "none"
  BY <1>2 DEF Inv, TypeOK
<1>5. CASE ~ Git(p)
  BY <1>1, <1>2, <1>3, <1>4, <1>5, QuietCounts DEF Working, Git, Saving
<1>6. CASE Git(p)
  <2>1. NoTurnUnstarted' /\ SavesTurns'
    BY <1>1, <1>2, <1>4 DEF OthersStay, CountInv, NoTurnUnstarted, SavesTurns, Saving
  <2>2. ASSUME ~ overlap'
        PROVE  CountsRight'
    <3>1. CountsRight
      BY <1>2, <2>2 DEF CountInv
    <3>2. ~ Names(t)
      BY <1>2 DEF Inv, Placed, Names
    <3>3. PromptCounts(p)'
      <4>1. used[p] = 0 /\ ran[t] = 0
        BY <1>2 DEF Inv, Planned, CountInv, NoTurnUnstarted
      <4>2. BaseTurns(p)' = 0
        BY <1>2, <3>2 DEF BaseTurns, Names
      <4>3. BaseTurns(p)' + used'[p] = 0
        BY <1>2, <4>1, <4>2
      <4>4. CountOf(thread[p], BaseTurns(p) + used[p])'
        BY <1>2, <4>1, <4>3 DEF CountOf
      <4> QED BY <1>2, <4>4 DEF PromptCounts
    <3>4. \A q \in Procs : PromptCounts(q)'
      BY <1>1, <1>2, <1>3, <3>1, <3>3, OtherCounted DEF CountsRight
    <3>5. \A q \in Procs : Working(q) /\ Names(thread[q]) => (Working(q) /\ Names(thread[q]))'
      BY <1>1, <1>2 DEF OthersStay, Working, Names, Git, Turning, Saving
    <3>6. RowCounts'
      BY <1>2, <1>3, <3>1, <3>5, RowCountsStays DEF CountsRight
    <3> QED BY <1>1, <1>3, <2>2, <3>4, <3>6, OneWorkerStays DEF CountsRight
  <2> QED BY <2>1, <2>2 DEF CountInv
<1> QED BY <1>5, <1>6

-----------------------------------------------------------------------------
(* The steps, one group after the other. *)
LEMMA OverlapAdmits ==
  ASSUME NEW p \in Procs, Overlaps(p), Git(p)' <=> Git(p)
  PROVE  /\ Admitted(p)
         /\ ~ overlap' => ~ overlap /\ (Git(p) => Alone(p))
<1>1. ~ overlap' => ~ overlap /\ (Git(p) => Alone(p))
  BY DEF Overlaps, Alone
<1> QED BY <1>1 DEF Admitted, Busy

LEMMA WorldCounts ==
  ASSUME Inv, CountInv, NEW p \in Procs, World(p)
  PROVE  CountInv'
<1>1. OthersStay(p)
  BY WorldOthers
<1>2. ASSUME NEW w \in Places, Launch(p, w)
      PROVE  CountInv'
  <2>1. /\ pc[p] = "gone" /\ pc'[p] = "idle"
        /\ UNCHANGED <<row, ran, lost, home, overlap>>
    BY <1>2 DEF Launch, At, Goto, Inv, TypeOK
  <2>2. SameCount /\ Admitted(p) /\ ~ Working(p) /\ ~ (Working(p)')
    BY <2>1 DEF SameCount, Admitted, Busy, Idle, Working, Turning, Saving
  <2> QED BY <1>1, <2>1, <2>2, QuietCounts DEF Saving
<1>3. CASE Ends(p)
  <2>1. /\ pc'[p] \in Idle /\ Unsaved(p)
        /\ UNCHANGED <<row, ran, home, overlap>>
    BY <1>3 DEF Ends, Goto, Inv, TypeOK, Idle
  <2> QED BY <1>1, <2>1, DropCounts
<1>4. CASE ServerDies(p)
  BY <1>4 DEF ServerDies, locals, CountInv, NoTurnUnstarted, SavesTurns, CountsRight, OneWorker,
              RowCounts, PromptCounts, Working, CountOf, Busy, Git, Names, BaseTurns
<1> QED BY <1>2, <1>3, <1>4 DEF World

LEMMA TimeCounts ==
  ASSUME Inv, CountInv, Expires \/ \E b \in Branches : Checkout(b)
  PROVE  CountInv'
<1>1. /\ UNCHANGED <<home, pc, cwd, thread, used, base, ran, lost, overlap>>
      /\ row' = row \/ (row # NoRow /\ row' = [row EXCEPT !.recent = FALSE])
  BY DEF Expires, Checkout, locals
<1>2. SameCount
  <2>1. row # NoRow => row \in Rows
    BY DEF Inv, TypeOK
  <2>2. row # NoRow => row' \in Rows /\ row'.thread = row.thread /\ row'.turns = row.turns
    BY <1>1, <2>1 DEF Rows
  <2> QED BY <1>1, <2>2, SessionAssumption DEF SameCount
<1>3. \A q \in Procs : /\ Names(thread[q])' <=> Names(thread[q])
                       /\ BaseTurns(q)' = BaseTurns(q)
  BY <1>1, <1>2 DEF SameCount, Names, BaseTurns
<1>4. ASSUME CountsRight
      PROVE  CountsRight'
  <2>1. OneWorker'
    BY <1>1, <1>4 DEF CountsRight, OneWorker, Busy, Git
  <2>2. RowCounts'
    <3>1. \A q \in Procs : Working(q) /\ Names(thread[q]) => (Working(q) /\ Names(thread[q]))'
      BY <1>1, <1>3 DEF Working, Git
    <3> QED BY <1>1, <1>2, <1>4, <3>1, RowCountsStays DEF CountsRight
  <2>3. \A q \in Procs : PromptCounts(q)'
    <3>1. (row = NoRow)' <=> row = NoRow
      BY <1>2 DEF SameCount
    <3> QED BY <1>1, <1>3, <1>4, <3>1 DEF CountsRight, PromptCounts, CountOf, Git
  <2> QED BY <2>1, <2>2, <2>3 DEF CountsRight
<1> QED BY <1>1, <1>4 DEF CountInv, NoTurnUnstarted, SavesTurns

LEMMA AcquireCounts ==
  ASSUME Inv, CountInv, NEW p \in Procs,
         \/ StartFails(p) \/ Blocked(p)
         \/ \E n \in 1 .. MaxAttempts : Prompt(p, n)
         \/ Acquire(p)
  PROVE  CountInv'
<1>1. OthersStay(p)
  BY AcquireOthers
<1>2. CASE StartFails(p) \/ Blocked(p)
  <2>1. /\ pc[p] = "idle" /\ pc' = pc /\ cwd' = cwd
        /\ UNCHANGED <<row, ran, lost, home, overlap>>
    BY <1>2 DEF StartFails, Blocked, At
  <2>2. SameCount /\ Admitted(p) /\ ~ Working(p) /\ ~ (Working(p)')
    BY <2>1 DEF SameCount, Admitted, Busy, Git, Idle, Working, Turning, Saving
  <2> QED BY <1>1, <2>1, <2>2, QuietCounts DEF Saving
<1>3. ASSUME NEW n \in 1 .. MaxAttempts, Prompt(p, n)
      PROVE  CountInv'
  <2>1. /\ pc[p] = "idle" /\ cwd' = cwd /\ Overlaps(p)
        /\ pc'[p] \in {"evaluate", "resume", "start"}
        /\ Git(p) => pc'[p] = "evaluate"
        /\ UNCHANGED <<row, ran, lost, home>>
    BY <1>3 DEF Prompt, At, Goto, Inv, TypeOK
  <2>2. SameCount /\ Admitted(p) /\ ~ Working(p) /\ ~ (Working(p)')
    BY <2>1, OverlapAdmits DEF SameCount, Git, Idle, Working, Turning, Saving
  <2> QED BY <1>1, <2>1, <2>2, QuietCounts DEF Saving, Git
<1>4. CASE Evaluate(p)
  <2>1. /\ pc[p] = "evaluate" /\ cwd' = cwd
        /\ IF Reusable THEN pc'[p] = "resume" /\ thread'[p] = row.thread ELSE pc'[p] = "start"
        /\ UNCHANGED <<row, ran, lost, home, overlap>>
    BY <1>4 DEF Evaluate, At, Goto, history, Inv, TypeOK
  <2>2. pc'[p] = "resume" => Names(thread[p])'
    BY <2>1 DEF Reusable, Names
  <2>3. SameCount /\ Admitted(p) /\ ~ Working(p) /\ ~ (Working(p)')
    BY <2>1 DEF SameCount, Admitted, Busy, Git, Idle, Working, Turning, Saving
  <2> QED BY <1>1, <2>1, <2>2, <2>3, QuietCounts DEF Saving
<1>5. CASE ResumeFails(p)
  <2>1. /\ pc[p] = "resume" /\ pc'[p] = "start" /\ cwd' = cwd
        /\ row' = IF Git(p) THEN NoRow ELSE row
        /\ UNCHANGED <<ran, lost, home, overlap>>
    BY <1>5 DEF ResumeFails, At, Goto, locals, Inv, TypeOK
  <2>2. Admitted(p) /\ ~ Working(p) /\ ~ (Working(p)')
    BY <2>1 DEF Admitted, Busy, Git, Idle, Working, Turning, Saving
  <2>3. CASE Git(p)
    <3>1. ~ overlap' => Alone(p)
      BY <2>1, <2>3, WorkersAreBusy DEF CountInv, CountsRight, OneWorker, Alone
    <3> QED BY <1>1, <2>1, <2>2, <2>3, <3>1, ClearCounts
  <2>4. CASE ~ Git(p)
    BY <1>1, <2>1, <2>2, <2>4, QuietCounts, SameCountWhenKept DEF Saving
  <2> QED BY <2>3, <2>4
<1> QED BY <1>2, <1>3, <1>4, <1>5, ResumesCounts, StartsCounts DEF Acquire

LEMMA TurnCounts ==
  ASSUME Inv, CountInv, NEW p \in Procs,
         \/ RunTurns(p)
         \/ \E how \in {"interrupt", "timeout", "error"} : Raises(p, how)
  PROVE  CountInv'
<1>1. OthersStay(p)
  BY TurnOthers
<1>2. CASE RunTurns(p)
  <2>1. /\ UNCHANGED <<row, home, cwd, thread, lost, overlap>>
        /\ pc[p] \in Turning /\ pc'[p] \in Turning \cup {"save"}
        /\ used' = [used EXCEPT ![p] = @ + 1] /\ ran' = [ran EXCEPT ![thread[p]] = @ + 1]
    BY <1>2 DEF RunTurns, Escalates, Settles, Verified, Returned, At, Goto, Turning, Inv, TypeOK
  <2>2. used'[p] = used[p] + 1
    BY <2>1 DEF Inv, TypeOK
  <2> QED BY <1>1, <2>1, <2>2, ReturnCounts
<1>3. ASSUME NEW how \in {"interrupt", "timeout", "error"}, Raises(p, how)
      PROVE  CountInv'
  <2>1. /\ pc'[p] \in Idle /\ Unsaved(p) /\ UNCHANGED <<row, ran, home, overlap>>
    BY <1>3 DEF Raises, Goto, Inv, TypeOK, Idle
  <2> QED BY <1>1, <2>1, DropCounts
<1> QED BY <1>2, <1>3

(* The three writes of a prompt in the repository: the row is cleared of
   another thread, counts one more turn, and then all of them. *)
LEMMA WriteCounts ==
  ASSUME Inv, CountInv, NEW p \in Procs, SaveReads(p) \/ Upserts(p) \/ Counts(p)
  PROVE  CountInv'
<1>1. OthersStay(p)
  BY SaveOthers DEF Save
<1>2. /\ Git(p) /\ pc[p] \in Saving /\ cwd' = cwd
      /\ pc'[p] \in {"upsert", "count", "idle"}
      /\ UNCHANGED <<home, ran, lost, overlap>>
  <2>1. CASE SaveReads(p)
    BY <2>1 DEF SaveReads, At, Goto, Saving, Inv, TypeOK
  <2>2. CASE Upserts(p)
    BY <2>2 DEF Upserts, At, Goto, locals, Saving, Inv, TypeOK, Placed
  <2>3. CASE Counts(p)
    BY <2>3 DEF Counts, At, Goto, history, Saving, Inv, TypeOK, Placed
  <2> QED BY <2>1, <2>2, <2>3
<1>3. used[p] >= 1 /\ used[p] \in Nat /\ base[p] \in Nat /\ thread[p] \in Threads
  BY <1>2, CountTypes DEF CountInv, SavesTurns, Inv, Placed, Holding
<1>4. NoTurnUnstarted'
  BY <1>2 DEF CountInv, NoTurnUnstarted
<1>5. SavesTurns'
  <2>1. Counts(p) => pc'[p] = "idle"
    BY DEF Counts, Goto, Inv, TypeOK
  <2>2. pc'[p] \in Saving => used'[p] = used[p]
    BY <2>1 DEF SaveReads, Upserts, locals, Saving
  <2> QED BY <1>1, <1>3, <2>2 DEF OthersStay, CountInv, SavesTurns
<1>6. Admitted(p)
  BY <1>2, WorkersAreBusy DEF Admitted
<1>7. ASSUME ~ overlap'
      PROVE  CountsRight'
  <2>1. CountsRight
    BY <1>2, <1>7 DEF CountInv
  <2>2. Alone(p)
    BY <1>2, <2>1, WorkersAreBusy DEF Alone, CountsRight, OneWorker
  <2>3. PromptCounts(p)' /\ RowCounts'
    <3>1. CASE SaveReads(p)
      <4>1. /\ pc[p] = "save" /\ pc'[p] = "upsert" /\ UNCHANGED <<thread, used>>
            /\ base'[p] = BaseTurns(p)
            /\ row' = IF row # NoRow /\ ~ Names(thread[p]) THEN NoRow ELSE row
        BY <3>1 DEF SaveReads, At, Goto, Inv, TypeOK
      <4>2. row' = NoRow \/ (row' = row /\ Names(thread[p]))
        BY <4>1
      <4>3. BaseTurns(p)' = BaseTurns(p)
        BY <4>1 DEF BaseTurns, Names
      <4>4. CountOf(thread[p], BaseTurns(p) + used[p])
        BY <1>2, <2>1, <4>1 DEF CountsRight, PromptCounts
      <4>5. CountOf(thread[p], base[p] + used[p])'
        BY <1>2, <4>1, <4>4 DEF CountOf
      <4>6. PromptCounts(p)'
        BY <4>1, <4>2, <4>3, <4>5 DEF PromptCounts, Names, Turning
      <4>7. RowCounts'
        <5>1. CASE row' = NoRow
          BY <5>1 DEF RowCounts
        <5>2. CASE row' = row /\ Names(thread[p])
          <6>1. (Working(p) /\ Names(thread[p]))'
            BY <1>2, <4>1, <5>2 DEF Working, Names, Git, Saving
          <6> QED BY <1>2, <2>1, <5>2, <6>1 DEF CountsRight, RowCounts, Names
        <5> QED BY <4>2, <5>1, <5>2
      <4> QED BY <4>6, <4>7
    <3>2. CASE Upserts(p)
      <4>1. /\ pc[p] = "upsert" /\ pc'[p] = "count" /\ UNCHANGED <<thread, used, base>>
            /\ row' = RowOf(thread[p], IF row = NoRow THEN 1 ELSE row.turns + 1)
        BY <3>2 DEF Upserts, At, Goto, locals, Inv, TypeOK
      <4>2. row = NoRow \/ Names(thread[p])
        BY <1>2, <2>1, <4>1 DEF CountsRight, PromptCounts
      <4>3. base[p] = IF row = NoRow THEN 0 ELSE row.turns
        BY <1>2, <2>1, <4>1, <4>2 DEF CountsRight, PromptCounts, BaseTurns, Names
      <4>4. row' = RowOf(thread[p], base[p] + 1)
        BY <4>1, <4>3
      <4>5. row' # NoRow /\ row'.thread = thread[p] /\ row'.turns = base[p] + 1
        <5>1. base[p] + 1 \in Nat
          BY <1>3
        <5> QED BY <1>3, <4>4, <5>1, RowFields
      <4>6. CountOf(thread[p], base[p] + used[p])
        BY <1>2, <2>1, <4>1 DEF CountsRight, PromptCounts
      <4>7. PromptCounts(p)'
        BY <1>2, <4>1, <4>5, <4>6 DEF PromptCounts, CountOf, Names, Turning
      <4>8. ran[thread[p]] \in Nat
        BY <1>3 DEF Inv, TypeOK
      <4>9. base[p] + 1 <= ran[thread[p]]
        BY <1>3, <4>6, <4>8 DEF CountOf
      <4>10. (Working(p) /\ Names(thread[p]))'
        BY <1>2, <4>1, <4>5 DEF Working, Names, Git, Saving
      <4> QED BY <1>2, <4>5, <4>7, <4>9, <4>10 DEF RowCounts
    <3>3. CASE Counts(p)
      <4>1. /\ pc[p] = "count" /\ pc'[p] = "idle"
            /\ row # NoRow => row' = [row EXCEPT !.turns = base[p] + used[p]]
        BY <3>3 DEF Counts, At, Goto, Inv, TypeOK
      <4>2. Names(thread[p]) /\ CountOf(thread[p], base[p] + used[p])
        BY <1>2, <2>1, <4>1 DEF CountsRight, PromptCounts
      <4>3. row'.thread = thread[p] /\ row'.turns = base[p] + used[p]
        BY <4>1, <4>2, CountTypes DEF Rows, Names
      <4>4. PromptCounts(p)'
        BY <4>1, IdleCounted DEF Busy, Idle
      <4> QED BY <1>2, <4>2, <4>3, <4>4 DEF RowCounts, CountOf
    <3> QED BY <3>1, <3>2, <3>3
  <2>4. \A q \in Procs : PromptCounts(q)'
    BY <1>1, <2>1, <2>2, <2>3, OtherCounted DEF CountsRight, Alone
  <2> QED BY <1>1, <1>6, <1>7, <2>3, <2>4, OneWorkerStays DEF CountsRight
<1> QED BY <1>4, <1>5, <1>7 DEF CountInv

LEMMA SaveCounts ==
  ASSUME Inv, CountInv, NEW p \in Procs, Save(p)
  PROVE  CountInv'
<1>1. OthersStay(p)
  BY SaveOthers
<1>2. CASE Remember(p)
  <2>1. /\ ~ Git(p) /\ cwd' = cwd /\ pc'[p] = "idle"
        /\ UNCHANGED <<row, ran, lost, home, overlap>>
    BY <1>2 DEF Remember, Goto, Inv, TypeOK
  <2> QED BY <1>1, <2>1, QuietCounts, SameCountWhenKept DEF Admitted, Busy, Idle, Working, Git, Saving
<1>3. CASE SaveFails(p)
  <2>1. /\ pc'[p] \in Idle /\ Unsaved(p) /\ UNCHANGED <<row, ran, home, overlap>>
    BY <1>3 DEF SaveFails, Goto, Inv, TypeOK, Idle
  <2> QED BY <1>1, <2>1, DropCounts
<1> QED BY <1>2, <1>3, WriteCounts DEF Save

LEMMA CommandCounts ==
  ASSUME Inv, ChoiceInv, CountInv, NEW p \in Procs, Command(p)
  PROVE  CountInv'
<1>1. OthersStay(p)
  BY CommandOthers
<1>2. CASE NewSession(p)
  <2>1. /\ pc[p] = "idle" /\ pc' = pc /\ cwd' = cwd /\ Overlaps(p)
        /\ row' = IF Git(p) THEN NoRow ELSE row
        /\ UNCHANGED <<ran, lost, home>>
    BY <1>2 DEF NewSession, At
  <2>2. Admitted(p) /\ (~ overlap' => ~ overlap /\ (Git(p) => Alone(p)))
    BY <2>1, OverlapAdmits DEF Git
  <2>3. CASE Git(p)
    BY <1>1, <2>1, <2>2, <2>3, ClearCounts
  <2>4. CASE ~ Git(p)
    BY <1>1, <2>1, <2>2, <2>4, QuietCounts, SameCountWhenKept DEF Working, Git, Saving
  <2> QED BY <2>3, <2>4
<1>3. CASE Unbinds(p)
  <2>1. /\ pc[p] = "unbind" /\ pc'[p] = "idle" /\ row' = NoRow
        /\ UNCHANGED <<cwd, ran, lost, home, overlap>>
    BY <1>3 DEF Unbinds, At, Goto, locals, Inv, TypeOK
  <2>2. Admitted(p)
    BY <2>1 DEF Admitted, Busy, Idle
  <2>3. Git(p)
    BY <2>1 DEF ChoiceInv, Follows
  <2>4. ~ overlap' => Alone(p)
    BY <2>1, <2>3 DEF CountInv, CountsRight, OneWorker, Alone, Busy, Idle
  <2> QED BY <1>1, <2>1, <2>2, <2>4, ClearCounts
<1>4. ASSUME NEW t \in Threads, Binds(p, t)
      PROVE  CountInv'
  <2>1. /\ pc[p] = "idle" /\ Git(p) /\ Overlaps(p) /\ row' = RowOf(t, 0) /\ lost' = lost \cup {t}
        /\ UNCHANGED <<pc, cwd, home, ran>>
    BY <1>4 DEF Binds, At
  <2>2. Admitted(p) /\ (~ overlap' => ~ overlap /\ Alone(p))
    BY <2>1, OverlapAdmits DEF Git
  <2>3. row'.thread = t /\ row'.turns = 0
    BY <2>1, RowFields
  <2>4. NoTurnUnstarted' /\ SavesTurns'
    BY <1>1, <2>1 DEF OthersStay, CountInv, NoTurnUnstarted, SavesTurns, Saving
  <2>5. ASSUME ~ overlap'
        PROVE  CountsRight'
    <3>1. CountsRight
      BY <2>2, <2>5 DEF CountInv
    <3>2. PromptCounts(p)'
      BY <2>1, IdleCounted DEF Busy, Idle
    <3>3. \A q \in Procs : PromptCounts(q)'
      BY <1>1, <2>2, <2>5, <3>1, <3>2, OtherCounted DEF CountsRight, Alone
    <3>4. RowCounts'
      <4>1. ran[t] \in Nat
        BY DEF Inv, TypeOK
      <4> QED BY <2>1, <2>3, <4>1 DEF RowCounts, CountOf
    <3> QED BY <1>1, <2>2, <2>5, <3>3, <3>4, OneWorkerStays DEF CountsRight
  <2> QED BY <2>4, <2>5 DEF CountInv
<1>5. ASSUME NEW t \in Threads, NEW g \in BOOLEAN, Removes(p, t, g)
      PROVE  CountInv'
  <2>1. /\ pc[p] = "idle" /\ pc'[p] \in {"idle", "unbind"} /\ cwd' = cwd /\ Overlaps(p)
        /\ UNCHANGED <<row, ran, lost, home>>
    BY <1>5 DEF Removes, At, locals, Inv, TypeOK
  <2>2. Admitted(p)
    BY <2>1, OverlapAdmits DEF Git
  <2> QED BY <1>1, <2>1, <2>2, QuietCounts, SameCountWhenKept DEF Working, Turning, Saving
<1> QED BY <1>2, <1>3, <1>4, <1>5 DEF Command

(* While processes take turns the row counts the turns of its thread, all of
   them if every prompt of it was saved (src/cx.py save_session,
   save_repo_session). *)
THEOREM TurnsCounted == Spec => []TurnsAccurate
<1>1. Init => CountInv
  <2> SUFFICES ASSUME Init PROVE CountInv
    OBVIOUS
  <2>1. NoTurnUnstarted /\ SavesTurns
    BY DEF Init, NoTurnUnstarted, SavesTurns, Saving
  <2>2. CountsRight
    BY DEF Init, CountsRight, OneWorker, RowCounts, PromptCounts, Busy, Idle, Turning
  <2> QED BY <2>1, <2>2 DEF CountInv
<1>2. Inv /\ ChoiceInv /\ CountInv /\ [Next]_vars => CountInv'
  <2> SUFFICES ASSUME Inv, ChoiceInv, CountInv, [Next]_vars PROVE CountInv'
    OBVIOUS
  <2>1. CASE UNCHANGED vars
    BY <2>1 DEF vars, locals, history, CountInv, NoTurnUnstarted, SavesTurns, CountsRight,
                OneWorker, RowCounts, PromptCounts, Working, CountOf, Busy, Git, Names, BaseTurns
  <2>2. CASE Next
    BY <2>2, WorldCounts, TimeCounts, AcquireCounts, TurnCounts, SaveCounts, CommandCounts
    DEF Next
  <2> QED BY <2>1, <2>2
<1>3. CountInv => TurnsAccurate
  <2> SUFFICES ASSUME CountsRight, row # NoRow
               PROVE  /\ row.turns <= ran[row.thread]
                      /\ (\A p \in Procs : ~ Busy(p)) /\ row.thread \notin lost =>
                           row.turns = ran[row.thread]
    BY DEF CountInv, TurnsAccurate
  <2>1. \A p \in Procs : Working(p) => Busy(p)
    BY DEF Working, Busy, Idle, Turning, Saving
  <2> QED BY <2>1 DEF CountsRight, RowCounts, CountOf
<1> QED BY <1>1, <1>2, <1>3, Invariance, ChoicesHold, PTL DEF Spec

-------------------------------------------------------------------------------
(***************************************************************************)
(* The other way to a binding: what a number of the history commands       *)
(* stands for, and what they bind the repository to, for any threads, any  *)
(* length of a listing and any number of changes. Module Selection shares  *)
(* the threads with module Session and has a state of its own.             *)
(***************************************************************************)

(* Types: as far as the proofs below ask for them.                         *)

ThreadPlaces == {"active", "archived", "deleted"}

(* What a number, a confirmed /delete or an unbinding is about is a thread. *)
NumbersAreThreads == \A n \in DOMAIN ctx : ctx[n] \in Threads

NumbersTyped ==
  /\ status \in [Threads -> ThreadPlaces]
  /\ at \in {"idle", "listing", "confirming", "unbinding"}
  /\ NumbersAreThreads
  /\ target \in Threads \cup {NoThread}
  /\ at \in {"confirming", "unbinding"} => target \in Threads
  /\ bound \in Threads \cup {NoThread}

LEMMA InitNumbersTyped == HistoryInit => NumbersTyped
  BY DEF HistoryInit, NumbersTyped, NumbersAreThreads, ThreadPlaces

(* What a reference stands for is a thread.                                *)
LEMMA ResolvedThread ==
  ASSUME NumbersTyped, NEW ref, Resolves(ref)
  PROVE  Resolved(ref) \in Threads
  BY DEF NumbersTyped, NumbersAreThreads, Resolves, Resolved

(* What /archive and /delete do after the server's answer, or without it.  *)
LEMMA AnswerMoves ==
  ASSUME NEW t \in Threads, UnbindIfSelected(t) \/ GiveUp
  PROVE  /\ at' \in {"idle", "unbinding"} /\ target' \in {t, NoThread}
         /\ at' = "unbinding" => target' = t /\ bound = t
         /\ ctx' \in {ctx, <<>>}
  BY DEF UnbindIfSelected, GiveUp, Forget

(* Rows that are all threads give numbers that all stand for threads.      *)
LEMMA ShowTypes ==
  ASSUME NumbersTyped, NEW rows, NEW more, Show(rows, more),
         UNCHANGED <<status, binding, target>>
  PROVE  NumbersTyped'
<1>1. NumbersAreThreads'
  <2>1. CASE ToSet(rows) \subseteq Threads
    <3>1. ctx' = rows
      BY <2>1 DEF Show, Numbers
    <3>2. \A n \in DOMAIN rows : rows[n] \in ToSet(rows)
      BY DEF ToSet
    <3> QED
      BY <2>1, <3>1, <3>2 DEF NumbersAreThreads
  <2>2. CASE ~(ToSet(rows) \subseteq Threads)
    BY <2>2 DEF Show, NumbersTyped, NumbersAreThreads
  <2> QED
    BY <2>1, <2>2
<1> QED
  BY <1>1 DEF NumbersTyped, Show, binding

LEMMA ListingTypes ==
  ASSUME NumbersTyped, Listing
  PROVE  NumbersTyped'
<1>1. ASSUME NEW r \in Requests, StartListing(r)
      PROVE  NumbersTyped'
  BY <1>1 DEF StartListing, NumbersTyped, NumbersAreThreads, appServer, binding
<1>2. ASSUME NEW n \in -1..(Len(order)), ReadPage(n)
      PROVE  NumbersTyped'
  <2>1. UNCHANGED <<status, binding, target>>
    BY <1>2 DEF ReadPage, appServer
  <2>2. \/ \E rows, more : Show(rows, more)
        \/ UNCHANGED <<at, ctx>>
    BY <1>2 DEF ReadPage
  <2>3. CASE \E rows, more : Show(rows, more)
    BY <2>1, <2>3, ShowTypes
  <2>4. CASE UNCHANGED <<at, ctx>>
    BY <2>1, <2>4 DEF NumbersTyped, NumbersAreThreads, binding
  <2> QED
    BY <2>2, <2>3, <2>4
<1>3. CASE PageFails
  BY <1>3 DEF PageFails, NumbersTyped, NumbersAreThreads, appServer, binding
<1> QED
  BY <1>1, <1>2, <1>3 DEF Listing

(* A command leaves numbers as they are or gives them up.                  *)
LEMMA ForgetNumbers ==
  ASSUME Forget \/ UNCHANGED <<ctx, screen>>
  PROVE  ctx' \in {ctx, <<>>}
  BY DEF Forget

LEMMA CommandTypes ==
  ASSUME NumbersTyped, Commands
  PROVE  NumbersTyped'
<1>1. ASSUME NEW ref \in References, Resume(ref) \/ AskDelete(ref)
      PROVE  NumbersTyped'
  <2>1. Resolves(ref)
    BY <1>1 DEF Resume, AskDelete, CommandOn
  <2>2. Resolved(ref) \in Threads
    BY <2>1, ResolvedThread
  <2> QED
    BY <1>1, <2>2
       DEF Resume, AskDelete, CommandOn, Bind, NumbersTyped, NumbersAreThreads, binding
<1>2. ASSUME NEW ref \in References, NEW b \in BOOLEAN, Rename(ref, b)
      PROVE  NumbersTyped'
  BY <1>2 DEF Rename, CommandOn, NumbersTyped, NumbersAreThreads, binding
<1>3. ASSUME NEW ref \in References, NEW b \in BOOLEAN, Archive(ref, b)
      PROVE  NumbersTyped'
  <2>1. Resolved(ref) \in Threads
    BY <1>3, ResolvedThread DEF Archive, CommandOn
  <2>2. bound' = bound /\ (UnbindIfSelected(Resolved(ref)) \/ GiveUp)
    BY <1>3 DEF Archive, binding
  <2>3. status' \in [Threads -> ThreadPlaces]
    BY <1>3 DEF Archive, NumbersTyped, ThreadPlaces
  <2> QED
    BY <2>1, <2>2, <2>3, AnswerMoves DEF NumbersTyped, NumbersAreThreads
<1>4. ASSUME NEW ref \in References, NEW b \in BOOLEAN, Unarchive(ref, b)
      PROVE  NumbersTyped'
  <2>1. UNCHANGED <<at, target, bound>> /\ ctx' \in {ctx, <<>>}
    BY <1>4, ForgetNumbers DEF Unarchive, CommandOn, binding
  <2>2. status' \in [Threads -> ThreadPlaces]
    BY <1>4 DEF Unarchive, NumbersTyped, ThreadPlaces
  <2> QED
    BY <2>1, <2>2 DEF NumbersTyped, NumbersAreThreads
<1>5. ASSUME NEW b \in BOOLEAN, Delete(b)
      PROVE  NumbersTyped'
  <2>1. target \in Threads
    BY <1>5 DEF Delete, NumbersTyped
  <2>2. bound' = bound /\ (UnbindIfSelected(target) \/ GiveUp)
    BY <1>5 DEF Delete, binding
  <2>3. status' \in [Threads -> ThreadPlaces]
    BY <1>5 DEF Delete, NumbersTyped, ThreadPlaces
  <2> QED
    BY <2>1, <2>2, <2>3, AnswerMoves DEF NumbersTyped, NumbersAreThreads
<1>6. CASE DeleteFails \/ Unbind \/ UnbindFails
  BY <1>6
     DEF DeleteFails, Unbind, UnbindFails, GiveUp, Forget, NumbersTyped, NumbersAreThreads,
         appServer, binding
<1> QED
  BY <1>1, <1>2, <1>3, <1>4, <1>5, <1>6 DEF Commands

LEMMA ElsewhereTypes ==
  ASSUME NumbersTyped, Elsewhere
  PROVE  NumbersTyped'
<1>1. UNCHANGED <<at, ctx, target>> /\ (bound' = bound \/ bound' \in Here)
  BY DEF Elsewhere, OtherUses, OtherEnds, OtherMigrates, Others, OtherBinds, binding
<1>2. status' \in [Threads -> ThreadPlaces]
  BY DEF Elsewhere, OtherUses, OtherEnds, OtherMigrates, OtherBinds, NumbersTyped, ThreadPlaces
<1> QED
  BY <1>1, <1>2, ThreadAssumption DEF NumbersTyped, NumbersAreThreads

LEMMA NumbersTypedStep ==
  ASSUME NumbersTyped, [HistoryNext]_historyVars
  PROVE  NumbersTyped'
<1>1. CASE HistoryNext
  BY <1>1, ListingTypes, CommandTypes, ElsewhereTypes DEF HistoryNext
<1>2. CASE UNCHANGED historyVars
  BY <1>2 DEF historyVars, appServer, binding, NumbersTyped, NumbersAreThreads
<1> QED
  BY <1>1, <1>2

(* The numbers stand for threads, and a /delete is confirmed for a thread, *)
(* whatever entries the server lists. (selection_context.py: set_entries;  *)
(* history_cli.py: _print_threads.)                                        *)
THEOREM NumbersTypeCorrect == HistorySpec => []NumbersTyped
<1>1. NumbersTyped /\ [HistoryNext]_historyVars => NumbersTyped'
  BY NumbersTypedStep
<1> QED
  BY InitNumbersTyped, <1>1, PTL DEF HistorySpec

-------------------------------------------------------------------------------
(* Numbers.                                                                *)

(* The numbers are the rows on the screen, or there are none: what the     *)
(* last listing showed stays numbered until it is forgotten as a whole.    *)
RowsNumbered == ctx = <<>> \/ (ctx = screen.rows /\ ~screen.stale)

LEMMA ForgetKeepsRows ==
  ASSUME RowsNumbered, Forget \/ UNCHANGED <<ctx, screen>>
  PROVE  RowsNumbered'
  BY DEF RowsNumbered, Forget

LEMMA ShowNumbersRows ==
  ASSUME RowsNumbered, NEW rows, NEW more, Show(rows, more)
  PROVE  RowsNumbered'
<1>1. CASE ToSet(rows) \subseteq Threads
  <2>1. ctx' = rows /\ screen'.rows = rows /\ ~screen'.stale
    BY <1>1 DEF Show, Numbers
  <2> QED
    BY <2>1 DEF RowsNumbered
<1>2. CASE ~(ToSet(rows) \subseteq Threads)
  BY <1>2 DEF Show, RowsNumbered
<1> QED
  BY <1>1, <1>2

LEMMA NextNumbersRows ==
  ASSUME RowsNumbered, [HistoryNext]_historyVars
  PROVE  RowsNumbered'
<1>1. CASE Listing
  <2>1. \/ \E rows, more : Show(rows, more)
        \/ UNCHANGED <<ctx, screen>>
    BY <1>1 DEF Listing, StartListing, ReadPage, PageFails
  <2> QED
    BY <2>1, ShowNumbersRows, ForgetKeepsRows
<1>2. CASE Commands
  <2>1. Forget \/ UNCHANGED <<ctx, screen>>
    BY <1>2
       DEF Commands, Resume, AskDelete, Rename, Archive, Unarchive, Delete,
           DeleteFails, Unbind, UnbindFails, UnbindIfSelected, GiveUp
  <2> QED
    BY <2>1, ForgetKeepsRows
<1>3. CASE Elsewhere
  <2>1. UNCHANGED <<ctx, screen>>
    BY <1>3 DEF Elsewhere, OtherUses, OtherEnds, OtherMigrates, Others, OtherBinds
  <2> QED
    BY <2>1, ForgetKeepsRows
<1>4. CASE UNCHANGED historyVars
  BY <1>4 DEF historyVars, RowsNumbered
<1> QED
  BY <1>1, <1>2, <1>3, <1>4 DEF HistoryNext

LEMMA NumberedRowsMean ==
  ASSUME RowsNumbered
  PROVE  NumbersMeanRows
<1> SUFFICES ASSUME NEW n \in 1..Limit, Resolves(n)
             PROVE  n \in DOMAIN screen.rows /\ Resolved(n) = screen.rows[n] /\ ~screen.stale
  BY DEF NumbersMeanRows
<1>1. n \notin Threads
  BY LimitAssumption, ThreadAssumption
<1>2. n \in DOMAIN ctx /\ Resolved(n) = ctx[n]
  BY <1>1 DEF Resolves, Resolved
<1>3. ctx # <<>>
  <2>1. DOMAIN <<>> = {}
    OBVIOUS
  <2> QED
    BY <1>2, <2>1
<1> QED
  BY <1>2, <1>3 DEF RowsNumbered

(* A number stands for the row the user sees, or for nothing.              *)
(* (selection_context.py: SelectionContext; history_cli.py: _print_threads.) *)
THEOREM NumbersAreRows == HistorySpec => []NumbersMeanRows
<1>1. HistoryInit => RowsNumbered
  BY DEF HistoryInit, RowsNumbered
<1>2. RowsNumbered /\ [HistoryNext]_historyVars => RowsNumbered'
  BY NextNumbersRows
<1>3. RowsNumbered => NumbersMeanRows
  BY NumberedRowsMean
<1> QED
  BY <1>1, <1>2, <1>3, PTL DEF HistorySpec

-------------------------------------------------------------------------------
(* The binding.                                                            *)

(* A row that is about to be cleared named the thread that was archived or *)
(* deleted when it was read, and it does still unless somebody else has    *)
(* bound the repository since. Nobody brings a thread back meanwhile.      *)
RowWasRead ==
  at = "unbinding" => status[target] # "active" /\ (bound = target \/ rebound)

LEMMA AnswerReads ==
  ASSUME NEW t \in Threads, NEW to \in {"archived", "deleted"},
         NumbersTyped, status' = [status EXCEPT ![t] = to], UNCHANGED binding,
         UnbindIfSelected(t) \/ GiveUp
  PROVE  RowWasRead'
<1>1. at' = "unbinding" => target' = t /\ bound = t
  BY AnswerMoves
<1>2. status'[t] = to
  BY DEF NumbersTyped
<1> QED
  BY <1>1, <1>2 DEF RowWasRead, binding

LEMMA CommandReads ==
  ASSUME NumbersTyped, Commands
  PROVE  RowWasRead'
<1>1. ASSUME NEW ref \in References, NEW b \in BOOLEAN, Archive(ref, b)
      PROVE  RowWasRead'
  <2>1. Resolved(ref) \in Threads
    BY <1>1, ResolvedThread DEF Archive, CommandOn
  <2> QED
    BY <1>1, <2>1, AnswerReads DEF Archive
<1>2. ASSUME NEW b \in BOOLEAN, Delete(b)
      PROVE  RowWasRead'
  BY <1>2, AnswerReads DEF Delete, NumbersTyped
<1>3. CASE /\ ~\E ref \in References, b \in BOOLEAN : Archive(ref, b)
           /\ ~\E b \in BOOLEAN : Delete(b)
  <2>1. at' # "unbinding"
    BY <1>3 DEF Commands, Resume, AskDelete, Rename, Unarchive, CommandOn, DeleteFails, Unbind,
                UnbindFails, GiveUp
  <2> QED
    BY <2>1 DEF RowWasRead
<1> QED
  BY <1>1, <1>2, <1>3

LEMMA ElsewhereReads ==
  ASSUME NumbersTyped, RowWasRead, Elsewhere
  PROVE  RowWasRead'
<1>1. CASE \E t \in Here : OtherBinds(t)
  BY <1>1 DEF OtherBinds, RowWasRead
<1>2. CASE ~\E t \in Here : OtherBinds(t)
  <2>1. UNCHANGED <<at, target, bound, rebound>>
    BY <1>2 DEF Elsewhere, OtherUses, OtherEnds, OtherMigrates, Others, binding
  <2>2. \A t \in Threads : status[t] # "active" => status'[t] # "active"
    BY <1>2 DEF Elsewhere, OtherUses, OtherEnds, OtherMigrates, NumbersTyped
  <2> QED
    BY <2>1, <2>2 DEF RowWasRead, NumbersTyped
<1> QED
  BY <1>1, <1>2

LEMMA RowReadStep ==
  ASSUME NumbersTyped, RowWasRead, [HistoryNext]_historyVars
  PROVE  RowWasRead'
<1>1. CASE Listing
  <2>1. at' # "unbinding"
    BY <1>1 DEF Listing, StartListing, ReadPage, Show, PageFails
  <2> QED
    BY <2>1 DEF RowWasRead
<1>2. CASE UNCHANGED historyVars
  BY <1>2 DEF historyVars, appServer, binding, RowWasRead
<1> QED
  BY <1>1, <1>2, CommandReads, ElsewhereReads DEF HistoryNext

LEMMA StepBinds ==
  ASSUME NumbersTyped, RowWasRead, HistoryNext, bound' # bound
  PROVE  \/ bound' \in Here
         \/ /\ bound' = NoThread /\ status[target] # "active"
            /\ bound = target \/ rebound
<1>1. \/ \E ref \in References : Resume(ref)
      \/ \E t \in Here : OtherBinds(t)
      \/ Unbind
  BY DEF HistoryNext, Listing, StartListing, ReadPage, PageFails, Commands, AskDelete, Rename,
         Archive, Unarchive, Delete, DeleteFails, UnbindFails, Elsewhere, OtherUses,
         OtherEnds, OtherMigrates, Others, binding
<1> QED
  BY <1>1 DEF Resume, Bind, OtherBinds, Unbind, RowWasRead

(* The repository is bound to a thread of its own, and loses its binding   *)
(* only to an /archive or /delete of the thread that its row named when it *)
(* was read. (history_cli.py: /resume, _unbind_if_selected.)               *)
THEOREM BindingIsOwn == HistorySpec => BindingFollows
<1>1. HistoryInit => RowWasRead
  BY DEF HistoryInit, RowWasRead
<1>2. NumbersTyped /\ RowWasRead /\ [HistoryNext]_historyVars => RowWasRead'
  BY RowReadStep
<1>3. NumbersTyped /\ RowWasRead /\ [HistoryNext]_historyVars =>
        [bound' # bound =>
           \/ bound' \in Here
           \/ /\ bound' = NoThread /\ status[target] # "active"
              /\ bound = target \/ rebound]_historyVars
  BY StepBinds
<1> QED
  BY <1>1, <1>2, <1>3, NumbersTypeCorrect, PTL DEF HistorySpec, BindingFollows

-------------------------------------------------------------------------------
(* Listings. While nobody changes anything, the rows taken so far are what *)
(* is shown of the entries read so far.                                    *)
ListTyped ==
  /\ order \in Seq(Entries)
  /\ list \in [req : Requests \cup {NoList.req}, rows : Seq(Entries), cursor : Nat,
               seen : SUBSET Nat, rounds : Nat]

ReadSoFar ==
  at = "listing" /\ ~moved =>
    LET entries == Listed(list.req)
    IN  /\ list.cursor <= Len(entries)
        /\ list.rows = Visible(list.req, SubSeq(entries, 1, list.cursor))

ListingInv == ListTyped /\ ReadSoFar

LEMMA SmallerOfTwo ==
  ASSUME NEW a \in Int, NEW b \in Int
  PROVE  Min({a, b}) = IF a <= b THEN a ELSE b
<1> DEFINE m == IF a <= b THEN a ELSE b
<1>1. m \in {a, b} /\ \A y \in {a, b} : m <= y
  OBVIOUS
<1>2. \A x \in {a, b} : (\A y \in {a, b} : x <= y) => x = m
  OBVIOUS
<1> QED BY <1>1, <1>2 DEF Min

LEMMA KeptIn ==
  ASSUME NEW T, NEW s \in Seq(T), NEW S
  PROVE  Keep(s, S) \in Seq(T)
<1>1. Keep(s, S) \in Seq(T \cap S)
  BY KeepType
<1>2. T \cap S \subseteq T
  OBVIOUS
<1> HIDE DEF Keep
<1> QED BY <1>1, <1>2, SeqMonotonic

(* A server lists finitely many threads, in some order.                    *)
LEMMA InitOrder == HistoryInit => order \in Seq(Entries)
<1>1. PICK n \in Nat : n = Cardinality(Threads) /\ ExistsBijection(1 .. n, Threads)
  BY ThreadAssumption, FS_CardinalityType
<1>2. \E f \in [1 .. n -> Threads] : IsInjective(f)
  BY <1>1 DEF ExistsBijection, Bijection, Injection
<1>3. SetToSeq(Threads) \in [1 .. n -> Threads]
  BY <1>1, <1>2 DEF SetToSeq
<1> DEFINE s == SetToSeq(Threads)
<1>4. s \in Seq(Entries)
  <2> HIDE DEF s
  <2> QED BY <1>3 DEF s, Entries
<1>5. <<Bad>> \in Seq(Entries)
  BY DEF Entries
<1> HIDE DEF s
<1>6. s \o <<Bad>> \in Seq(Entries)
  BY <1>4, <1>5, ConcatProperties
<1> QED BY <1>4, <1>6 DEF HistoryInit, s

(* A list read up to d: what was read up to c and the page from there; the *)
(* rest of the list is shown behind it.                                    *)
LEMMA PageExtends ==
  \A T, S : \A e \in Seq(T), c, d \in Nat : c <= d /\ d <= Len(e) =>
    /\ Keep(SubSeq(e, 1, c), S) \o Keep(SubSeq(e, c + 1, d), S) = Keep(SubSeq(e, 1, d), S)
    /\ Keep(SubSeq(e, 1, d), S) \in Seq(T)
    /\ \E rest \in Seq(T) : Keep(e, S) = Keep(SubSeq(e, 1, d), S) \o rest
    /\ d = Len(e) => Keep(e, S) = Keep(SubSeq(e, 1, d), S)
<1> TAKE T, S
<1> TAKE e \in Seq(T), c, d \in Nat
<1> HAVE c <= d /\ d <= Len(e)
<1>1. Len(e) \in Nat /\ \A i \in 1 .. Len(e) : e[i] \in T
  BY LenProperties, ElementOfSeq
<1> DEFINE upto(k)   == SubSeq(e, 1, k)
           part(k, l) == SubSeq(e, k + 1, l)
<1>2. ASSUME NEW k \in Nat, NEW l \in Nat, k <= l, l <= Len(e)
      PROVE  /\ upto(k) \in Seq(T) /\ part(k, l) \in Seq(T)
             /\ upto(k) \o part(k, l) = upto(l)
  <2>1. 1 \in 1 .. Len(e) + 1 /\ k \in 1 - 1 .. Len(e) /\ l \in k .. Len(e)
    BY <1>1, <1>2
  <2>2. upto(k) \o part(k, l) = upto(l)
    BY <2>1, ConcatAdjacentSubSeq
  <2>3. (\A i \in 1 .. k : e[i] \in T) /\ (\A i \in k + 1 .. l : e[i] \in T)
    BY <1>1, <1>2
  <2>4. 1 \in Int /\ k \in Int /\ k + 1 \in Int /\ l \in Int
    BY <1>2
  <2>5. upto(k) \in Seq(T) /\ part(k, l) \in Seq(T)
    BY <2>3, <2>4, SubSeqProperties
  <2> QED BY <2>2, <2>5
<1>3. upto(Len(e)) = e
  BY SubSeqFull
<1>4. upto(c) \in Seq(T) /\ part(c, d) \in Seq(T) /\ upto(c) \o part(c, d) = upto(d)
  BY <1>2
<1>5. upto(d) \in Seq(T) /\ part(d, Len(e)) \in Seq(T) /\ upto(d) \o part(d, Len(e)) = e
  <2>1. d <= Len(e) /\ Len(e) <= Len(e) /\ Len(e) \in Nat
    BY <1>1
  <2> HIDE DEF upto, part
  <2>2. /\ upto(d) \in Seq(T) /\ part(d, Len(e)) \in Seq(T)
        /\ upto(d) \o part(d, Len(e)) = upto(Len(e))
    BY <2>1, <1>2
  <2> QED BY <2>2, <1>3
<1> HIDE DEF upto, part
<1>6. Keep(upto(c), S) \o Keep(part(c, d), S) = Keep(upto(d), S)
  BY <1>4, KeepConcat
<1>7. Keep(upto(d), S) \o Keep(part(d, Len(e)), S) = Keep(e, S)
  BY <1>5, KeepConcat
<1>8. Keep(upto(d), S) \in Seq(T) /\ Keep(part(d, Len(e)), S) \in Seq(T)
  BY <1>5, KeptIn
<1>9. d = Len(e) => Keep(e, S) = Keep(upto(d), S)
  BY <1>3
<1> QED BY <1>6, <1>7, <1>8, <1>9 DEF upto, part

LEMMA CutIsPrefix ==
  ASSUME NEW T, NEW s \in Seq(T), NEW t \in Seq(T), NEW k \in Nat, k <= Len(s)
  PROVE  /\ SubSeq(s, 1, k) \in Seq(T) /\ Len(SubSeq(s, 1, k)) = k
         /\ IsPrefix(SubSeq(s, 1, k), s \o t)
<1> DEFINE cut == SubSeq(s, 1, k)
           all == s \o t
<1>1. Len(s) \in Nat /\ \A i \in 1 .. k : s[i] \in T
  BY LenProperties, ElementOfSeq
<1>2. cut \in Seq(T) /\ Len(cut) = k
  <2>1. 1 \in Int /\ k \in Int
    OBVIOUS
  <2>2. cut \in Seq(T) /\ Len(cut) = IF 1 <= k THEN k - 1 + 1 ELSE 0
    BY <1>1, <2>1, SubSeqProperties
  <2> HIDE DEF cut
  <2> QED BY <2>2
<1>3. SubSeq(cut, 1, Len(cut)) = cut
  BY <1>2, SubSeqFull
<1>4. Len(all) = Len(s) + Len(t) /\ Len(t) \in Nat
  BY ConcatProperties, LenProperties
<1>5. SubSeq(all, 1, k) = cut
  <2>1. CASE k = 0
    BY <2>1, SubSeqEmpty
  <2>2. CASE k # 0
    <3>1. 1 \in 1 .. Len(s) /\ k \in 1 .. Len(s)
      BY <1>1, <2>2
    <3> QED BY <3>1, SubSeqOfConcat1
  <2> QED BY <2>1, <2>2
<1> HIDE DEF cut, all
<1>6. IsPrefix(cut, all)
  BY <1>1, <1>2, <1>3, <1>4, <1>5 DEF IsPrefix
<1> QED BY <1>2, <1>6 DEF cut, all

(* What is listed of a request's entries, and shown of them.               *)
LEMMA ListsOfEntries ==
  ASSUME order \in Seq(Entries), NEW req
  PROVE  Listed(req) \in Seq(Entries)
<1> DEFINE S == {e \in Entries :
                   IF e = Bad THEN ~req.archived
                   ELSE e \in req.among /\ status[e] = IF req.archived THEN "archived" ELSE "active"}
<1>1. Listed(req) = Keep(order, S)
  BY DEF Listed
<1> HIDE DEF S
<1> QED BY <1>1, KeptIn

(* A page that is read without a change meanwhile: the rows are the first  *)
(* of what there is; fewer than Limit, they are all that was read of; and  *)
(* the next page, when there is another, begins where this one ends.       *)
LEMMA PageShows ==
  ASSUME ListingInv, at = "listing", ~moved, NEW next \in NextCursors(Listed(list.req), list.cursor)
  PROVE  LET req     == list.req
             entries == Listed(req)
             page    == SubSeq(entries, list.cursor + 1, Min({list.cursor + Limit, Len(entries)}))
             rows    == UpTo(Limit, list.rows \o Visible(req, page))
         IN  /\ rows \in Seq(Entries)
             /\ IsPrefix(rows, Visible(req, entries))
             /\ Len(rows) < Limit /\ next = -1 => rows = Visible(req, entries)
             /\ Len(rows) < Limit /\ next # -1 /\ next # list.cursor =>
                  /\ next \in Nat /\ next <= Len(entries)
                  /\ rows = Visible(req, SubSeq(entries, 1, next))
<1> DEFINE req  == list.req
           c    == list.cursor
           e    == Listed(req)
           d    == Min({c + Limit, Len(e)})
           page == SubSeq(e, c + 1, d)
           W    == list.rows \o Visible(req, page)
           rows == UpTo(Limit, W)
           S    == {x \in Entries : IsVisible(req, x)}
<1>1. e \in Seq(Entries) /\ Len(e) \in Nat
  BY ListsOfEntries, LenProperties DEF ListingInv, ListTyped
<1>2. c \in Nat /\ c <= Len(e) /\ list.rows = Visible(req, SubSeq(e, 1, c))
  BY DEF ListingInv, ListTyped, ReadSoFar
<1>3. \A x : Visible(req, x) = Keep(x, S)
  BY DEF Visible
<1> HIDE DEF S
<1>4. Limit \in Nat /\ Limit > 0
  BY LimitAssumption
<1>5. d = (IF c + Limit <= Len(e) THEN c + Limit ELSE Len(e))
  BY <1>1, <1>2, <1>4, SmallerOfTwo
<1> HIDE DEF e, d, c, req
<1>6. d \in Nat /\ c <= d /\ d <= Len(e)
  BY <1>1, <1>2, <1>4, <1>5
<1>7. /\ Keep(SubSeq(e, 1, c), S) \o Keep(SubSeq(e, c + 1, d), S) = Keep(SubSeq(e, 1, d), S)
      /\ Keep(SubSeq(e, 1, d), S) \in Seq(Entries)
      /\ \E rest \in Seq(Entries) : Keep(e, S) = Keep(SubSeq(e, 1, d), S) \o rest
      /\ d = Len(e) => Keep(e, S) = Keep(SubSeq(e, 1, d), S)
  <2> HIDE DEF e, d, c, req, S, page, W, rows
  <2>1. e \in Seq(Entries) /\ c \in Nat /\ d \in Nat /\ c <= d /\ d <= Len(e)
    BY <1>1, <1>2, <1>6
  <2>2. \A x \in Seq(Entries), m, n \in Nat : m <= n /\ n <= Len(x) =>
          /\ Keep(SubSeq(x, 1, m), S) \o Keep(SubSeq(x, m + 1, n), S) = Keep(SubSeq(x, 1, n), S)
          /\ Keep(SubSeq(x, 1, n), S) \in Seq(Entries)
          /\ \E rest \in Seq(Entries) : Keep(x, S) = Keep(SubSeq(x, 1, n), S) \o rest
          /\ n = Len(x) => Keep(x, S) = Keep(SubSeq(x, 1, n), S)
    BY PageExtends, ZenonT(60)
  <2> QED BY <2>1, <2>2
<1>8. W = Keep(SubSeq(e, 1, d), S)
  BY <1>2, <1>3, <1>7
<1>9. W \in Seq(Entries) /\ Len(W) \in Nat
  BY <1>7, <1>8, LenProperties
<1> HIDE DEF W
<1>10. rows = SubSeq(W, 1, IF Limit <= Len(W) THEN Limit ELSE Len(W))
  BY <1>4, <1>9, SmallerOfTwo DEF UpTo
<1>11. PICK rest \in Seq(Entries) : Keep(e, S) = W \o rest
  BY <1>7, <1>8
<1> DEFINE k == IF Limit <= Len(W) THEN Limit ELSE Len(W)
<1>12. k \in Nat /\ k <= Len(W) /\ (k < Limit => k = Len(W))
  BY <1>4, <1>9
<1> HIDE DEF k, rows
<1>13. rows \in Seq(Entries) /\ Len(rows) = k /\ IsPrefix(rows, W \o rest)
  BY <1>9, <1>10, <1>12, CutIsPrefix DEF k
<1>14. Len(rows) < Limit => rows = W
  BY <1>9, <1>10, <1>12, <1>13, SubSeqFull DEF k
<1>15. next \in (IF c + Limit < Len(e) THEN {c + Limit} ELSE {-1}) \cup (IF c > 0 THEN {c} ELSE {})
  BY DEF NextCursors, c, e, req
<1>16. next = -1 => d = Len(e)
  BY <1>1, <1>2, <1>4, <1>5, <1>15
<1>17. next # -1 /\ next # c => next = d
  BY <1>1, <1>2, <1>4, <1>5, <1>15
<1>18. IsPrefix(rows, Visible(req, e))
  BY <1>3, <1>11, <1>13
<1>19. Len(rows) < Limit /\ next = -1 => rows = Visible(req, e)
  BY <1>3, <1>7, <1>8, <1>14, <1>16
<1>20. Len(rows) < Limit /\ next # -1 /\ next # c =>
         next \in Nat /\ next <= Len(e) /\ rows = Visible(req, SubSeq(e, 1, next))
  BY <1>3, <1>6, <1>8, <1>14, <1>17
<1> QED
  BY <1>13, <1>18, <1>19, <1>20 DEF rows, W, d, e, c, req, page

LEMMA InitListing == HistoryInit => ListingInv
<1> SUFFICES ASSUME HistoryInit PROVE ListingInv
  OBVIOUS
<1>1. order \in Seq(Entries)
  BY InitOrder
<1>2. <<>> \in Seq(Entries)
  BY EmptySeq
<1>3. list = NoList /\ at = "idle"
  BY DEF HistoryInit
<1>4. ListTyped
  BY <1>1, <1>2, <1>3 DEF ListTyped, NoList
<1>5. ReadSoFar
  BY <1>3 DEF ReadSoFar
<1> QED BY <1>4, <1>5 DEF ListingInv

(* The rows of a page, wherever the cursor has come to.                     *)
LEMMA RowsTyped ==
  ASSUME ListTyped
  PROVE  LET page == SubSeq(Listed(list.req), list.cursor + 1,
                            Min({list.cursor + Limit, Len(Listed(list.req))}))
         IN  UpTo(Limit, list.rows \o Visible(list.req, page)) \in Seq(Entries)
<1> DEFINE e    == Listed(list.req)
           c    == list.cursor
           d    == Min({c + Limit, Len(e)})
           page == SubSeq(e, c + 1, d)
           W    == list.rows \o Visible(list.req, page)
<1>1. e \in Seq(Entries) /\ Len(e) \in Nat /\ c \in Nat /\ list.rows \in Seq(Entries)
  BY ListsOfEntries, LenProperties DEF ListTyped
<1>2. Limit \in Nat
  BY LimitAssumption
<1>3. d \in Nat /\ d <= Len(e)
  <2> HIDE DEF e, c
  <2> QED BY <1>1, <1>2, SmallerOfTwo
<1> HIDE DEF d, e, c
<1>4. page \in Seq(Entries)
  <2>1. \A i \in c + 1 .. d : i \in 1 .. Len(e)
    BY <1>1, <1>3
  <2>2. \A i \in c + 1 .. d : e[i] \in Entries
    BY <1>1, <2>1, ElementOfSeq
  <2>3. c + 1 \in Int /\ d \in Int
    BY <1>1, <1>3
  <2> QED BY <2>2, <2>3, SubSeqProperties
<1> HIDE DEF page
<1>5. Visible(list.req, page) \in Seq(Entries)
  BY <1>4, KeptIn DEF Visible
<1>6. W \in Seq(Entries) /\ Len(W) \in Nat
  BY <1>1, <1>5, ConcatProperties, LenProperties
<1> HIDE DEF W
<1>7. PICK k \in Nat : k <= Len(W) /\ UpTo(Limit, W) = SubSeq(W, 1, k)
  <2>1. Min({Limit, Len(W)}) \in Nat /\ Min({Limit, Len(W)}) <= Len(W)
    BY <1>2, <1>6, SmallerOfTwo
  <2> QED BY <2>1 DEF UpTo
<1>8. SubSeq(W, 1, k) \in Seq(Entries)
  BY <1>6, <1>7, CutIsPrefix
<1> QED BY <1>7, <1>8 DEF W, page, d, e, c

(* The types of a listing.                                                 *)
LEMMA ListStaysTyped ==
  ASSUME ListTyped, HistoryNext
  PROVE  ListTyped'
<1>1. <<>> \in Seq(Entries)
  BY EmptySeq
<1>2. CASE \/ UNCHANGED <<order, list>>
           \/ UNCHANGED order /\ list' = NoList
  <2>1. NoList \in [req : Requests \cup {NoList.req}, rows : Seq(Entries), cursor : Nat,
                    seen : SUBSET Nat, rounds : Nat]
    BY <1>1 DEF NoList
  <2> QED BY <1>2, <2>1 DEF ListTyped
<1>3. ASSUME NEW r \in Requests, StartListing(r)
      PROVE  ListTyped'
  BY <1>1, <1>3 DEF StartListing, ListTyped, NoList, appServer
<1>4. ASSUME NEW n \in -1..(Len(order)), ReadPage(n), list' # NoList
      PROVE  ListTyped'
  <2> DEFINE page == SubSeq(Listed(list.req), list.cursor + 1,
                            Min({list.cursor + Limit, Len(Listed(list.req))}))
             rows == UpTo(Limit, list.rows \o Visible(list.req, page))
  <2>1. /\ list' = [list EXCEPT !.rows = rows, !.cursor = n,
                                !.seen = @ \cup {list.cursor}, !.rounds = @ + 1]
        /\ n # -1 /\ UNCHANGED order
    BY <1>4 DEF ReadPage, Show, appServer
  <2>2. n \in Nat
    <3>1. Len(order) \in Nat
      BY LenProperties DEF ListTyped
    <3> QED BY <2>1, <3>1
  <2>3. rows \in Seq(Entries)
    BY RowsTyped DEF ListTyped
  <2> HIDE DEF rows
  <2>4. /\ list.cursor \in Nat /\ list.seen \cup {list.cursor} \in SUBSET Nat
        /\ list.rounds + 1 \in Nat
    BY DEF ListTyped
  <2>5. order' \in Seq(Entries)
    BY <2>1 DEF ListTyped
  <2> QED BY <2>1, <2>2, <2>3, <2>4, <2>5 DEF ListTyped
<1>5. ASSUME NEW n \in -1..(Len(order)), ReadPage(n), list' = NoList
      PROVE  ListTyped'
  BY <1>2, <1>5 DEF ReadPage, appServer
<1>6. CASE PageFails
  BY <1>2, <1>6 DEF PageFails, appServer
<1>7. CASE Commands
  BY <1>2, <1>7
     DEF Commands, Resume, AskDelete, Rename, Archive, Unarchive, CommandOn, Delete,
         DeleteFails, Unbind, UnbindFails, appServer
<1>8. ASSUME NEW t \in Threads, OtherUses(t)
      PROVE  ListTyped'
  <2>1. order' = <<t>> \o Keep(order, Entries \ {t}) /\ UNCHANGED list
    BY <1>8 DEF OtherUses, Others
  <2>2. Keep(order, Entries \ {t}) \in Seq(Entries)
    BY KeptIn DEF ListTyped
  <2>3. <<t>> \in Seq(Entries)
    BY DEF Entries
  <2>4. order' \in Seq(Entries)
    BY <2>1, <2>2, <2>3, ConcatProperties
  <2> QED BY <2>1, <2>4 DEF ListTyped
<1>9. CASE \/ \E t \in Threads, to \in {"archived", "deleted"} : OtherEnds(t, to)
           \/ OtherMigrates
           \/ \E t \in Here : OtherBinds(t)
  BY <1>2, <1>9 DEF OtherEnds, OtherMigrates, Others, OtherBinds
<1> QED
  BY <1>3, <1>4, <1>5, <1>6, <1>7, <1>8, <1>9 DEF HistoryNext, Listing, Elsewhere

LEMMA StartReads ==
  ASSUME ListTyped, NEW r \in Requests, StartListing(r)
  PROVE  ReadSoFar'
<1>1. /\ list'.req = r /\ list'.cursor = 0 /\ list'.rows = <<>>
      /\ UNCHANGED <<order, status, internal>>
  BY DEF StartListing, NoList, appServer
<1>2. Listed(list.req)' = Listed(r) /\ \A x : Visible(list.req, x)' = Visible(r, x)
  BY <1>1 DEF Listed, Visible, IsVisible
<1>3. Len(Listed(r)) \in Nat
  BY ListsOfEntries, LenProperties DEF ListTyped
<1>4. SubSeq(Listed(r), 1, 0) = <<>> /\ Visible(r, <<>>) = <<>>
  BY SubSeqEmpty, KeepEmpty DEF Visible
<1>5. 0 <= Len(Listed(r))
  BY <1>3
<1>6. list'.rows = Visible(r, SubSeq(Listed(r), 1, 0))
  BY <1>1, <1>4
<1> QED
  BY <1>1, <1>2, <1>5, <1>6 DEF ReadSoFar

LEMMA PageReads ==
  ASSUME ListingInv, NEW n \in -1..(Len(order)), ReadPage(n), at' = "listing", ~moved'
  PROVE  ReadSoFar'
<1> DEFINE req  == list.req
           all  == Listed(req)
           page == SubSeq(all, list.cursor + 1, Min({list.cursor + Limit, Len(all)}))
           rows == UpTo(Limit, list.rows \o Visible(req, page))
<1>1. /\ at = "listing" /\ ~moved /\ n \in NextCursors(all, list.cursor)
      /\ UNCHANGED <<order, status, internal>>
  BY DEF ReadPage, appServer
<1>2. /\ n # -1 /\ n # list.cursor /\ ~(Len(rows) >= Limit)
      /\ list' = [list EXCEPT !.rows = rows, !.cursor = n,
                              !.seen = @ \cup {list.cursor}, !.rounds = @ + 1]
  BY DEF ReadPage, Show
<1>3. /\ rows \in Seq(Entries)
      /\ Len(rows) < Limit /\ n # -1 /\ n # list.cursor =>
           n \in Nat /\ n <= Len(all) /\ rows = Visible(req, SubSeq(all, 1, n))
  BY <1>1, PageShows
<1>4. Len(rows) < Limit
  <2>1. Len(rows) \in Nat
    BY <1>3, LenProperties
  <2> HIDE DEF rows
  <2> QED BY <1>2, <2>1, LimitAssumption
<1> HIDE DEF rows
<1>5. list'.req = req /\ list'.cursor = n /\ list'.rows = rows
  BY <1>2 DEF ListingInv, ListTyped
<1>6. Listed(list.req)' = all
  BY <1>1, <1>5 DEF Listed
<1>7. \A x : Visible(list.req, x)' = Visible(req, x)
  BY <1>1, <1>5 DEF Visible, IsVisible
<1> HIDE DEF all, req
<1>8. n <= Len(all) /\ rows = Visible(req, SubSeq(all, 1, n))
  BY <1>2, <1>3, <1>4 DEF all, req
<1> QED BY <1>5, <1>6, <1>7, <1>8 DEF ReadSoFar, all, req

LEMMA ListingStep ==
  ASSUME ListingInv, [HistoryNext]_historyVars
  PROVE  ListingInv'
<1>1. CASE HistoryNext
  <2>1. ListTyped'
    BY <1>1, ListStaysTyped DEF ListingInv
  <2>2. ASSUME at' = "listing", ~moved' PROVE ReadSoFar'
    <3>1. CASE \E r \in Requests : StartListing(r)
      BY <3>1, StartReads DEF ListingInv
    <3>2. CASE \E n \in -1..(Len(order)) : ReadPage(n)
      BY <2>2, <3>2, PageReads
    <3>3. CASE PageFails \/ Commands
      BY <2>2, <3>3
         DEF PageFails, Commands, Resume, AskDelete, Rename, Archive, Unarchive, CommandOn,
             Delete, DeleteFails, UnbindIfSelected, GiveUp, Unbind, UnbindFails
    <3>4. CASE Elsewhere
      <4>1. CASE \E t \in Here : OtherBinds(t)
        BY <2>2, <4>1
           DEF OtherBinds, ListingInv, ReadSoFar, Listed, Visible, IsVisible
      <4>2. CASE ~\E t \in Here : OtherBinds(t)
        BY <2>2, <3>4, <4>2 DEF Elsewhere, OtherUses, OtherEnds, OtherMigrates, Others
      <4> QED BY <4>1, <4>2
    <3> QED BY <1>1, <3>1, <3>2, <3>3, <3>4 DEF HistoryNext, Listing
  <2>3. ReadSoFar'
    BY <2>2 DEF ReadSoFar
  <2> QED BY <2>1, <2>3 DEF ListingInv
<1>2. CASE UNCHANGED historyVars
  BY <1>2
     DEF historyVars, appServer, ListingInv, ListTyped, ReadSoFar, Listed, Visible, IsVisible
<1> QED BY <1>1, <1>2

(* A listing that is printed to its end shows the first of what there is.  *)
LEMMA ShownArePrefix ==
  ASSUME ListingInv, HistoryNext, at = "listing", screen' # screen, ~moved
  PROVE  LET all == Visible(list.req, Listed(list.req)) IN
         /\ IsPrefix(screen'.rows, all)
         /\ screen'.rows # <<>> /\ Len(screen'.rows) < Limit /\ ~screen'.more =>
              screen'.rows = all
<1>1. PICK n \in -1..(Len(order)) : ReadPage(n)
  BY DEF HistoryNext, Listing, StartListing, PageFails, Commands, Resume, AskDelete, Rename,
         Archive, Unarchive, CommandOn, Delete, DeleteFails, Unbind, UnbindFails, Elsewhere,
         OtherUses, OtherEnds, OtherMigrates, Others, OtherBinds
<1> DEFINE req  == list.req
           all  == Listed(req)
           page == SubSeq(all, list.cursor + 1, Min({list.cursor + Limit, Len(all)}))
           rows == UpTo(Limit, list.rows \o Visible(req, page))
<1>2. n \in NextCursors(all, list.cursor) /\ Show(rows, SaysMore(rows, n))
  BY <1>1 DEF ReadPage
<1>3. /\ IsPrefix(rows, Visible(req, all))
      /\ Len(rows) < Limit /\ n = -1 => rows = Visible(req, all)
  BY <1>2, PageShows
<1> HIDE DEF rows
<1>4. screen'.rows = rows /\ screen'.more = (n # -1 /\ rows # <<>>)
  BY <1>2 DEF Show, SaysMore
<1> QED BY <1>3, <1>4

(* A listing leaves nothing out in the middle, and a short one that does   *)
(* not say that there is more leaves nothing out at all, for any order of  *)
(* the threads, any page size and any number of pages. (history_manager.py: *)
(* list_threads, search_threads.)                                          *)
THEOREM ListingsAreWhole == HistorySpec => ListingIsPrefix
<1>1. ListingInv /\ [HistoryNext]_historyVars => ListingInv'
  BY ListingStep
<1>2. ListingInv /\ [HistoryNext]_historyVars =>
        [at = "listing" /\ screen' # screen /\ screen'.rows # <<>> /\ ~moved =>
           LET all == Visible(list.req, Listed(list.req)) IN
           /\ IsPrefix(screen'.rows, all)
           /\ Len(screen'.rows) < Limit /\ ~screen'.more => screen'.rows = all]_historyVars
  BY ShownArePrefix
<1> QED BY InitListing, <1>1, <1>2, PTL DEF HistorySpec, ListingIsPrefix
==============================================================================
