----------------------------- MODULE CodexThreads -----------------------------
(* The threads of the Codex App Server: what a repository is bound to      *)
(* (Session), and what the history commands list and number (Selection).   *)
CONSTANTS
  Threads,        \* those not yet started included
  NoThread
===============================================================================
