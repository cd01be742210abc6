---------------------------- MODULE AtomicConfig ----------------------------
(***************************************************************************)
(* What the settings of womprat promise: one durable configuration, of     *)
(* which every save changes the part it was asked to change and no other,  *)
(* atomically, and from which the program starts again after a crash.      *)
(***************************************************************************)
CONSTANTS
  Requests,            \* the changes a user can ask for
  Changed(_, _),       \* Changed(r, c): configuration c with r carried out
  Normal(_),           \* the normal form in which a configuration is stored
  Default              \* the configuration of a program without a file

VARIABLES
  saved,    \* the stored configuration
  view,     \* the configuration the running program works with
  running   \* the program runs

Init == running = FALSE /\ view = Default /\ saved = Normal(Default)

\* The program starts from the stored configuration, or from the defaults when
\* the store cannot be read.
Start == /\ ~running /\ running' = TRUE
         /\ view' \in {saved, Default}
         /\ UNCHANGED saved

Save(r) == /\ running
           /\ view' = Changed(r, view)
           /\ saved' = Normal(view')
           /\ UNCHANGED running

Crash == running /\ running' = FALSE /\ view' = Default /\ UNCHANGED saved

Next == Start \/ Crash \/ \E r \in Requests : Save(r)

vars == <<saved, view, running>>

Spec == Init /\ [][Next]_vars
=============================================================================
