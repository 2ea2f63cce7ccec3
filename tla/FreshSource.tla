---------------------------- MODULE FreshSource ----------------------------
(***************************************************************************)
(* What a hot-reloading file source promises to the threads that share it,  *)
(* with no cache in sight: documents only move forward, and a call that     *)
(* does not fail answers with a document that was on file at some moment    *)
(* between the call and its answer.                                         *)
(***************************************************************************)
EXTENDS Naturals

CONSTANTS Threads, MaxVersion

VARIABLES
  version,  \* the newest complete document
  calling,  \* per thread: inside get()
  floor,    \* per thread: the document on file when it entered get()
  answer    \* per thread: the outcome of its last get(), 0 for an error

vars == <<version, calling, floor, answer>>

Init ==
  /\ version = 1
  /\ calling = [t \in Threads |-> FALSE]
  /\ floor = [t \in Threads |-> 1]
  /\ answer = [t \in Threads |-> 0]

Publish ==
  /\ version < MaxVersion
  /\ version' = version + 1
  /\ UNCHANGED <<calling, floor, answer>>

Call(t) ==
  /\ ~calling[t]
  /\ calling' = [calling EXCEPT ![t] = TRUE]
  /\ floor' = [floor EXCEPT ![t] = version]
  /\ UNCHANGED <<version, answer>>

Answer(t) ==
  /\ calling[t]
  /\ calling' = [calling EXCEPT ![t] = FALSE]
  /\ \E a \in {0} \cup floor[t]..version : answer' = [answer EXCEPT ![t] = a]
  /\ UNCHANGED <<version, floor>>

Next == Publish \/ \E t \in Threads : Call(t) \/ Answer(t)

Spec == Init /\ [][Next]_vars
=============================================================================
