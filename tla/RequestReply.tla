---------------------------- MODULE RequestReply ----------------------------
(***************************************************************************)
(* Abstract specification of a wallet that serves the calls of pages: a    *)
(* call goes out under a name, the wallet serves it at most once, and its  *)
(* caller is told at most once how it ended, either by what the wallet     *)
(* said to a call of that name or by a failure on the way.  Serving it,    *)
(* the wallet may do what it is asked or not.                              *)
(***************************************************************************)
EXTENDS Naturals

CONSTANTS
  Calls, Names,
  None \* no name

VARIABLES
  name,    \* the name a call went out under, None before
  served,  \* how often the wallet has served a call
  ran,     \* how often it did what the call asks for
  outcome  \* how a call ended for its caller

rvars == <<name, served, ran, outcome>>

ServiceInit ==
  /\ name = [c \in Calls |-> None]
  /\ served = [c \in Calls |-> 0]
  /\ ran = [c \in Calls |-> 0]
  /\ outcome = [c \in Calls |-> "none"]

Ask(c) ==
  /\ name[c] = None /\ outcome[c] = "none"
  /\ name'[c] \in Names
  /\ name' = [name EXCEPT ![c] = name'[c]]
  /\ UNCHANGED <<served, ran, outcome>>

Serve(c) ==
  /\ name[c] # None /\ served[c] = 0
  /\ served' = [served EXCEPT ![c] = 1]
  /\ ran' \in {ran, [ran EXCEPT ![c] = 1]}
  /\ UNCHANGED <<name, outcome>>

Conclude(c) ==
  /\ name[c] # None /\ outcome[c] = "none"
  /\ \E d \in Calls : served[d] = 1 /\ name[d] = name[c]
  /\ \E o \in {"resolved", "rejected"} : outcome' = [outcome EXCEPT ![c] = o]
  /\ UNCHANGED <<name, served, ran>>

Fail(c) ==
  /\ outcome[c] = "none"
  /\ outcome' = [outcome EXCEPT ![c] = "rejected"]
  /\ UNCHANGED <<name, served, ran>>

ServiceNext == \E c \in Calls : Ask(c) \/ Serve(c) \/ Conclude(c) \/ Fail(c)

ServiceSpec == ServiceInit /\ [][ServiceNext]_rvars
=============================================================================
