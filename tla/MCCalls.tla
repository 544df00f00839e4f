------------------------------ MODULE MCCalls ------------------------------
(* The way of a call: its bytes and what the modal shows of them, the gate *)
(* that holds it until the user answers, or the record that it leaves; one *)
(* or another, for here they share nothing.                                *)
EXTENDS MCCodec, ApprovalGate, MCRecordPrograms

VARIABLE surface

callVars == <<codecVars, vars, recordVars, surface>>

CallsInit ==
  /\ RecordInit /\ Init /\ CodecInit
  /\ \/ surface = "codec"
     \/ surface \in {"gate", "record"} /\ job = [by |-> "dapp", args |-> <<>>]

CallsNext ==
  \/ surface = "codec" /\ CodecNext /\ UNCHANGED <<vars, recordVars, surface>>
  \/ surface = "gate" /\ Next /\ UNCHANGED <<codecVars, recordVars, surface>>
  \/ surface = "record" /\ RecordNext /\ UNCHANGED <<codecVars, vars, surface>>

(* The fairness of the gate: lookups and downloads come back, React        *)
(* renders, and the user answers what is on the screen.                    *)
CallsSpec ==
  /\ CallsInit /\ [][CallsNext]_callVars
  /\ \A r \in Requests :
       WF_vars(surface = "gate" /\ (LookUp(r) \/ FetchIdl(r)))
  /\ WF_vars(surface = "gate" /\ Render)
  /\ WF_vars(surface = "gate" /\ (Approve \/ Reject))
=============================================================================
