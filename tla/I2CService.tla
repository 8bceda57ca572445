----------------------------- MODULE I2CService -----------------------------
(***************************************************************************)
(* What transferI2C promises its callers, with no controller, interrupt or  *)
(* FIFO in sight: calls are served one at a time; the bytes of the call     *)
(* being served go over the wire one by one, in order, none twice and none  *)
(* skipped; a call that returns Success has moved its last byte.            *)
(***************************************************************************)
EXTENDS Messages

CONSTANTS Clients, Requests

VARIABLES
  call,      \* idle, waiting, served or done, for each client
  request,   \* what each client asked for
  result,    \* what a finished call returns
  wire       \* position of the last byte moved for the call being served

vars == <<call, request, result, wire>>

Init ==
  /\ call = [c \in Clients |-> "idle"]
  /\ request = [c \in Clients |-> << >>]
  /\ result = [c \in Clients |-> "None"]
  /\ wire = Before

Ask(c) ==
  /\ call[c] = "idle"
  /\ call' = [call EXCEPT ![c] = "waiting"]
  /\ \E r \in Requests : request' = [request EXCEPT ![c] = r]
  /\ UNCHANGED <<result, wire>>

NobodyServed == \A c \in Clients : call[c] \notin {"served", "done"}

Serve(c) ==
  /\ call[c] = "waiting" /\ NobodyServed
  /\ call' = [call EXCEPT ![c] = "served"]
  /\ wire' = Before
  /\ UNCHANGED <<request, result>>

Refuse(c) ==
  /\ call[c] = "waiting" /\ NobodyServed
  /\ call' = [call EXCEPT ![c] = "done"]
  /\ result' = [result EXCEPT ![c] = "Busy"]
  /\ UNCHANGED <<request, wire>>

Move(c) ==
  /\ call[c] = "served"
  /\ wire # LastOf(request[c])
  /\ wire' = After(request[c], wire)
  /\ UNCHANGED <<call, request, result>>

End(c) ==
  /\ call[c] = "served"
  /\ call' = [call EXCEPT ![c] = "done"]
  /\ \E r \in {"Success", "Timeout", "Error"} :
       /\ r = "Success" => wire = LastOf(request[c])
       /\ result' = [result EXCEPT ![c] = r]
  /\ UNCHANGED <<request, wire>>

Return(c) ==
  /\ call[c] = "done"
  /\ call' = [call EXCEPT ![c] = "idle"]
  /\ request' = [request EXCEPT ![c] = << >>]
  /\ result' = [result EXCEPT ![c] = "None"]
  /\ UNCHANGED wire

Next == \E c \in Clients : Ask(c) \/ Serve(c) \/ Refuse(c) \/ Move(c) \/ End(c) \/ Return(c)

Spec == Init /\ [][Next]_vars
=============================================================================
