------------------------------ MODULE Exchange ------------------------------
(***************************************************************************)
(* What a server of HTTP promises on one connection: it takes the requests *)
(* in the order they were sent, one at a time, responds at most once to    *)
(* each, writes every response in full before it takes the next request,   *)
(* and after a response gives the connection up exactly when the request   *)
(* asked for that. It may give up before a response starts.                *)
(***************************************************************************)
EXTENDS Integers, Sequences

CONSTANTS
  Requests,  \* what clients send
  Closing,   \* the requests that ask for the connection to be closed
  None       \* the length of a response that declares none

VARIABLES
  phase,  \* "waiting" for a request, "serving", "responding" or "closed"
  sent,   \* the requests that were sent
  cur,    \* number of the request taken last
  out     \* the responses: length, body so far, whether it is done

vars == <<phase, sent, cur, out>>

Init == phase = "waiting" /\ sent = <<>> /\ cur = 0 /\ out = <<>>

Ask ==
  /\ \E k \in Requests : sent' = Append(sent, k)
  /\ UNCHANGED <<phase, cur, out>>

(* A request is taken, to be served or refused. *)
Take ==
  /\ phase = "waiting" /\ cur < Len(sent)
  /\ phase' \in {"serving", "closed"} /\ cur' = cur + 1
  /\ UNCHANGED <<sent, out>>

GiveUp ==
  /\ phase = "serving" /\ phase' = "closed"
  /\ UNCHANGED <<sent, cur, out>>

Latest(s) == s[Len(s)]
Due(r) == IF r.length = None THEN 0 ELSE r.length

Respond ==
  /\ phase = "serving" /\ phase' = "responding"
  /\ Len(out') = cur /\ out' = Append(out, Latest(out'))
  /\ Latest(out').body = 0 /\ ~Latest(out').done
  /\ UNCHANGED <<sent, cur>>

(* The response to the current request grows, the others stay as they are.   *)
Grows ==
  /\ phase = "responding" /\ Len(out') = cur
  /\ out' = [out EXCEPT ![cur].body = Latest(out').body,
                        ![cur].done = Latest(out').done]
  /\ Latest(out).body <= Latest(out').body
  /\ Latest(out').body <= Due(Latest(out))
  /\ UNCHANGED <<sent, cur>>

Continue == Grows /\ ~Latest(out').done /\ UNCHANGED phase

Finish ==
  /\ Grows
  /\ Latest(out').done /\ Latest(out').body = Due(Latest(out))
  /\ phase' = IF sent[cur] \in Closing THEN "closed" ELSE "waiting"

Next == Ask \/ Take \/ GiveUp \/ Respond \/ Continue \/ Finish

Spec == Init /\ [][Next]_vars
=============================================================================
