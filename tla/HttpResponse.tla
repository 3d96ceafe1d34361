----------------------------- MODULE HttpResponse -----------------------------
(***************************************************************************)
(* src/internal/platform/httpx/json.go over net/http, and the one method   *)
(* of src/internal/platform/secret/secret.go that it is the backstop for.  *)
(*                                                                         *)
(* A document is the sequence of its leaves in the order encoding/json     *)
(* meets them: depth does not matter, since any leaf that fails aborts the *)
(* encode.  A response is written in the order of the source, with         *)
(* net/http's rules between the lines: the first status sent stands, the   *)
(* headers that count are those set before it, a body without a status     *)
(* commits a 200, and the client may go away at any byte.                  *)
(***************************************************************************)
EXTENDS Naturals, Sequences

CONSTANTS Leaves,      \* values a response is made of
          Secrets,     \* those of them that are a secret.Secret
          MaxLeaves,   \* bound: leaves of one document
          Statuses,    \* statuses handlers ask for
          Codes        \* error codes handlers ask for

VARIABLES asked,   \* the call a handler made
          todo,    \* the steps of it still ahead
          buffer,  \* bytes.Buffer
          headers, \* have the safety headers been set?
          wire     \* what the client can have received

httpVars == <<asked, todo, buffer, headers, wire>>

Documents == UNION {[1..n -> Leaves] : n \in 0..MaxLeaves}

\* An error envelope is one leaf, the code it carries.
Envelope(code) == <<code>>

Unsent == [status |-> 0, safe |-> FALSE, body |-> <<>>]

-----------------------------------------------------------------------------
(* net/http.                                                               *)

\* ResponseWriter.WriteHeader: only the first one counts.
Send(code) == IF wire.status # 0 THEN wire
              ELSE [wire EXCEPT !.status = code, !.safe = headers]

\* ResponseWriter.Write, of which n leaves get through.
Deliver(bytes, n) ==
    [Send(200) EXCEPT !.body = @ \o SubSeq(bytes, 1, n)]

-----------------------------------------------------------------------------
(* The writer.                                                             *)

\* Secret.MarshalJSON always fails, and one failure fails the encode.
MarshalFails(doc) == \E i \in DOMAIN doc : doc[i] \in Secrets

\* Mutant: the status goes out before the encode.
WriteJSONMutant == <<"status", "encode", "headers", "body">>
WriteJSON == <<"encode", "headers", "status", "body">>

writeError == <<"headers", "status", "body">>

HttpInit ==
    /\ asked \in [op : {"json"}, status : Statuses, doc : Documents]
                     \cup [op : {"error"}, status : Statuses, doc : {Envelope(c) : c \in Codes}]
    /\ todo = IF asked.op = "json" THEN WriteJSON ELSE writeError
    /\ buffer = IF asked.op = "json" THEN <<>> ELSE asked.doc
    /\ headers = FALSE
    /\ wire = Unsent

At(step) == todo # <<>> /\ Head(todo) = step

Encode ==
    /\ At("encode") /\ ~MarshalFails(asked.doc)
    /\ buffer' = asked.doc
    /\ todo' = Tail(todo)
    /\ UNCHANGED <<asked, headers, wire>>

\* The encode failed: log, and answer a 500 in place of the rest.
Refuse ==
    /\ At("encode") /\ MarshalFails(asked.doc)
    /\ asked' = [asked EXCEPT !.op = "refused", !.status = 500]
    /\ buffer' = Envelope("internal_error")
    /\ todo' = writeError
    /\ UNCHANGED <<headers, wire>>

setSafetyHeaders ==
    /\ At("headers")
    /\ headers' = TRUE
    /\ todo' = Tail(todo)
    /\ UNCHANGED <<asked, buffer, wire>>

SendStatus ==
    /\ At("status")
    /\ wire' = Send(asked.status)
    /\ todo' = Tail(todo)
    /\ UNCHANGED <<asked, buffer, headers>>

\* The error of Write is dropped: a client that left gets what it got.
SendBody ==
    /\ At("body")
    /\ \E n \in 0..Len(buffer) : wire' = Deliver(buffer, n)
    /\ todo' = Tail(todo)
    /\ UNCHANGED <<asked, buffer, headers>>

HttpNext == Encode \/ Refuse \/ setSafetyHeaders \/ SendStatus \/ SendBody

HttpSpec == HttpInit /\ [][HttpNext]_httpVars

-----------------------------------------------------------------------------
StartsWith(body, doc) ==
    Len(body) <= Len(doc) /\ body = SubSeq(doc, 1, Len(body))

(***************************************************************************)
(* A document a Secret is reachable in is answered by a clean 500 and      *)
(* nothing of it, not even the fields encoded before the Secret, is ever   *)
(* on the wire (json.go:15-22); any other answer is the asked status with  *)
(* a prefix of the document that was asked for.  Every answer carries the  *)
(* safety headers, the refusal of a credential included: it must not be    *)
(* the least protected one the package emits (json.go:53-58).              *)
(***************************************************************************)
NothingBesideTheRefusal ==
    wire.status # 0 =>
        /\ wire.safe
        /\ IF asked.op # "error" /\ MarshalFails(asked.doc)
           THEN wire.status = 500 /\ StartsWith(wire.body, Envelope("internal_error"))
           ELSE wire.status = asked.status /\ StartsWith(wire.body, asked.doc)
=============================================================================
