--------------------------- MODULE BootstrapServer ---------------------------
(***************************************************************************)
(* bootstrap_server (rai/node/bootstrap.cpp): one connection of a peer.    *)
(* Requests are read while responses are written; they queue up and are    *)
(* answered one after the other.  The object lives as long as a handler of *)
(* an outstanding read or write, or a response, refers to it.              *)
(***************************************************************************)
EXTENDS Integers, Sequences, SequencesExt, FiniteSets

CONSTANTS
    MaxRequests      \* bound on the requests of the peer

Kind == {"bulk_pull", "bulk_pull_blocks", "frontier_req", "bulk_push"}

VARIABLES
    requests,        \* the queue; the front is being answered
    reader,          \* who reads the socket: "header", "body" of a request, "push" or none
    reading,         \* the kind of the request whose body is being read
    response,        \* the kind of the response in progress, "none" or "failed"
    arrived, answered   \* history: kinds, in the order of arrival and of completion
vars == <<requests, reader, reading, response, arrived, answered>>

Init ==
    /\ requests = <<>> /\ reader = "header" /\ reading = "none" /\ response = "none"
    /\ arrived = <<>> /\ answered = <<>>

\* run_next: the visitor makes the response.  A bulk_push_server reads.
run_next(kind) == response' = kind
readers_after(kind, r) == IF kind = "bulk_push" THEN "push" ELSE r

\* receive_header_action, for the kinds that have a body
receive_header_action(kind) ==
    /\ reader = "header" /\ kind # "bulk_push" /\ Len(arrived) < MaxRequests
    /\ reader' = "body" /\ reading' = kind
    /\ UNCHANGED <<requests, response, arrived, answered>>

\* add_request, then what its caller does with the socket (r).
add_request(kind, r) ==
    /\ requests' = Append(requests, kind)
    /\ arrived' = Append(arrived, kind)
    /\ IF requests = <<>>
       THEN run_next(kind) /\ reader' = readers_after(kind, r)
       ELSE reader' = r /\ UNCHANGED response

\* receive_bulk_pull_action, receive_bulk_pull_blocks_action, receive_frontier_req_action
receive_action ==
    /\ reader = "body"
    /\ add_request(reading, "header")
    /\ reading' = "none" /\ UNCHANGED answered

\* The header of a bulk_push has no body and is not followed by another read.
after_push == "none"
receive_bulk_push ==
    /\ reader = "header" /\ Len(arrived) < MaxRequests
    /\ add_request("bulk_push", after_push)
    /\ UNCHANGED <<reading, answered>>

following(queue) == queue[2]

\* no_block_sent or the end of a push, and finish_request
finish_request ==
    /\ response \in Kind
    /\ requests' = Tail(requests)
    /\ answered' = Append(answered, response)
    /\ LET freed == IF response = "bulk_push" THEN "none" ELSE reader
       IN  IF Len(requests) > 1
           THEN /\ run_next(following(requests))
                /\ reader' = readers_after(following(requests), freed)
           ELSE response' = "none" /\ reader' = freed
    /\ UNCHANGED <<reading, arrived>>

\* A read that fails, or brings something that is not a request, is not repeated;
\* the object goes with the last handler that refers to it.
receive_error ==
    /\ reader \in {"header", "body"}
    /\ reader' = "none" /\ reading' = "none"
    /\ UNCHANGED <<requests, response, arrived, answered>>

\* A response that fails ends without finish_request: its place in the queue is
\* kept, and requests that still come are queued behind it for nothing.
response_error ==
    /\ response \in Kind
    /\ response' = "failed"
    /\ reader' = IF response = "bulk_push" THEN "none" ELSE reader
    /\ UNCHANGED <<requests, reading, arrived, answered>>

Next ==
    \/ \E k \in Kind : receive_header_action(k)
    \/ receive_action \/ receive_bulk_push \/ finish_request
    \/ receive_error \/ response_error

Spec == Init /\ [][Next]_vars

-----------------------------------------------------------------------------
Failed == response = "failed"

\* The connection is in one of the states its handlers leave it in.
TypeOK ==
    /\ reader \in {"header", "body", "push", "none"} /\ reading \in Kind \cup {"none"}
    /\ response \in Kind \cup {"none", "failed"}
    /\ reader = "push" <=> response = "bulk_push"

\* add_request, finish_request: they race on two io threads, and a queue that
\* is not empty always has a response running that will finish it.
QueueIsServed == requests # <<>> <=> response # "none"

\* run_next: responses are completed in the order of their requests, none twice.
InOrder == IsPrefix(answered, arrived)

\* receive_header_action, bulk_push: the blocks of a push are read by one reader;
\* while a push waits or runs no header is being read.
PushHasTheSocket == "bulk_push" \in ToSet(requests) => reader \notin {"header", "body"}

=============================================================================
