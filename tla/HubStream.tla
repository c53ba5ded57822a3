----------------------------- MODULE HubStream -----------------------------
(***************************************************************************)
(* The annotated stream from cat-sentinel to the browser:                  *)
(*   hub/app/stream, hub/app/core/dependencies.py and main.py (the proxy   *)
(*   and its connection pool), hub_frontend/app/api/stream/route.ts (the   *)
(*   same-origin proxy) and live-video-feed.tsx (the picture on the page). *)
(* It composes with AnnotatedFrameBroadcaster: what is a viewer there is a *)
(* request of the hub here, and only the hub opens and closes it.          *)
(*                                                                         *)
(* A browser, the hub and cat-sentinel learn of each other's departure at  *)
(* different moments, each in a step of its own.  The hub's pool is the    *)
(* httpx pool of its stream client, whose timeouts are off: the next       *)
(* request waits, in order, until a slot is free, however long.  The       *)
(* Next.js proxy keeps no state of its own: it fetches, and then pipes the *)
(* body or answers 502, and it does not abort a fetch it waits for.        *)
(***************************************************************************)
EXTENDS AnnotatedFrameBroadcaster, FiniteSets

CONSTANTS
    Pages,          \* the places where a LiveVideoFeed can be mounted
    MaxConnections, \* slots of the stream client's pool, 100 by httpx's default
    NoRequest

ASSUME HubAssumption ==
    /\ MaxConnections \in Nat \ {0}
    /\ NoRequest \notin Viewers
    /\ IsFiniteSet(Viewers)

VARIABLES
    page,           \* each page: its FeedStatus and the request of its <img>
    hub,            \* where the hub's handler of each request is
    backlog,        \* the requests waiting for a slot, first come first served
    pool            \* the requests that hold a slot: their upstream connection is open

hubVars == <<page, hub, backlog, pool>>
allVars == <<vars, hubVars>>

FeedStatus == {"closed", "loading", "ok", "error"}

HubTypeOK ==
    /\ page \in [Pages -> [status : FeedStatus, request : Viewers \cup {NoRequest}]]
    /\ hub \in [Viewers -> {"none", "queued", "sent", "streaming"}]
    /\ backlog \in Seq(Viewers)
    /\ pool \in SUBSET Viewers

Without(status) == [status |-> status, request |-> NoRequest]

HubInit ==
    /\ Init
    /\ page = [p \in Pages |-> Without("closed")]
    /\ hub = [c \in Viewers |-> "none"]
    /\ backlog = <<>>
    /\ pool = {}

\* The browser still wants the request's body.
Present(c) == \E p \in Pages : page[p].request = c

-----------------------------------------------------------------------------
(* The page.                                                               *)

\* An <img> with a source of its own: a new request, through the Next.js
\* route to the hub, whose handler asks its pool for a connection.
Ask(p) ==
    \E c \in Viewers :
        /\ hub[c] = "none" /\ at[c] = "away" /\ ~Present(c)
        /\ page' = [page EXCEPT ![p] = [status |-> "loading", request |-> c]]
        /\ hub' = [hub EXCEPT ![c] = "queued"]
        /\ backlog' = Append(backlog, c)
        /\ UNCHANGED <<vars, pool>>

Mount(p) == page[p].status = "closed" /\ Ask(p)

\* handleRetry, which only an error shows: the one way back from it.
Retry(p) == page[p].status = "error" /\ Ask(p)

\* handleLoad, at the first picture.
Load(p) ==
    /\ page[p].status = "loading"
    /\ hub[page[p].request] = "streaming"
    /\ shown[page[p].request] > 0
    /\ page' = [page EXCEPT ![p].status = "ok"]
    /\ UNCHANGED <<vars, hub, backlog, pool>>

\* The tab is closed or another page opened; the browser drops the request.
Unmount(p) ==
    /\ page[p].status # "closed"
    /\ page' = [page EXCEPT ![p] = Without("closed")]
    /\ UNCHANGED <<vars, hub, backlog, pool>>

\* The responses of the requests C end.  handleError takes the <img> away,
\* unless the browser, having drawn a picture, just leaves it there.
End(C) ==
    \E frozen \in SUBSET {p \in Pages : /\ page[p].request \in C
                                        /\ hub[page[p].request] = "streaming"
                                        /\ shown[page[p].request] > 0} :
        page' = [p \in Pages |->
                    CASE p \in frozen -> Without("ok")
                      [] page[p].request \in C -> Without("error")
                      [] OTHER -> page[p]]

-----------------------------------------------------------------------------
(* The hub.                                                                *)

\* Mutation: a slot is given only to a client that is still there, and a
\* request of another stays at the head.
AcquirePresent ==
    /\ backlog # <<>>
    /\ Present(Head(backlog))
    /\ Cardinality(pool) < MaxConnections
    /\ pool' = pool \cup {Head(backlog)}
    /\ hub' = [hub EXCEPT ![Head(backlog)] = "sent"]
    /\ backlog' = Tail(backlog)
    /\ UNCHANGED <<vars, page>>

\* The pool serves its waiting requests in order, whether or not the client
\* that asked is still there: the endpoint is not cancelled.
Acquire ==
    /\ backlog # <<>>
    /\ Cardinality(pool) < MaxConnections
    /\ pool' = pool \cup {Head(backlog)}
    /\ hub' = [hub EXCEPT ![Head(backlog)] = "sent"]
    /\ backlog' = Tail(backlog)
    /\ UNCHANGED <<vars, page>>

\* Mutation: the handler forgets to close its upstream response.
FinishLeaking(c) ==
    /\ hub' = [hub EXCEPT ![c] = "none"]
    /\ UNCHANGED <<backlog, pool>>

\* The handler of c is over and its connection closed.
Finish(c) ==
    /\ hub' = [hub EXCEPT ![c] = "none"]
    /\ pool' = pool \ {c}
    /\ UNCHANGED backlog

\* UpstreamServiceError: 502 to the Next.js route, 502 to the page.
BadGateway(c) ==
    /\ Finish(c)
    /\ End({c})
    /\ UNCHANGED vars

\* A connection that is refused, or breaks before the answer: that one is not
\* caught and a 500, of which the Next.js route makes a 502 as well.
Unreachable(c) == hub[c] = "sent" /\ at[c] = "away" /\ BadGateway(c)

\* Mutation: an error status is not looked at, and its response stays open.
AnswerUnchecked(c) ==
    /\ hub[c] = "sent" /\ at[c] = "away"
    /\ \/ Accept(c) /\ UNCHANGED hubVars
       \/ /\ newest = NoFrame
          /\ FinishLeaking(c)
          /\ End({c})
          /\ UNCHANGED vars

\* cat-sentinel answers: 200 and a stream, or 503 before its first frame,
\* which the hub closes and makes a 502 of.
Answer(c) ==
    /\ hub[c] = "sent" /\ at[c] = "away"
    /\ \/ Accept(c) /\ UNCHANGED hubVars
       \/ newest = NoFrame /\ BadGateway(c)

\* The response head arrived: iter_annotated_stream passes the body on.
Stream(c) ==
    /\ hub[c] = "sent" /\ at[c] # "away"
    /\ hub' = [hub EXCEPT ![c] = "streaming"]
    /\ UNCHANGED <<vars, page, backlog, pool>>

\* The streaming response notices that its client left; the finally closes
\* the upstream response.
HangUp(c) ==
    /\ hub[c] = "streaming" /\ ~Present(c)
    /\ Finish(c)
    /\ UNCHANGED <<vars, page>>

\* cat-sentinel notices in its turn, and its generator unsubscribes.
Gone(c) ==
    /\ at[c] # "away" /\ c \notin pool
    /\ Disconnect(c)
    /\ UNCHANGED hubVars

\* The upstream connection breaks: aiter_bytes or send raises, both close it,
\* and the response to the browser ends.
Break(c) ==
    /\ at[c] # "away" /\ c \in pool
    /\ Disconnect(c)
    /\ Finish(c)
    /\ End({c})

\* Broadcaster steps: the camera publishes, cat-sentinel serves its requests.
Camera == Publish /\ UNCHANGED hubVars
Feed(c) == Serve(c) /\ UNCHANGED hubVars

\* The hub stops, closing its clients, and starts again.
Restart ==
    /\ \E c \in Viewers : hub[c] # "none"
    /\ hub' = [c \in Viewers |-> "none"]
    /\ pool' = {}
    /\ backlog' = <<>>
    /\ End(Viewers)
    /\ UNCHANGED vars

PageStep(p) == Mount(p) \/ Retry(p) \/ Load(p) \/ Unmount(p)
Handler(c) == Answer(c) \/ Stream(c) \/ HangUp(c)

HubNext ==
    \/ Camera \/ Acquire \/ Restart
    \/ \E p \in Pages : PageStep(p)
    \/ \E c \in Viewers : Handler(c) \/ Feed(c) \/ Gone(c) \/ Unreachable(c) \/ Break(c)

(***************************************************************************)
(* Both event loops run what is ready, cat-sentinel answers a connection   *)
(* it accepted, a browser that stays takes its bytes, and the end of a     *)
(* connection reaches the other side.  Nobody has to open a page, leave,   *)
(* publish or fail.                                                        *)
(***************************************************************************)
HubFairness ==
    /\ WF_allVars(Acquire)
    /\ \A c \in Viewers : WF_allVars(Handler(c)) /\ WF_allVars(Feed(c)) /\ WF_allVars(Gone(c))
    /\ \A p \in Pages : WF_allVars(Load(p))

HubSpec == HubInit /\ [][HubNext]_allVars
HubFairSpec == HubSpec /\ HubFairness

-----------------------------------------------------------------------------
(* Properties.                                                             *)

\* The pool holds a slot for a request exactly as long as a handler is there
\* to close it, never more slots than it has, and who waits for one is known
\* to it exactly once: across failures, breaks, early leavers and restarts
\* nothing is closed twice, held by nobody, or waits forgotten.
SlotsAccountedFor ==
    /\ pool = {c \in Viewers : hub[c] \in {"sent", "streaming"}}
    /\ Cardinality(pool) <= MaxConnections
    /\ {backlog[i] : i \in 1..Len(backlog)} = {c \in Viewers : hub[c] = "queued"}
    /\ \A i, j \in 1..Len(backlog) : backlog[i] = backlog[j] => i = j

\* "The upstream connection is never leaked" (hub/app/stream/service.py): when
\* its client left, whatever the handler was doing then, a request gives its
\* slot back, and cat-sentinel drops its subscription.
Released ==
    \A c \in Viewers :
        /\ (c \in pool /\ ~Present(c)) ~> c \notin pool
        /\ (at[c] # "away" /\ ~Present(c)) ~> at[c] = "away"

\* A request waits for ever only while clients that stay hold every slot.
Admitted ==
    \A c \in Viewers :
        hub[c] = "queued" ~> \/ hub[c] # "queued"
                             \/ /\ Cardinality(pool) = MaxConnections
                                /\ \A d \in pool : Present(d)

\* From the broadcaster to the page: an open page comes to be sent the newest
\* frame or a later one, unless it says there is an error, waits for a slot,
\* or lost its stream after a picture was drawn, the one case in which it
\* shows an old picture and says nothing.
PageCatchesUp ==
    \A p \in Pages : \A n \in 1..MaxFrames :
        (page[p].status \in {"loading", "ok"} /\ newest = n)
            ~> LET c == page[p].request
               IN  \/ page[p].status \in {"closed", "error"}
                   \/ c = NoRequest
                   \/ hub[c] = "queued"
                   \/ page[p].status = "ok" /\ shown[c] >= n
=============================================================================
