--------------------------------- MODULE Api ---------------------------------
(***************************************************************************)
(* The management API server (internal/api/server.go, internal/acl) around *)
(* its rate limiter: the way of a request through the middleware to a call *)
(* of the Manager and back, and the life of the two listeners from Start   *)
(* to Stop, over restarts of the program (cmd/phpeek-pm/serve.go).         *)
(*                                                                         *)
(* A request stands for its verb, its path, what its body or its query     *)
(* says and whether its token and its address are good ones.  The Manager  *)
(* is left open: a call lasts as long as it likes, also longer than the    *)
(* server's WriteTimeout, and ends in any of Results.                      *)
(***************************************************************************)
EXTENDS RateLimiter

CONSTANTS
  Scenario,   \* the situations: the settings the server is created with (acl,
              \* auth, socket, tls, collector) and, to bound them, the requests
              \* that are sent, how many at once, whether time passes, and how
              \* often the program is started
  Request     \* the requests of a situation, by its field sends

(* Settings are of the kinds the configuration allows, and a request comes *)
(* by one of the two listeners under a key the limiter counts.             *)
ASSUME ApiAssumption ==
  /\ \A c \in Scenario :
       /\ {c.auth, c.socket} \subseteq BOOLEAN /\ c.sends \in DOMAIN Request
       /\ c.slots \subseteq Slot
  /\ \A x \in DOMAIN Request : \A q \in Request[x] :
       /\ q.via \in {"tcp", "socket"} /\ q.key \in Client
       /\ {q.named, q.token} \subseteq BOOLEAN

VARIABLES
  conf,       \* the situation
  run,        \* where the program is: Start, serving, Shutdown, Stop
  tcp, sock,  \* the listeners and their servers
  file,       \* the socket's file exists
  reloader,   \* the goroutine of tls.Manager that reloads certificates
  ctx,        \* the context of the shutdown
  errs,       \* the errors Stop collected
  way,        \* where each request is
  req,        \* the request in each slot
  call,       \* the call of the Manager it made
  result,     \* how that call ended
  slow,       \* it took longer than the WriteTimeout of 10 s
  status      \* the answer

svars == <<conf, run, tcp, sock, file, reloader, ctx, errs>>
rvars == <<way, req, call, result, slow, status>>
apivars == <<lvars, svars, rvars>>

NoReq == [via |-> "none"]
NoCall == "no call"
Cut == 0      \* the answer that does not reach the client

Results == {"ok", "missing", "error", "panic"}

Ways == {"free", "acl", "limit", "auth", "handle", "work", "answer"}

InFlight(via) == {s \in Slot : way[s] # "free" /\ req[s].via = via}

-----------------------------------------------------------------------------
(* Routing: what a handler does with a request, as a call to make or a     *)
(* status to answer with                                                   *)

Respond(n) == [call |-> NoCall, status |-> n]
Call(name) == [call |-> name, status |-> Cut]

(* handleScale: a delta wins, and without one the desired scale must be at *)
(* least 1; a field of another name is ignored by the decoder.             *)
ScaleRoute(q) ==
  CASE q.body = "garbled" -> Respond(400)
    [] q.body = "delta" -> Call("adjust")
    [] q.body = "desired" -> Call("scale")
    [] OTHER -> Respond(400)

TriggerRoute(q) == Call(IF q.body = "sync" THEN "trigger sync" ELSE "trigger")

PostRoute(q) ==
  CASE q.action \in {"restart", "stop", "start"} -> Call(q.action)
    [] q.action = "scale" -> ScaleRoute(q)
    [] q.action \in {"schedule/pause", "schedule/resume"} -> Call(q.action)
    [] q.action = "schedule/trigger" -> TriggerRoute(q)
    [] OTHER -> Respond(400)

GetRoute(q) ==
  CASE q.action = "" -> Call("get")
    [] q.action \in {"logs", "schedule", "schedule/history"} -> Call(q.action)
    [] OTHER -> Respond(400)

(* A body or a query that lacks what the handler needs.                    *)
Needs(ok, route) == IF ok THEN route ELSE Respond(400)

UpdateRoute(q) == Needs(q.body = "process", Call("update"))

(* handleProcessAction; PUT and DELETE ignore the action in the path.      *)
ProcessRoute(q) ==
  CASE q.verb \notin {"GET", "POST", "PUT", "DELETE"} -> Respond(405)
    [] q.verb \in {"GET", "POST", "PUT", "DELETE"} /\ ~q.named -> Respond(400)
    [] q.verb = "GET" /\ q.named -> GetRoute(q)
    [] q.verb = "POST" /\ q.named -> PostRoute(q)
    [] q.verb = "PUT" /\ q.named -> UpdateRoute(q)
    [] q.verb = "DELETE" /\ q.named -> Call("remove")

Only(verb, q, route) == IF q.verb = verb THEN route ELSE Respond(405)

AddRoute(q) == Needs(q.body = "process", Call("add"))

ListRoute(q) ==
  IF q.verb = "POST" THEN AddRoute(q) ELSE Only("GET", q, Call("list"))

ConfigRoute(q) ==
  Only("POST", q, Call(IF q.path = "config/save" THEN "save" ELSE "reload"))

MetricsRoute(q) ==
  Only("GET", q, IF conf.collector THEN Needs(q.body # "garbled", Call("metrics"))
                 ELSE Respond(503))

OneshotRoute(q) == Only("GET", q, Needs(q.body # "garbled", Call("oneshots")))

(* The mux.                                                                *)
Route(q) ==
  CASE q.path = "health" -> Only("GET", q, Respond(200))
    [] q.path = "processes" -> ListRoute(q)
    [] q.path = "process" -> ProcessRoute(q)
    [] q.path = "logs" -> Only("GET", q, Call("stack logs"))
    [] q.path \in {"config/save", "config/reload"} -> ConfigRoute(q)
    [] q.path = "metrics" -> MetricsRoute(q)
    [] q.path = "oneshot" -> OneshotRoute(q)
    [] OTHER -> Respond(404)

(* Calls that return no error.                                             *)
Sure == {"list", "stack logs", "metrics", "oneshots"}

(* A recovered panic without an answer: net/http sends 200.                *)
StatusOfSilent(c, r) ==
  IF r \in {"ok", "panic"} THEN 200 ELSE IF r = "missing" THEN 404 ELSE 500

(* httpStatusFromError looks for "not found" and "does not exist" in the   *)
(* text; some handlers have a status of their own.                         *)
StatusOf(c, r) ==
  CASE r = "ok" /\ c = "add" -> 201
    [] r = "ok" /\ c = "trigger" -> 202
    [] r = "ok" /\ c \notin {"add", "trigger"} -> 200
    [] r = "panic" -> 500
    [] r \in {"missing", "error"} /\ c \in {"logs", "get"} -> 404
    [] r \in {"missing", "error"} /\ c \in {"add", "save", "reload"} -> 500
    [] r = "missing" /\ c \notin {"logs", "get", "add", "save", "reload"} -> 404
    [] r = "error" /\ c \notin {"logs", "get", "add", "save", "reload"} -> 500

-----------------------------------------------------------------------------
(* The way of a request                                                    *)

Goes(s, w) == way' = [way EXCEPT ![s] = w]

Answers(s, n) ==
  /\ Goes(s, "answer")
  /\ status' = [status EXCEPT ![s] = n]

(* A connection is accepted by a server whose listener is open; the ACL    *)
(* stands before the TCP server only, and not when it could not be built.  *)
Accept(s, q) ==
  /\ way[s] = "free" /\ s \in conf.slots
  /\ IF q.via = "tcp" THEN tcp = "open" ELSE sock = "open"
  /\ Goes(s, IF q.via = "tcp" /\ conf.acl \in {"allow", "deny"} THEN "acl" ELSE "limit")
  /\ req' = [req EXCEPT ![s] = q]
  /\ call' = [call EXCEPT ![s] = NoCall]
  /\ result' = [result EXCEPT ![s] = "none"]
  /\ slow' = [slow EXCEPT ![s] = FALSE]
  /\ status' = [status EXCEPT ![s] = Cut]
  /\ UNCHANGED <<lvars, svars>>

(* Checker.IsAllowed of an address that is or is not in the mode's list.   *)
IsAllowed(q) == (conf.acl = "allow") = (q.origin = "listed")

(* aclMiddleware                                                           *)
Admit(s) ==
  /\ way[s] = "acl"
  /\ \/ /\ req[s].origin = "unreadable"
        /\ Answers(s, 400)
     \/ /\ req[s].origin # "unreadable"
        /\ ~IsAllowed(req[s])
        /\ Answers(s, 403)
     \/ /\ req[s].origin # "unreadable"
        /\ IsAllowed(req[s])
        /\ Goes(s, "limit")
        /\ UNCHANGED status
  /\ UNCHANGED <<lvars, svars, req, call, result, slow>>

(* rateLimitMiddleware asks the limiter ...                                *)
Ask(s) ==
  /\ way[s] = "limit" /\ req[s].path # "elsewhere"
  /\ Arrive(s, req[s].key)
  /\ UNCHANGED <<svars, rvars>>

(* ... and does what it says: health needs no token after that.            *)
Heed(s) ==
  /\ way[s] = "limit"
  /\ IF at[s] = "limit" THEN Answers(s, 429)
     ELSE /\ Goes(s, IF req[s].path = "health" THEN "handle" ELSE "auth")
          /\ UNCHANGED status
  /\ Leave(s)
  /\ UNCHANGED <<svars, req, call, result, slow>>

(* A path the mux does not know has no middleware.                         *)
Stray(s) ==
  /\ way[s] = "limit" /\ req[s].path = "elsewhere"
  /\ Answers(s, Route(req[s]).status)
  /\ UNCHANGED <<lvars, svars, req, call, result, slow>>

(* authMiddleware                                                          *)
AuthNever(s) ==
  /\ way[s] = "auth"
  /\ Goes(s, "handle")
  /\ UNCHANGED <<lvars, svars, req, call, result, slow, status>>

Auth(s) ==
  /\ way[s] = "auth"
  /\ IF conf.auth /\ ~req[s].token
     THEN Answers(s, 401)
     ELSE Goes(s, "handle") /\ UNCHANGED status
  /\ UNCHANGED <<lvars, svars, req, call, result, slow>>

(* The handler up to its answer or to its call of the Manager.             *)
Handle(s) ==
  /\ way[s] = "handle"
  /\ LET r == Route(req[s])
     IN \/ /\ r.call = NoCall
           /\ Answers(s, r.status)
           /\ UNCHANGED call
        \/ /\ r.call # NoCall
           /\ Goes(s, "work")
           /\ call' = [call EXCEPT ![s] = r.call]
           /\ UNCHANGED status
  /\ UNCHANGED <<lvars, svars, req, result, slow>>

(* The call goes on for more than ten seconds.                             *)
WriteTimeout(s) ==
  /\ way[s] = "work" /\ ~slow[s]
  /\ slow' = [slow EXCEPT ![s] = TRUE]
  /\ UNCHANGED <<lvars, svars, way, req, call, result, status>>

(* It ends, and the handler answers; panicRecoveryMiddleware does after a  *)
(* panic.  After a WriteTimeout nothing reaches the client.                *)
Finish(s, r) ==
  /\ way[s] = "work"
  /\ call[s] \in Sure => r \in {"ok", "panic"}
  /\ result' = [result EXCEPT ![s] = r]
  /\ Answers(s, IF slow[s] THEN Cut ELSE StatusOf(call[s], r))
  /\ UNCHANGED <<lvars, svars, req, call, slow>>

(* The handler has returned and the connection is idle again.              *)
Done(s) ==
  /\ way[s] = "answer"
  /\ Goes(s, "free")
  /\ req' = [req EXCEPT ![s] = NoReq]
  /\ call' = [call EXCEPT ![s] = NoCall]
  /\ result' = [result EXCEPT ![s] = "none"]
  /\ slow' = [slow EXCEPT ![s] = FALSE]
  /\ status' = [status EXCEPT ![s] = Cut]
  /\ UNCHANGED <<lvars, svars>>

-----------------------------------------------------------------------------
(* The life of the server                                                  *)

Stage(from, to) == run = from /\ run' = to

(* NewServer and Start up to the socket; a file left behind by an earlier  *)
(* run is removed first.                                                   *)
StartSocket ==
  /\ Stage("boot", "tcp")
  /\ \/ /\ conf.socket
        /\ sock' = "pending" /\ file' = TRUE
     \/ /\ conf.socket                  \* listening failed
        /\ file' = FALSE /\ UNCHANGED sock
     \/ /\ conf.socket                  \* the old file could not be removed
        /\ file /\ UNCHANGED <<sock, file>>
     \/ /\ ~conf.socket
        /\ UNCHANGED <<sock, file>>
  /\ UNCHANGED <<lvars, rvars, conf, tcp, reloader, ctx, errs>>

(* The rest of Start.  With certificates it cannot load it returns an      *)
(* error, and the program goes on without an API it knows of.              *)
StartTCP ==
  /\ run = "tcp"
  /\ \/ /\ conf.tls = "broken"
        /\ run' = "without"
        /\ UNCHANGED <<tcp, reloader>>
     \/ /\ conf.tls # "broken"
        /\ run' = "serving"
        /\ tcp' = "pending"
        /\ reloader' = (conf.tls = "reload")
  /\ UNCHANGED <<lvars, rvars, conf, sock, file, ctx, errs>>

(* The goroutines that serve: a port in use is only logged, and a server   *)
(* that was shut down before closes its listener.                          *)
ServeTCP ==
  /\ tcp = "pending"
  /\ tcp' \in {"open", "failed"}
  /\ UNCHANGED <<lvars, rvars, conf, run, sock, file, reloader, ctx, errs>>

ServeSocket ==
  /\ sock = "pending"
  /\ sock' = "open"
  /\ UNCHANGED <<lvars, rvars, conf, run, tcp, file, reloader, ctx, errs>>

(* performGracefulShutdown: the Manager first, with a context that both    *)
(* share.  If it reports an error the program exits on the spot.           *)
ShutDownManager ==
  /\ run \in {"serving", "without"}
  /\ run' = IF run = "serving" THEN "manager" ELSE "manager only"
  /\ ctx' = "live"
  /\ UNCHANGED <<lvars, rvars, conf, tcp, sock, file, reloader, errs>>

Expire ==
  /\ ctx = "live" /\ run \notin {"boot", "tcp", "exit"}
  /\ ctx' = "expired"
  /\ UNCHANGED <<lvars, rvars, conf, run, tcp, sock, file, reloader, errs>>

ManagerDown ==
  /\ \/ Stage("manager", "limiter")
     \/ Stage("manager", "exit")
     \/ Stage("manager only", "exit")
  /\ UNCHANGED <<lvars, rvars, conf, tcp, sock, file, reloader, ctx, errs>>

(* Stop: the limiter's goroutine and the certificates' ...                 *)
StopLimiter ==
  /\ run = "limiter"
  /\ StopCleaner
  /\ UNCHANGED <<svars, rvars>>

StopReloader ==
  /\ Stage("limiter", "close tcp")
  /\ cleaner = "off"
  /\ reloader' = FALSE
  /\ UNCHANGED <<lvars, rvars, conf, tcp, sock, file, ctx, errs>>

(* ... http.Server.Shutdown of the TCP server, which closes the listener   *)
(* and waits for the requests in flight or for the context ...             *)
CloseTCP ==
  /\ Stage("close tcp", "drain tcp")
  /\ tcp' = "closed"
  /\ UNCHANGED <<lvars, rvars, conf, sock, file, reloader, ctx, errs>>

Drained(via) == InFlight(via) = {}

DrainAny(via, failed) ==
  /\ errs' = errs \cup (IF ctx = "expired" THEN {failed} ELSE {})

DrainPatiently(via, failed) ==
  /\ Drained(via)
  /\ errs' = errs \cup (IF ctx = "expired" THEN {failed} ELSE {})

Drain(via, failed) ==
  \/ /\ Drained(via)
     /\ UNCHANGED errs
  \/ /\ ~Drained(via)
     /\ ctx = "expired"
     /\ errs' = errs \cup {failed}

DrainTCP ==
  /\ Stage("drain tcp", "close socket")
  /\ Drain("tcp", "TCP")
  /\ UNCHANGED <<lvars, rvars, conf, tcp, sock, file, reloader, ctx>>

(* ... and of the socket's server, if there is one; closing a listener      *)
(* that is served removes its file.                                        *)
CloseSocket ==
  /\ Stage("close socket", "drain socket")
  /\ sock' = IF sock = "off" THEN "off" ELSE "closed"
  /\ file' = (file /\ sock # "open")
  /\ UNCHANGED <<lvars, rvars, conf, tcp, reloader, ctx, errs>>

DrainSocket ==
  /\ Stage("drain socket", "file")
  /\ Drain("socket", "socket")
  /\ UNCHANGED <<lvars, rvars, conf, tcp, sock, file, reloader, ctx>>

(* The file goes last, also one that this server did not listen on.        *)
RemoveFile ==
  /\ Stage("file", "stopped")
  /\ \/ /\ conf.socket /\ file' = FALSE
     \/ /\ conf.socket /\ sock = "off" /\ file  \* it cannot be removed
        /\ UNCHANGED file
     \/ /\ ~conf.socket
        /\ UNCHANGED file
  /\ UNCHANGED <<lvars, rvars, conf, tcp, sock, reloader, ctx, errs>>

Exit ==
  /\ Stage("stopped", "exit")
  /\ UNCHANGED <<lvars, rvars, conf, tcp, sock, file, reloader, ctx, errs>>

(* The program has exited, with everything but the file, and is started    *)
(* again.                                                                  *)
Reboot ==
  /\ Stage("exit", "boot")
  /\ life + 1 < conf.boots
  /\ Renew
  /\ tcp' = "off" /\ sock' = "off" /\ reloader' = FALSE /\ ctx' = "none" /\ errs' = {}
  /\ way' = [s \in Slot |-> "free"]
  /\ req' = [s \in Slot |-> NoReq]
  /\ call' = [s \in Slot |-> NoCall]
  /\ result' = [s \in Slot |-> "none"]
  /\ slow' = [s \in Slot |-> FALSE]
  /\ status' = [s \in Slot |-> Cut]
  /\ UNCHANGED <<conf, file>>
-----------------------------------------------------------------------------
ApiInit ==
  /\ LimiterInit
  /\ conf \in Scenario
  /\ run = "boot"
  /\ tcp = "off" /\ sock = "off" /\ reloader = FALSE /\ ctx = "none" /\ errs = {}
  /\ file \in {FALSE, conf.socket}
  /\ way = [s \in Slot |-> "free"]
  /\ req = [s \in Slot |-> NoReq]
  /\ call = [s \in Slot |-> NoCall]
  /\ result = [s \in Slot |-> "none"]
  /\ slow = [s \in Slot |-> FALSE]
  /\ status = [s \in Slot |-> Cut]

(* What happens to the request in a slot, beside its coming and the call   *)
(* of the Manager.                                                         *)
Proceed(s) ==
  \/ Admit(s) \/ Ask(s) \/ Heed(s) \/ Stray(s) \/ Auth(s) \/ Handle(s) \/ Done(s)
  \/ (Lookup(s) \/ Insert(s) \/ Stamp(s) \/ Take(s)) /\ UNCHANGED <<svars, rvars>>

Serve == ServeTCP \/ ServeSocket

Stop ==
  \/ StopLimiter \/ StopReloader \/ CloseTCP \/ DrainTCP \/ CloseSocket \/ DrainSocket
  \/ RemoveFile
  \/ CleanerEnds /\ UNCHANGED <<svars, rvars>>

Halted == run = "exit"

ApiNext ==
  \/ Halted /\ Reboot
  \/ ~Halted /\
     \/ \E s \in Slot :
          \/ \E q \in Request[conf.sends] : Accept(s, q)
          \/ Proceed(s)
          \/ WriteTimeout(s)
          \/ \E r \in Results : Finish(s, r)
     \/ conf.time /\ (Tick \/ Cleanup) /\ UNCHANGED <<svars, rvars>>
     \/ StartSocket \/ StartTCP \/ Serve
     \/ conf.stops /\ ShutDownManager
     \/ Expire \/ ManagerDown \/ Stop \/ Exit

(* Goroutines run and timers fire.  Nothing is asked of the Manager, of    *)
(* clients, nor of whoever shuts the program down.                         *)
ApiFairness ==
  /\ \A s \in Slot : WF_apivars(~Halted /\ Proceed(s))
  /\ WF_apivars(~Halted /\ Stop)
  /\ WF_apivars(~Halted /\ Expire)

ApiSpec == ApiInit /\ [][ApiNext]_apivars
FairApi == ApiSpec /\ ApiFairness

-----------------------------------------------------------------------------
(* Properties                                                              *)

(* Every variable keeps its type.                                          *)
ApiTypeOK ==
  /\ LimiterTypeOK
  /\ conf \in Scenario
  /\ run \in {"boot", "tcp", "without", "serving", "manager", "manager only", "limiter",
              "close tcp", "drain tcp", "close socket", "drain socket", "file", "stopped", "exit"}
  /\ tcp \in {"off", "pending", "open", "failed", "closed"}
  /\ sock \in {"off", "pending", "open", "closed"}
  /\ file \in BOOLEAN /\ reloader \in BOOLEAN
  /\ ctx \in {"none", "live", "expired"}
  /\ errs \subseteq {"TCP", "socket"}
  /\ way \in [Slot -> Ways]
  /\ \A s \in Slot : (way[s] = "free") = (req[s] = NoReq)
  /\ \A s \in Slot : (result[s] # "none") => (call[s] # NoCall)
  /\ \A s \in Slot : (way[s] = "work") => call[s] # NoCall
  /\ slow \in [Slot -> BOOLEAN]
  /\ status \in [Slot -> {Cut, 200, 201, 202, 400, 401, 403, 404, 405, 429, 500, 503}]

Changes ==
  {"add", "update", "remove", "start", "stop", "restart", "scale", "adjust", "save", "reload",
   "schedule/pause", "schedule/resume", "trigger", "trigger sync"}

(* No caller whom a token or a working access list should keep out reaches *)
(* the Manager, and no GET changes anything, by whichever of the routes.   *)
(* An access list that does not parse ("broken") keeps nobody out, and no  *)
(* list is asked about the socket: both are the code's doing, and premises *)
(* here.                                                                   *)
CallsAreDue ==
  \A s \in Slot : call[s] # NoCall =>
    /\ conf.auth => req[s].token
    /\ req[s].via = "tcp" /\ conf.acl \in {"allow", "deny"} =>
         req[s].origin # "unreadable" /\ IsAllowed(req[s])
    /\ call[s] \in Changes => req[s].verb # "GET"

(* A client can trust its answer: 200 and 201 mean that the call it asked  *)
(* for, if any, has been made and has gone well, a refusal that none was   *)
(* made, and an error of the server that one was made and failed; only     *)
(* after a WriteTimeout it cannot know.  202 is the answer to a trigger    *)
(* alone and means that it was taken, not what becomes of the job: its     *)
(* context is the request's, which ends with the answer.                   *)
AnswersTell ==
  \A s \in Slot : way[s] = "answer" =>
    /\ status[s] \in {200, 201} => call[s] = NoCall \/ result[s] = "ok"
    /\ status[s] = 202 => call[s] = "trigger" /\ result[s] = "ok"
    /\ status[s] \in {400, 401, 403, 405, 429, 503} => call[s] = NoCall
    /\ status[s] = 500 => result[s] \in {"missing", "error", "panic"}
    /\ status[s] = Cut => slow[s]

(* Stop that reports no error for a server has waited for every request of *)
(* that server, also of those that came while it was stopping.             *)
CleanStopDrains ==
  run = "stopped" =>
    /\ "TCP" \notin errs => InFlight("tcp") = {}
    /\ "socket" \notin errs => InFlight("socket") = {}

(* The socket can be reached by its path as long as it is served, also     *)
(* when a run before this one left a file; a Stop leaves none.             *)
FileFollowsSocket ==
  /\ sock \in {"pending", "open"} => file
  /\ run = "stopped" /\ sock = "closed" => ~file

(* Stop comes to its end, even with a call of the Manager that does not.   *)
StopReturns == run = "limiter" ~> run = "stopped"

(* A request waits for nothing but the Manager: not for the limiter's      *)
(* locks, not for another request, not for Stop.                           *)
MovesOn ==
  \A s \in Slot : way[s] \notin {"free", "work"} ~> way[s] \in {"free", "work"} \/ Halted

(* Types, and nothing done that the settings forbid.                       *)
ApiConsistent == ApiTypeOK /\ CallsAreDue

(* Stop leaves no request and no socket file behind.                       *)
StopLeavesNothing == CleanStopDrains /\ FileFollowsSocket

(* Whatever the requests and the Manager do, server and requests go on.    *)
Proceeds == StopReturns /\ MovesOn
=============================================================================
