-------------------------------- MODULE MCApi --------------------------------
(* TLC instances of Api: six situations, of which three vary the settings. *)
EXTENDS Api

Get == [via |-> "tcp", key |-> "c", path |-> "processes", named |-> FALSE, action |-> "",
        verb |-> "GET", body |-> "none", token |-> TRUE, origin |-> "listed"]
Health == [Get EXCEPT !.path = "health", !.token = FALSE]
Restart == [Get EXCEPT !.path = "process", !.named = TRUE, !.verb = "POST", !.action = "restart"]

Paths == {"health", "processes", "logs", "config/save", "config/reload", "metrics", "oneshot", "elsewhere"}
Verbs == {"GET", "POST", "PUT", "DELETE", "PATCH"}
Actions == {"", "logs", "schedule", "schedule/history", "restart", "stop", "start", "scale",
            "schedule/pause", "schedule/resume", "schedule/trigger", "other"}

Restarts == {Restart, [Restart EXCEPT !.via = "socket"]}
Routes ==
  {[Get EXCEPT !.path = p, !.verb = v, !.body = b] :
     p \in Paths, v \in Verbs, b \in {"none", "garbled", "process"}}
  \cup {[Restart EXCEPT !.named = n, !.action = a, !.verb = v] :
          n \in BOOLEAN, a \in Actions, v \in Verbs}
  \cup {[Restart EXCEPT !.action = a, !.verb = v, !.body = b] :
          a \in {"scale", "schedule/trigger"}, v \in {"POST", "PUT"},
          b \in {"garbled", "another field", "delta", "desired", "process", "sync"}}
Callers ==
  {[q EXCEPT !.via = v, !.token = t, !.origin = o] :
     q \in {Health, Get, Restart, [Get EXCEPT !.path = "elsewhere"]},
     v \in {"tcp", "socket"}, t \in BOOLEAN, o \in {"listed", "stranger", "unreadable"}}

Requests ==
  [x \in {"health", "two", "restarts", "routes", "callers"} |->
     CASE x = "health" -> {Health}
       [] x = "two" -> {Health, [Health EXCEPT !.key = "d"]}
       [] x = "restarts" -> Restarts
       [] x = "routes" -> Routes
       [] x = "callers" -> Callers]

Base == [acl |-> "off", auth |-> TRUE, socket |-> FALSE, tls |-> "off", collector |-> TRUE,
         sends |-> "health", slots |-> {1}, time |-> FALSE, stops |-> FALSE, boots |-> 1]

\* The limiter under two requests at once, of one client over time and of two.
Limited == [Base EXCEPT !.slots = {1, 2}, !.time = TRUE]
Shared == [Base EXCEPT !.sends = "two", !.slots = {1, 2}]
\* Every route.
Routed == {[Base EXCEPT !.sends = "routes", !.collector = c] : c \in BOOLEAN}
\* Who may do what: every setting, every kind of client.
Guarded == {[Base EXCEPT !.acl = a, !.auth = b, !.socket = TRUE, !.sends = "callers"] :
              a \in {"off", "allow", "deny", "broken"}, b \in BOOLEAN}
\* Start, Stop, and again, with requests on their way.
Stopping == {[Base EXCEPT !.tls = t, !.socket = b, !.stops = TRUE, !.boots = 2, !.sends = "restarts"] :
               t \in {"off", "broken", "reload"}, b \in BOOLEAN}
Crowded == [Base EXCEPT !.socket = TRUE, !.stops = TRUE, !.slots = {1, 2}, !.sends = "restarts"]

All == {Limited, Shared, Crowded} \cup Routed \cup Guarded \cup Stopping
=============================================================================
