---- MODULE MCSocketLease ----
EXTENDS SocketLease, TLC
CONSTANTS i1, i2
Requests == {"refresh", "shutdown", "request"}
\* One request and no failure
OneRequest(i, k, h) == k \in Requests /\ \A j \in Kinds : h[j] = 0
\* One failure and one request ...
OneOfEach(i, k, h) == \A j \in IF k \in Requests THEN Requests ELSE Kinds \ Requests : h[j] = 0
\* ... and around the shutdown of i2 a second one: i1 waits after a refresh of the
\* session that the provider had closed, and its acquire fails; or that has failed,
\* and so does a refresh.
Standbys(i, k, h) ==
    /\ h[k] = 0
    /\ \/ /\ h["replaced"] = 1 /\ h["refresh"] = 1
          /\ (i = i2 /\ k = "shutdown") \/ (i = i1 /\ k = "acquire" /\ h["shutdown"] = 1)
       \/ /\ h["acquire"] = 1 /\ h["shutdown"] = 1
          /\ i = i1 /\ k \in {"refresh", "register"}
Mixed(i, k, h) == OneOfEach(i, k, h) \/ Standbys(i, k, h)
==============================
