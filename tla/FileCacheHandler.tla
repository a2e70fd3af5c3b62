-------------------------- MODULE FileCacheHandler --------------------------
(***************************************************************************)
(* The coordinator's /file handler (pkg/filecache/handler.go) for one file *)
(* ID: concurrent PUT requests (client uploads) and GET requests (worker   *)
(* downloads) on the coordinator's file cache. IDs are independent, so one *)
(* suffices.                                                               *)
(*                                                                         *)
(* PUT takes the per-ID KeyLocker lock (a channel of capacity 1), then     *)
(* Write; on ErrExists it Removes the entry and writes again; it copies    *)
(* the body, Close commits, and the deferred Unlock releases the key.      *)
(* GET goes through a singleflight group: the first caller runs Get, copy  *)
(* to its own ResponseWriter and unlock; callers arriving meanwhile wait   *)
(* and share its error result.                                             *)
(***************************************************************************)
EXTENDS ContentCache

CONSTANTS
    Putters,    \* PUT requests for the ID
    Getters,    \* GET requests for the ID
    FileID,
    NoOne

ASSUME Putters \cap Getters = {} /\ NoOne \notin Putters \cup Getters

Requests == Putters \cup Getters

VARIABLES
    store,      \* the coordinator's file cache, for FileID
    keyHolder,  \* the putter whose value sits in the KeyLocker channel
    flight,     \* the GET running the singleflight call, or NoOne
    followers,  \* GETs waiting for that call
    pc,         \* where each request handler is
    status,     \* the HTTP status written: 0 until the handler answers
    body,       \* what a GET's response body holds
    putErr      \* the error behind a PUT's 500

vars == <<store, keyHolder, flight, followers, pc, status, body, putErr>>

\* The file was never uploaded, or an earlier build uploaded it.
Init ==
    /\ store \in {[i \in {FileID} |-> e] : e \in {Absent, Present}}
    /\ keyHolder = NoOne
    /\ flight = NoOne
    /\ followers = {}
    /\ pc = [r \in Requests |-> IF r \in Putters THEN "lock" ELSE "do"]
    /\ status = [r \in Requests |-> 0]
    /\ body = [g \in Getters |-> "none"]
    /\ putErr = [p \in Putters |-> "none"]

Goto(r, where) == pc' = [pc EXCEPT ![r] = where]

\* http.Error(w, ..., 500) after the named error; the deferred Unlock follows.
PutFails(p, why) ==
    /\ status' = [status EXCEPT ![p] = 500]
    /\ putErr' = [putErr EXCEPT ![p] = why]
    /\ Goto(p, "unlock")

-----------------------------------------------------------------------------
(* handlePut                                                               *)

\* Mutant: the key lock does not wait for the channel to be free.
PutLockNoWait(p) ==
    /\ pc[p] = "lock"
    /\ keyHolder' = p
    /\ Goto(p, "write")
    /\ UNCHANGED <<store, flight, followers, status, body, putErr>>

\* h.lock.Lock(fileID): the send blocks while another PUT holds the key.
PutLock(p) ==
    /\ pc[p] = "lock"
    /\ keyHolder = NoOne
    /\ keyHolder' = p
    /\ Goto(p, "write")
    /\ UNCHANGED <<store, flight, followers, status, body, putErr>>

\* start: h.cache.Write(fileID).
PutWrite(p) ==
    /\ pc[p] = "write"
    /\ LET e == CreateError(store, FileID)
       IN CASE e = "none"      -> /\ store' = CreateLock(store, FileID)
                                  /\ Goto(p, "copy")
                                  /\ UNCHANGED <<status, putErr>>
            [] e = "ErrExists" -> /\ Goto(p, "remove")
                                  /\ UNCHANGED <<store, status, putErr>>
            [] OTHER           -> /\ PutFails(p, e)
                                  /\ UNCHANGED store
    /\ UNCHANGED <<keyHolder, flight, followers, body>>

\* h.cache.Remove(fileID), then goto start; ErrReadLocked is a 500.
PutRemove(p) ==
    /\ pc[p] = "remove"
    /\ IF CanRemove(store, FileID)
       THEN /\ store' = RemoveEntry(store, FileID)
            /\ Goto(p, "write")
            /\ UNCHANGED <<status, putErr>>
       ELSE /\ PutFails(p, "ErrReadLocked")
            /\ UNCHANGED store
    /\ UNCHANGED <<keyHolder, flight, followers, body>>

\* io.Copy of the request body, then writer.Close() commits: 200.
PutClose(p) ==
    /\ pc[p] = "copy"
    /\ store' = Commit(store, FileID)
    /\ status' = [status EXCEPT ![p] = 200]
    /\ Goto(p, "unlock")
    /\ UNCHANGED <<keyHolder, flight, followers, body, putErr>>

\* Reading the request body fails: the deferred abort() discards the write.
PutBodyFails(p) ==
    /\ pc[p] = "copy"
    /\ store' = Abort(store, FileID)
    /\ PutFails(p, "body")
    /\ UNCHANGED <<keyHolder, flight, followers, body>>

\* Mutant: Unlock returns early, leaving the channel full.
PutUnlockLeaks(p) ==
    /\ pc[p] = "unlock"
    /\ Goto(p, "done")
    /\ UNCHANGED <<store, keyHolder, flight, followers, status, body, putErr>>

\* The deferred h.lock.Unlock(fileID) receives from the channel.
PutUnlock(p) ==
    /\ pc[p] = "unlock"
    /\ keyHolder' = NoOne
    /\ Goto(p, "done")
    /\ UNCHANGED <<store, flight, followers, status, body, putErr>>

-----------------------------------------------------------------------------
(* handleGet                                                               *)

\* h.flight.Do: the first caller runs the function; later ones wait for it.
GetDo(g) ==
    /\ pc[g] = "do"
    /\ IF flight = NoOne
       THEN /\ flight' = g
            /\ Goto(g, "get")
            /\ UNCHANGED followers
       ELSE /\ followers' = followers \cup {g}
            /\ Goto(g, "wait")
            /\ UNCHANGED flight
    /\ UNCHANGED <<store, keyHolder, status, body, putErr>>

(* The call returns: Do forgets it and hands its result to every waiter.   *)
(* Only the leader's ResponseWriter received the file; with a nil error    *)
(* the others write nothing and answer 200 with an empty body. A non-nil  *)
(* error is a 500 for all of them.                                         *)
FlightDone(g, ok) ==
    LET sharers == followers \cup {g}
    IN /\ flight' = NoOne
       /\ followers' = {}
       /\ pc' = [r \in Requests |-> IF r \in sharers THEN "done" ELSE pc[r]]
       /\ status' = [r \in Requests |->
                       IF r \in sharers THEN (IF ok THEN 200 ELSE 500)
                       ELSE status[r]]
       /\ body' = [r \in Getters |->
                     IF r = g /\ ok THEN "full"
                     ELSE IF r \in followers /\ ok THEN "empty"
                     ELSE body[r]]

\* h.cache.Get(fileID): ErrNotFound, or ErrWriteLocked during an upload,
\* ends the call with an error.
GetRead(g) ==
    /\ pc[g] = "get"
    /\ IF CanGet(store, FileID)
       THEN /\ store' = GetLock(store, FileID)
            /\ Goto(g, "send")
            /\ UNCHANGED <<flight, followers, status, body>>
       ELSE /\ FlightDone(g, FALSE)
            /\ UNCHANGED store
    /\ UNCHANGED <<keyHolder, putErr>>

\* os.Open, io.Copy to the leader's writer, then the deferred unlock.
GetSend(g) ==
    /\ pc[g] = "send"
    /\ store' = Unlock(store, FileID)
    /\ FlightDone(g, TRUE)
    /\ UNCHANGED <<keyHolder, putErr>>

-----------------------------------------------------------------------------

Next ==
    \/ \E p \in Putters :
           \/ PutLock(p) \/ PutWrite(p) \/ PutRemove(p) \/ PutClose(p)
           \/ PutBodyFails(p) \/ PutUnlock(p)
    \/ \E g \in Getters : GetDo(g) \/ GetRead(g) \/ GetSend(g)

\* Every request goroutine the server runs is eventually scheduled.
Fairness ==
    /\ \A p \in Putters :
           WF_vars(PutLock(p) \/ PutWrite(p) \/ PutRemove(p) \/ PutClose(p)
                   \/ PutBodyFails(p) \/ PutUnlock(p))
    /\ \A g \in Getters : WF_vars(GetDo(g) \/ GetRead(g) \/ GetSend(g))

Spec == Init /\ [][Next]_vars /\ Fairness

-----------------------------------------------------------------------------

(***************************************************************************)
(* Concurrent uploads of one ID are serialized by the key lock: no PUT    *)
(* ever meets another PUT's active write (ErrWriteLocked), so a PUT fails *)
(* only because of a reader or its own body.                               *)
(***************************************************************************)
UploadsSerialized == \A p \in Putters : putErr[p] # "ErrWriteLocked"

(***************************************************************************)
(* Every PUT and GET request is eventually answered: no handler waits for *)
(* the key lock or for a singleflight call forever.                        *)
(***************************************************************************)
AllAnswered == <>(\A r \in Requests : pc[r] = "done")

(***************************************************************************)
(* A GET answered 200 carries the file's content (what a worker's         *)
(* Client.Download commits into its cache).                                *)
(***************************************************************************)
GetsServeContent == \A g \in Getters : status[g] = 200 => body[g] = "full"

=============================================================================
