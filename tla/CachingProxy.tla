--------------------------- MODULE CachingProxy ----------------------------
(***************************************************************************)
(* What the proxy promises with its cache, without SQL, flags or program   *)
(* counters.  The cache is a set of entries per key.  A request looks at   *)
(* it once, atomically: it finds nothing, or one entry.  An entry that has *)
(* not expired is the reply; otherwise a response is fetched, saved in one *)
(* step and replied.  Requests overlap freely and may be given up; a crash *)
(* ends them all and keeps the cache.  A response may be foreign: read from *)
(* a connection that is not the request's own.  And what requests and      *)
(* responses say may damage the cache; from then on nothing is promised.   *)
(* Module OnConnectRefines shows that onConnect, with its several queries  *)
(* per request, implements this.                                           *)
(***************************************************************************)
EXTENDS Integers

CONSTANTS
  Threads, Keys, Foreign, Expires, Bodies,
  Unquoted,   \* the body a saved body is read back as
  NoDate,     \* an expiry that is no date: both fresh and expired
  MaxTime,
  MayLose     \* may a save fail unnoticed?

Resps == [key : Keys \cup {Foreign}, expires : Expires, body : Bodies]
NoResp == [key |-> "none"]
NoEntry == [expire |-> "none"]

VARIABLES
  cache,    \* the entries of each key
  now,
  phase,    \* of the request of each thread
  want,     \* its key
  shown,    \* the entry it found
  reply,    \* the response it will be answered with
  intact    \* the cache is not damaged

vars == <<cache, now, phase, want, shown, reply, intact>>

Init ==
  /\ cache = [k \in Keys |-> {}]
  /\ now = 0
  /\ phase = [t \in Threads |-> "idle"]
  /\ want = [t \in Threads |-> "none"]
  /\ shown = [t \in Threads |-> NoEntry]
  /\ reply = [t \in Threads |-> NoResp]
  /\ intact = TRUE

Move(t, from, to) ==
  /\ phase[t] = from
  /\ phase' = [phase EXCEPT ![t] = to]
  /\ UNCHANGED <<now, intact>>

Ask(t, k) ==
  /\ Move(t, "idle", "asked")
  /\ want' = [want EXCEPT ![t] = k]
  /\ UNCHANGED <<cache, shown, reply>>

\* The cache has nothing for the key: the request will fill it.
Miss(t) ==
  /\ Move(t, "asked", "fill")
  /\ cache[want[t]] = {}
  /\ UNCHANGED <<cache, want, shown, reply>>

\* The cache has something for the key: one entry, as it is now.
Look(t) ==
  /\ Move(t, "asked", "shown")
  /\ \E e \in cache[want[t]] : shown' = [shown EXCEPT ![t] = e]
  /\ UNCHANGED <<cache, want, reply>>

Hit(t) ==
  /\ Move(t, "shown", "reply")
  /\ shown[t].expire # NoDate => shown[t].expire >= now
  /\ reply' = [reply EXCEPT ![t] = shown[t].resp]
  /\ shown' = [shown EXCEPT ![t] = NoEntry]
  /\ UNCHANGED <<cache, want>>

Expired(t) ==
  /\ Move(t, "shown", "refresh")
  /\ shown[t].expire # NoDate => shown[t].expire < now
  /\ shown' = [shown EXCEPT ![t] = NoEntry]
  /\ UNCHANGED <<cache, want, reply>>

Fetch(t, r) ==
  /\ Move(t, "fill", "fetched") \/ Move(t, "refresh", "refetched")
  /\ r.key \in {want[t], Foreign}
  /\ reply' = [reply EXCEPT ![t] = r]
  /\ UNCHANGED <<cache, want, shown>>

EntryOf(r) == [expire |-> r.expires, resp |-> [r EXCEPT !.body = Unquoted[r.body]]]

\* A filling request adds its entry to what others have added since; a
\* refreshing one replaces whatever the key has.
Save(t) ==
  /\ \/ /\ Move(t, "fetched", "reply")
        /\ cache' = [cache EXCEPT ![want[t]] = @ \cup {EntryOf(reply[t])}]
     \/ /\ Move(t, "refetched", "reply")
        /\ cache' = [cache EXCEPT ![want[t]] = {EntryOf(reply[t])}]
  /\ UNCHANGED <<want, shown, reply>>

LoseSave(t) ==
  /\ MayLose
  /\ Move(t, "fetched", "reply") \/ Move(t, "refetched", "reply")
  /\ UNCHANGED <<cache, want, shown, reply>>

Forget(t) ==
  /\ want' = [want EXCEPT ![t] = "none"]
  /\ shown' = [shown EXCEPT ![t] = NoEntry]
  /\ reply' = [reply EXCEPT ![t] = NoResp]

Reply(t) ==
  /\ Move(t, "reply", "idle")
  /\ Forget(t)
  /\ UNCHANGED cache

\* The origin did not answer: the client gets an error or no answer.
GiveUp(t) ==
  /\ Move(t, "fill", "idle") \/ Move(t, "refresh", "idle")
  /\ Forget(t)
  /\ UNCHANGED cache

Tick ==
  /\ now < MaxTime
  /\ now' = now + 1
  /\ UNCHANGED <<cache, phase, want, shown, reply, intact>>

Crash ==
  /\ phase' = [t \in Threads |-> "idle"]
  /\ want' = [t \in Threads |-> "none"]
  /\ shown' = [t \in Threads |-> NoEntry]
  /\ reply' = [t \in Threads |-> NoResp]
  /\ UNCHANGED <<cache, now, intact>>

\* What may happen when no save is lost.
Steps ==
  \/ \E t \in Threads :
       \/ \E k \in Keys : Ask(t, k)
       \/ Miss(t)
       \/ Look(t)
       \/ Hit(t)
       \/ Expired(t)
       \/ \E r \in Resps : Fetch(t, r)
       \/ Save(t)
       \/ Reply(t)
       \/ GiveUp(t)
  \/ Tick
  \/ Crash

\* The cache is, or was, damaged: anything may happen.
Damage == intact' = FALSE

Next == Damage \/ Steps \/ \E t \in Threads : LoseSave(t)

Spec == Init /\ [][Next]_vars

\* As long as nothing is damaged, every response that is fetched and replied was
\* saved.
SureSpec == Init /\ [][Damage \/ Steps]_vars
=============================================================================
