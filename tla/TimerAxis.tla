----------------------------- MODULE TimerAxis ------------------------------
(***************************************************************************)
(* timer_axis: the timers of one thread.  A timer is an entry of           *)
(* timer_hash_map_ with a libevent event.  KillTimer only stops the event  *)
(* and marks the entry; the entry goes when the timer's own callback       *)
(* returns, and SetTimer on a marked entry uses it again.  Callbacks may   *)
(* set and kill any timer, their own too.                                  *)
(***************************************************************************)
EXTENDS Integers

CONSTANTS Keys,      \* sink and timer id
          Totals,    \* the total_times > 0 that are asked for
          MaxCalls,  \* bound: SetTimer and KillTimer calls in a behaviour
          MaxTimes,  \* bound: callbacks of a timer between two SetTimer
          NoKey

ASSUME TimerAssumption ==
    NoKey \notin Keys /\ Totals \subseteq Nat \ {0} /\ MaxCalls \in Nat /\ MaxTimes \in Nat

VARIABLES
    entry,    \* timer_hash_map_
    added,    \* the event of the timer is pending in libevent
    firing,   \* the timer whose callback runs, NoKey outside
    local,    \* OnTimer's variable times
    calls,    \* SetTimer and KillTimer calls so far
    asked,    \* history: total_times and data of the last SetTimer that
              \* returned 0, whether it reused a marked entry, and the
              \* callbacks since; none after KillTimer
    given     \* history: the data the running callback was given

timerVars == <<entry, added, firing, local, calls, asked, given>>

Forever == -1
Datas == {"null", "pointer", "bytes"}  \* nullptr; an object, len 0; len > 0

NoEntry == [on |-> FALSE]
Entry(total, times, removed, data) ==
    [on |-> TRUE, total |-> total, times |-> times, removed |-> removed, data |-> data]

NotAsked == [on |-> FALSE]
Asked(total, data, reused) ==
    [on |-> TRUE, total |-> total, data |-> data, reused |-> reused, ran |-> 0]

TimerInit ==
    /\ entry = [k \in Keys |-> NoEntry]
    /\ added = [k \in Keys |-> FALSE]
    /\ firing = NoKey
    /\ local = 0
    /\ calls = 0
    /\ asked = [k \in Keys |-> NotAsked]
    /\ given = "null"

TimerExist(k) == entry[k].on /\ ~entry[k].removed

\* FillAsyncData: only bytes are kept, otherwise what was there stays.
FillAsyncData(old, data) == IF data = "bytes" THEN data ELSE old

\* SetTimer that returns 0.
SetTimer(k, total, data) ==
    /\ calls < MaxCalls
    /\ ~TimerExist(k)
    /\ LET old == IF entry[k].on THEN entry[k] ELSE Entry(Forever, 0, TRUE, "null")
           kept == FillAsyncData(old.data, data)
       IN  entry' = [entry EXCEPT ![k] =
                        IF total > 0 THEN Entry(total, 0, FALSE, kept)
                        ELSE Entry(old.total, old.times, FALSE, kept)]
    /\ added' = [added EXCEPT ![k] = TRUE]
    /\ asked' = [asked EXCEPT ![k] = Asked(total, data, entry[k].on)]
    /\ calls' = calls + 1
    /\ UNCHANGED <<firing, local, given>>

\* SetTimer of a timer that exists: -1.
SetTimerFails(k) ==
    /\ calls < MaxCalls
    /\ TimerExist(k)
    /\ calls' = calls + 1
    /\ UNCHANGED <<entry, added, firing, local, asked, given>>

KillTimer(k) ==
    /\ calls < MaxCalls
    /\ entry[k].on
    /\ added' = [added EXCEPT ![k] = FALSE]
    /\ entry' = [entry EXCEPT ![k].removed = TRUE]
    /\ asked' = [asked EXCEPT ![k] = NotAsked]
    /\ calls' = calls + 1
    /\ UNCHANGED <<firing, local, given>>

\* The event is due: OnTimer counts and calls the sink.
Fire(k) ==
    /\ firing = NoKey
    /\ added[k]
    /\ entry[k].times < MaxTimes
    /\ entry' = [entry EXCEPT ![k].times = @ + 1]
    /\ local' = entry[k].times + 1
    /\ firing' = k
    /\ given' = entry[k].data
    /\ asked' = [asked EXCEPT ![k].ran = @ + 1]
    /\ UNCHANGED <<added, calls>>

\* Mutant: one callback too many.
GoneLater(k) == entry[k].removed \/ (entry[k].total > 0 /\ local > entry[k].total)

\* OnTimer after the callback: the entry goes if it is marked, or if this
\* callback, by the number it was given, was the last one.
Gone(k) == entry[k].removed \/ (entry[k].total > 0 /\ local >= entry[k].total)

\* RemoveTimer frees the event and the entry.
Returned ==
    /\ firing # NoKey
    /\ IF Gone(firing)
       THEN /\ entry' = [entry EXCEPT ![firing] = NoEntry]
            /\ added' = [added EXCEPT ![firing] = FALSE]
       ELSE UNCHANGED <<entry, added>>
    /\ firing' = NoKey
    /\ UNCHANGED <<local, calls, asked, given>>

\* Finalize: every event is freed.
Finalize ==
    /\ firing = NoKey
    /\ entry' = [k \in Keys |-> NoEntry]
    /\ added' = [k \in Keys |-> FALSE]
    /\ asked' = [k \in Keys |-> NotAsked]
    /\ UNCHANGED <<firing, local, calls, given>>

TimerNext ==
    \/ \E k \in Keys, t \in Totals \cup {Forever}, d \in Datas : SetTimer(k, t, d)
    \/ \E k \in Keys : SetTimerFails(k) \/ KillTimer(k)
    \/ \E k \in Keys : Fire(k)
    \/ Returned
    \/ Finalize

TimerSpec == TimerInit /\ [][TimerNext]_timerVars

-----------------------------------------------------------------------------
\* Types of TimerAxis' map of timers and of the running callback.
TimerTypeOK ==
    /\ \A k \in Keys : entry[k] = NoEntry \/ entry[k] \in
         [on : {TRUE}, total : Totals \cup {Forever}, times : Nat,
          removed : BOOLEAN, data : Datas]
    /\ added \in [Keys -> BOOLEAN]
    /\ firing \in Keys \cup {NoKey}
    /\ local \in Nat
    /\ given \in Datas

\* TimerExist answers whether the timer will fire: killed and re-set in any
\* order, inside callbacks or outside, an entry counts as existing exactly
\* when its event is pending.
ExistsIffPending ==
    TimerTypeOK /\ \A k \in Keys : TimerExist(k) = added[k]

\* A timer never fires more often than its last SetTimer asked for, and never
\* after KillTimer.
NeverTooOften ==
    \A k \in Keys :
        /\ added[k] => asked[k].on
        /\ asked[k].on /\ asked[k].total > 0 => asked[k].ran <= asked[k].total

\* A timer that SetTimer accepted goes on until it has fired total_times times
\* (for ever, for -1) or is killed, whatever other callbacks do.  (One that
\* reuses a marked entry inherits the old count, see README.md.)
RunsAsAsked ==
    \A k \in Keys :
        (asked[k].on /\ ~asked[k].reused /\ firing = NoKey /\ ~added[k])
            => asked[k].total > 0 /\ asked[k].ran = asked[k].total

\* The callback gets the bytes given to SetTimer.  (An object pointer with len
\* 0 is dropped, see README.md.)
DataDelivered ==
    firing # NoKey /\ asked[firing].on /\ asked[firing].ran > 0
        /\ asked[firing].data = "bytes" => given = "bytes"

\* A timer is pending exactly while it exists, runs as often as it was asked
\* to and gets its data, however it was set, killed and set again.
TimersAsAsked == ExistsIffPending /\ NeverTooOften /\ RunsAsAsked /\ DataDelivered
=============================================================================
