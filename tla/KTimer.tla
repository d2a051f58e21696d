------------------------------- MODULE KTimer -------------------------------
(***************************************************************************)
(* The software timers of k_timer.c and the timer interrupt int20h_handler *)
(* of interrupt_handlers.c.                                                *)
(*                                                                         *)
(* Armed timers are linked, by deadline, into the list that starts at      *)
(* g_timer_control.next.  The counter tick and the deadlines have the      *)
(* width of an unsigned long: they are taken modulo W.  The handler runs   *)
(* with interrupts off.  k_timer_alloc runs with interrupts on, and so     *)
(* does k_set_timer_time until its cli(): ticks, and calls of other tasks, *)
(* come between their steps.                                               *)
(*                                                                         *)
(* Nothing in k_timer.c keeps two tasks from being given the same timer,   *)
(* or a task from arming or freeing one that is armed.  The history        *)
(* misused says that this has happened.  The model goes on as the code     *)
(* does, with timers that are linked twice and loops that do not end; the  *)
(* properties are about the behaviours before it.                          *)
(***************************************************************************)
EXTENDS Integers, FiniteSets

CONSTANTS
  T,         \* number of timers (MAX_TIMERS)
  Task,      \* the tasks that use timers
  W,         \* tick and deadlines are taken modulo W (2^32)
  Delays,    \* the timeouts tasks ask for
  Quantum,   \* the timeout of the switch timer (1000 ticks)
  Nil,       \* the null pointer
  MaxTickMisused  \* bound: behaviours with a misused timer end at this tick

ASSUME TAssumption == T \in Nat \ {0}
ASSUME WAssumption == W \in Nat /\ Quantum < W /\ \A d \in Delays : d < W
ASSUME DelayAssumption == Delays \subseteq Nat /\ Quantum \in Nat \ {0}
ASSUME NilAssumption == Nil \notin Int
ASSUME MaxTickAssumption == MaxTickMisused \in Nat

VARIABLES
  tick,      \* g_timer_control.tick
  head,      \* g_timer_control.next
  next,      \* [Timer -> Timer or Nil]: the field next of each timer
  timeout,   \* [Timer -> 0 .. W - 1]
  flags,     \* [Timer -> Flags]
  call,      \* [Task -> where the task is in a call of k_timer.c]
  hung,      \* k_set_timer_time follows a list without end, interrupts off
  misused,   \* history: a timer was given to two tasks, or an armed one was
             \* armed again or freed
  left,      \* history: [Timer -> Nat], ticks until the timer is really due
  wrapped,   \* history: the tick or a deadline went past the width
  lost       \* history: the last tick found no memory for an event

timers  == <<head, next, timeout, flags>>
history == <<left, wrapped, lost>>
vars    == <<tick, timers, call, hung, misused, history>>

Timer == 0 .. T - 1
Switch == 0                 \* g_task_switch_timer, the first one allocated
Pointer == Timer \cup {Nil}

\* 0, TIMER_ALLOC, TIMER_USING and the two together.
Flags == {"free", "alloc", "using", "both"}

\* v | TIMER_ALLOC
WithAlloc(v) == IF v \in {"free", "alloc"} THEN "alloc" ELSE "both"

\* The steps of the calls.  A task in k_timer_alloc is in front of the test of
\* the flags of timer t, or of the load, or of the store of flags |= TIMER_ALLOC,
\* with the flags v it has loaded; one in k_set_timer_time of t is in front of
\* the cli().
Calls == [at : {"idle", "test", "load", "store", "insert"}, timer : Timer, flags : Flags]
In(place, t) == [at |-> place, timer |-> t, flags |-> "free"]
Idle == In("idle", Switch)

-----------------------------------------------------------------------------
(* The list.                                                               *)

\* The pointers met when the list is followed from h, Nil from its end on.
Chain(h, nx) ==
  LET c[k \in 0 .. T + 1] ==
        IF k = 0 THEN h ELSE IF c[k - 1] = Nil THEN Nil ELSE nx[c[k - 1]]
  IN  c

\* The position at which a loop over the list stops: its end, or a timer that
\* passes the test.  On a list that runs into itself there may be none.
Stops(c, k, Test(_)) ==
  /\ c[k] = Nil \/ Test(c[k])
  /\ \A i \in 0 .. k - 1 : c[i] # Nil /\ ~Test(c[i])

\* Where timer t belongs: in front of the first timer that is not due earlier.
HasPlace(c, due, t) == \E k \in 0 .. T + 1 : Stops(c, k, LAMBDA u : due[u] >= due[t])
Place(c, due, t) == CHOOSE k \in 0 .. T + 1 : Stops(c, k, LAMBDA u : due[u] >= due[t])

\* Deviation of LinkAt: the timer that follows is forgotten.
LinkLosing(k, c, nx, t) ==
  [head |-> IF k = 0 THEN t ELSE c[0],
   next |-> IF k = 0 THEN [nx EXCEPT ![t] = c[k]] ELSE [nx EXCEPT ![c[k - 1]] = t]]

\* Link timer t in at position k of the list.
LinkAt(k, c, nx, t) ==
  [head |-> IF k = 0 THEN t ELSE c[0],
   next |-> IF k = 0 THEN [nx EXCEPT ![t] = c[k]]
                     ELSE [nx EXCEPT ![t] = c[k], ![c[k - 1]] = t]]

\* The body of k_set_timer_time after cli(), when its loop ends.
Insert(h, nx, due, t) ==
  LET c == Chain(h, nx) IN LinkAt(Place(c, due, t), c, nx, t)

\* The body of k_set_timer_time after cli().
Link(h, nx, due, t) ==
  IF HasPlace(Chain(h, nx), due, t)
  THEN LET l == Insert(h, nx, due, t) IN head' = l.head /\ next' = l.next /\ hung' = FALSE
  ELSE head' = h /\ next' = nx /\ hung' = TRUE

\* The timers in the order in which the handler meets them: it clears the field
\* next of each that it takes off, so that none follows one met for the second
\* time.
Unlinked(c) ==
  [k \in 0 .. T + 1 |->
     IF \E i, j \in 0 .. k - 1 : i < j /\ c[i] = c[j] THEN Nil ELSE c[k]]

-----------------------------------------------------------------------------
\* After initial_pit.
Init ==
  /\ tick = 0 /\ head = Nil
  /\ next = [t \in Timer |-> Nil]
  /\ timeout = [t \in Timer |-> 0]
  /\ flags = [t \in Timer |-> "free"]
  /\ call = [p \in Task |-> Idle]
  /\ hung = FALSE /\ misused = FALSE
  /\ left = [t \in Timer |-> 0]
  /\ wrapped = FALSE /\ lost = FALSE

Booted == flags[Switch] # "free"

\* The end of initial_tasks, interrupts off: the switch timer is allocated,
\* given its callback and armed.
StartSwitchTimer ==
  /\ ~Booted
  /\ flags' = [flags EXCEPT ![Switch] = "using"]
  /\ timeout' = [timeout EXCEPT ![Switch] = (Quantum + tick) % W]
  /\ left' = [left EXCEPT ![Switch] = Quantum]
  /\ wrapped' = (wrapped \/ Quantum + tick >= W)
  /\ Link(head, next, timeout', Switch)
  /\ UNCHANGED <<tick, call, misused, lost>>

\* k_timer_alloc: flags == 0?  If not, the loop goes on, from the first timer to
\* the last, or returns 0.
AllocTest(p, t) ==
  /\ Booted
  /\ (call[p] = Idle /\ t = 0) \/ call[p] = In("test", t)
  /\ call' = [call EXCEPT ![p] = IF flags[t] = "free" THEN In("load", t)
                                 ELSE IF t + 1 < T THEN In("test", t + 1) ELSE Idle]
  /\ UNCHANGED <<tick, timers, hung, misused, history>>

\* The flags are loaded for flags |= TIMER_ALLOC.
AllocLoad(p) ==
  LET t == call[p].timer
  IN  /\ call[p].at = "load"
      /\ call' = [call EXCEPT ![p] = [at |-> "store", timer |-> t, flags |-> flags[t]]]
      /\ misused' = (misused \/ flags[t] # "free")
      /\ UNCHANGED <<tick, timers, hung, history>>

\* They are stored, and k_timer_alloc returns the timer.
AllocStore(p) ==
  LET t == call[p].timer
  IN  /\ call[p].at = "store"
      /\ flags' = [flags EXCEPT ![t] = WithAlloc(call[p].flags)]
      /\ call' = [call EXCEPT ![p] = Idle]
      /\ misused' = (misused \/ flags[t] # "free")
      /\ UNCHANGED <<tick, head, next, timeout, hung, history>>

\* k_timer_free looks at nothing but the range of its argument.
TimerFree(p, t) ==
  /\ Booted /\ call[p] = Idle /\ t # Switch
  /\ flags' = [flags EXCEPT ![t] = "free"]
  /\ misused' = (misused \/ flags[t] = "using")
  /\ UNCHANGED <<tick, head, next, timeout, call, hung, history>>

\* k_set_timer_time up to cli(): the deadline, then the flags, whatever they
\* were.
SetStore(p, t, d) ==
  /\ Booted /\ call[p] = Idle /\ t # Switch
  /\ timeout' = [timeout EXCEPT ![t] = (d + tick) % W]
  /\ flags' = [flags EXCEPT ![t] = "using"]
  /\ call' = [call EXCEPT ![p] = In("insert", t)]
  /\ misused' = (misused \/ flags[t] = "using")
  /\ left' = [left EXCEPT ![t] = d]
  /\ wrapped' = (wrapped \/ d + tick >= W)
  /\ UNCHANGED <<tick, head, next, hung, lost>>

\* k_set_timer_time from cli() on.
SetInsert(p) ==
  /\ call[p].at = "insert"
  /\ call' = [call EXCEPT ![p] = Idle]
  /\ Link(head, next, timeout, call[p].timer)
  /\ UNCHANGED <<tick, timeout, flags, misused, history>>

\* Deviation of Expired: a timer is taken off one tick after its deadline.
ExpiredLate(c, now) ==
  CHOOSE k \in 0 .. T + 1 : Stops(c, k, LAMBDA u : timeout[u] >= now)

\* How many timers at the front of the list have reached their deadline.
Expired(c, now) == CHOOSE k \in 0 .. T + 1 : Stops(c, k, LAMBDA u : timeout[u] > now)

\* How many of e expired timers the handler takes off before it stops: all,
\* or up to the first for which k_malloc finds no memory.  The switch timer
\* needs none.
Popped(c, e) == {e} \cup {m \in 1 .. e : c[m - 1] # Switch}

\* Deviation of SwitchRearms: switch_task leaves its timer alone.
SwitchIgnores(h, nx, now, fired) ==
  /\ head' = h /\ next' = nx /\ hung' = FALSE
  /\ flags' = [t \in Timer |-> IF t \in fired THEN "alloc" ELSE flags[t]]
  /\ wrapped' = (wrapped \/ now = 0)
  /\ UNCHANGED timeout

\* The end of int20h_handler: when the switch timer is among the timers that
\* fired, switch_task arms it again.
SwitchRearms(h, nx, now, fired) ==
  /\ flags' = [t \in Timer |-> IF t \in fired \ {Switch} THEN "alloc" ELSE flags[t]]
  /\ IF Switch \in fired
     THEN /\ timeout' = [timeout EXCEPT ![Switch] = (Quantum + now) % W]
          /\ wrapped' = (wrapped \/ now = 0 \/ Quantum + now >= W)
          /\ Link(h, nx, timeout', Switch)
     ELSE /\ head' = h /\ next' = nx /\ hung' = FALSE
          /\ wrapped' = (wrapped \/ now = 0) /\ UNCHANGED timeout

\* int20h_handler.  The event of each timer that fires goes to the queue of
\* the current task, which is the module Kernel's business.
Tick ==
  LET now == (tick + 1) % W
      c   == Unlinked(Chain(head, next))
      e   == Expired(c, now)
  IN  /\ Booted
      /\ tick' = now
      /\ \E m \in Popped(c, e) :
           LET fired == {c[i] : i \in 0 .. m - 1}
           IN  /\ SwitchRearms(c[m], [t \in Timer |-> IF t \in fired THEN Nil ELSE next[t]],
                               now, fired)
               /\ left' = [t \in Timer |->
                             IF t = Switch /\ t \in fired THEN Quantum
                             ELSE IF left[t] > 0 THEN left[t] - 1 ELSE 0]
               /\ lost' \in IF m = e THEN {FALSE} \cup {m > 0 /\ c[m - 1] # Switch} ELSE {TRUE}
      /\ UNCHANGED <<call, misused>>

\* Bound: behaviours in which a timer is misused are followed up to this tick.
InBound == misused => tick <= MaxTickMisused /\ ~wrapped

Next ==
  \/ /\ ~hung
     /\ \/ StartSwitchTimer
        \/ \E p \in Task : AllocLoad(p) \/ AllocStore(p) \/ SetInsert(p)
        \/ \E p \in Task, t \in Timer : AllocTest(p, t) \/ TimerFree(p, t)
        \/ \E p \in Task, t \in Timer, d \in Delays : SetStore(p, t, d)
        \/ Tick
     /\ InBound'
  \/ (hung \/ misused) /\ UNCHANGED vars

\* The programmable interval timer keeps ticking.
Spec == Init /\ [][Next]_vars /\ WF_vars(Tick)

-----------------------------------------------------------------------------
(* Properties.                                                             *)

\* The timers whose k_set_timer_time is still in front of its cli().
Arming == {call[p].timer : p \in {q \in Task : call[q].at = "insert"}}

\* The timers that should be on the list.
Armed == {t \in Timer : flags[t] = "using"} \ Arming

\* The timers met on the list.
Listed == {Chain(head, next)[k] : k \in 0 .. T + 1} \ {Nil}

\* Type invariant of the timer control block, the calls and the histories.
TypeOK ==
  /\ tick \in 0 .. W - 1
  /\ head \in Pointer /\ next \in [Timer -> Pointer]
  /\ timeout \in [Timer -> 0 .. W - 1]
  /\ flags \in [Timer -> Flags]
  /\ call \in [Task -> Calls]
  /\ hung \in BOOLEAN /\ misused \in BOOLEAN
  /\ left \in [Timer -> Nat]
  /\ wrapped \in BOOLEAN /\ lost \in BOOLEAN

\* As long as no timer was given to two tasks and none was armed or freed while
\* it was armed, the list ends, and the timers on it are exactly those whose
\* flags say TIMER_USING and whose k_set_timer_time has come past its cli(); no
\* other timer has a successor.  The counter may wrap as often as it likes
\* (k_timer.c:39-44, interrupt_handlers.c:45-49).
ListHoldsArmedTimers ==
  ~misused =>
    /\ Chain(head, next)[T] = Nil
    /\ Listed = Armed
    /\ \A t \in Timer \ Listed : next[t] = Nil

\* As long as no timer was misused, and until the counter overflows, a timer
\* never fires early, and a tick that does not run out of memory leaves no timer
\* on the list that is due: a timer that is expired when it is inserted waits
\* for the next tick (interrupt_handlers.c:39-69).
FiresOnTime ==
  [][tick' # tick /\ ~wrapped' /\ ~misused =>
       /\ \A t \in Listed \ {Switch} : flags'[t] = "alloc" => left[t] <= 1
       /\ ~lost' => \A t \in Listed \ {Switch} : left[t] <= 1 => flags'[t] = "alloc"]_vars

\* As long as no timer was misused, the switch timer is armed at every moment
\* after the boot, also when the handler leaves its loop for want of memory
\* before or after it met the switch timer (interrupt_handlers.c:53-73).
SwitchTimerStaysArmed == Booted /\ ~misused => Switch \in Listed

\* If no timer is ever misused, and unless ticks run out of memory for ever, an
\* armed timer fires, whatever wraps (k_timer.c:28-47,
\* interrupt_handlers.c:33-74).
ArmedTimerFires ==
  []~misused /\ <>[]~lost =>
    \A t \in Timer \ {Switch} : t \in Armed ~> flags[t] = "alloc"
=============================================================================
