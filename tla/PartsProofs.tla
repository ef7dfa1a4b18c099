----------------------------- MODULE PartsProofs -----------------------------
(***************************************************************************)
(* What the modules promise that keep to themselves, for every value of    *)
(* the constants that MCDevices assumes: those that switch and measure,    *)
(* what is polled and what is stored.  Each has an invariant of its own,   *)
(* that its initial states satisfy and its steps keep.                     *)
(***************************************************************************)
EXTENDS MCDevices, FiniteSetTheorems, SequenceTheorems, WellFoundedInduction, TLAPS

-----------------------------------------------------------------------------
(* The plug *)
PlugInv == Plug!TypeOK /\ Plug!TimedIsOn /\ Plug!LedShowsRelay /\ Plug!ListenersKnow

LEMMA PlugStarts == ASSUME Plug!Init PROVE PlugInv
  <1>1. Plug!TypeOK
    <2>1. {v1, v6, v7} \subseteq {0, 1}
      BY DEF Plug!Init
    <2>2. {v2, v3, v4} \subseteq BOOLEAN
      BY DEF Plug!Init
    <2>3. v5 \in 0..PlugCycles
      BY PlugAssumption DEF Plug!Init
    <2> QED BY <2>1, <2>2, <2>3 DEF Plug!TypeOK
  <1>2. Plug!TimedIsOn /\ Plug!LedShowsRelay /\ Plug!ListenersKnow
    BY DEF Plug!Init, Plug!TimedIsOn, Plug!LedShowsRelay, Plug!ListenersKnow
  <1> QED BY <1>1, <1>2 DEF PlugInv

\* A timed relay is set by nothing but its timer (user_relay_set), and the LED
\* is drawn by the relay or, while it blinks, by the blinking.
LEMMA PlugKeeps == ASSUME PlugInv, Plug!Next \/ UNCHANGED Plug!vars PROVE PlugInv'
  <1> USE PlugAssumption DEF PlugInv, Plug!TypeOK, Plug!TimedIsOn, Plug!LedShowsRelay,
          Plug!ListenersKnow
  <1>1. ASSUME NEW state \in {Plug!Timed, 0, 1, 2}, Plug!Post(state) PROVE PlugInv'
    <2>1. state \in {-1, 0, 1, 2} /\ v1 \in {0, 1} /\ v2 \in BOOLEAN
      BY DEF Plug!Timed
    <2>2. v7' = v1' /\ UNCHANGED <<v3, v4, v5>>
      BY <1>1 DEF Plug!Post
    <2>3. CASE v2 \/ state = v1
      BY <1>1, <2>2, <2>3 DEF Plug!Post, Plug!Set
    <2>4. CASE ~ (v2 \/ state = v1)
      <3>1. /\ v2' = (state < 0)
            /\ v1' = IF state < 0 THEN 1 ELSE IF state > 1 THEN 1 - v1 ELSE state
            /\ v6' = v1'
        BY <1>1, <2>4 DEF Plug!Post, Plug!Set
      <3>2. v1' \in {0, 1} /\ (state < 0 => v1' = 1) /\ (state < 0) \in BOOLEAN
        BY <2>1, <3>1
      <3> QED BY <2>2, <3>1, <3>2
    <2> QED BY <2>3, <2>4
  <1>2. CASE Plug!Off
    BY <1>2 DEF Plug!Off
  <1>3. CASE Plug!Cycle
    <2>1. v5' \in 0..PlugCycles
      BY <1>3 DEF Plug!Cycle
    <2>2. v6' \in {0, 1} /\ (v3 \/ v6' = v6)
      BY <1>3 DEF Plug!Cycle, Plug!Level
    <2>3. v4' \in BOOLEAN /\ UNCHANGED <<v1, v2, v3, v7>>
      BY <1>3 DEF Plug!Cycle
    <2>4. {v2, v3, v4}' \subseteq BOOLEAN
      BY <2>3
    <2>5. {v1, v6, v7}' \subseteq {0, 1}
      BY <2>2, <2>3
    <2> QED BY <2>1, <2>2, <2>3, <2>4, <2>5
  <1>4. CASE Plug!BlinkStart
    <2>1. v5' \in 0..PlugCycles
      BY <1>4 DEF Plug!BlinkStart
    <2>2. v6' \in {0, 1}
      BY <1>4 DEF Plug!BlinkStart, Plug!Level
    <2>3. v3' = TRUE /\ v4' = ~ v4 /\ UNCHANGED <<v1, v2, v7>>
      BY <1>4 DEF Plug!BlinkStart
    <2>4. {v2, v3, v4}' \subseteq BOOLEAN
      BY <2>3
    <2>5. {v1, v6, v7}' \subseteq {0, 1}
      BY <2>2, <2>3
    <2> QED BY <2>1, <2>3, <2>4, <2>5
  <1>5. CASE Plug!BlinkStop
    BY <1>5 DEF Plug!BlinkStop
  <1>6. CASE UNCHANGED Plug!vars
    BY <1>6 DEF Plug!vars
  <1> QED BY <1>1, <1>2, <1>3, <1>4, <1>5, <1>6 DEF Plug!Next
-----------------------------------------------------------------------------
(* The one-gang switch: v1 is its relay, v2 tells that it is timed, v3 is  *)
(* the wall switch, v4 its filter and v5 its pin, v6 tells that an event   *)
(* is to come, and v7 what was told last.                                  *)
OneInv == One!TypeOK /\ One!TimedIsOn /\ One!ListenersKnow /\ One!FilterAgrees

\* The initial state: the filter starts between its ends (user_switch1_init).
LEMMA OneStarts == ASSUME One!Init PROVE OneInv
  <1>1. SwitchFilter \div 2 \in 1..(SwitchFilter - 1)
    BY SwitchAssumption
  <1>2. One!TypeOK
    <2>1. {v1, v3, v5} \subseteq {0, 1} /\ {v2, v6} \subseteq BOOLEAN
      BY DEF One!Init
    <2>2. v4 \in 0..SwitchFilter
      BY <1>1, SwitchAssumption DEF One!Init
    <2>3. v7 \in {0, 1} \X {0, 1}
      BY DEF One!Init
    <2> QED BY <2>1, <2>2, <2>3 DEF One!TypeOK
  <1>3. One!TimedIsOn /\ One!ListenersKnow
    BY DEF One!Init, One!TimedIsOn, One!ListenersKnow
  <1>4. One!FilterAgrees
    BY <1>1, SwitchAssumption DEF One!Init, One!FilterAgrees
  <1> QED BY <1>2, <1>3, <1>4 DEF OneInv

\* A relay that is set keeps its type, and is on if it is timed then
\* (user_switch1_set).
LEMMA OneSetRelay ==
  ASSUME One!TypeOK, One!TimedIsOn, NEW state \in {One!Timed, 0, 1, 2}, One!Set(state)
  PROVE  v1' \in {0, 1} /\ v2' \in BOOLEAN /\ (v2' => v1' = 1)
  <1>1. v1 \in {0, 1} /\ v2 \in BOOLEAN
    BY DEF One!TypeOK
  <1>2. state \in {-1, 0, 1, 2}
    BY DEF One!Timed
  <1>3. CASE v2 \/ state = v1
    BY <1>1, <1>3 DEF One!Set, One!TimedIsOn
  <1>4. CASE ~(v2 \/ state = v1)
    <2>1. v1' = IF state < 0 THEN 1 ELSE IF state > 1 THEN 1 - v1 ELSE state
      BY <1>4 DEF One!Set
    <2>2. v2' = (state < 0)
      BY <1>4 DEF One!Set
    <2>3. v1' \in {0, 1}
      BY <1>1, <1>2, <2>1
    <2>4. state < 0 => v1' = 1
      BY <2>1
    <2>5. (state < 0) \in BOOLEAN
      BY <1>2
    <2>6. v2' \in BOOLEAN
      BY <2>2, <2>5
    <2> QED BY <2>2, <2>3, <2>4, <2>6
  <1> QED BY <1>3, <1>4

\* A reading moves the filter by one at most, within its ends, and to an end
\* only as its pin is (switch1_toggle).
LEMMA OneCounted ==
  ASSUME One!TypeOK
  PROVE  /\ One!Counted \in 0..SwitchFilter
         /\ One!Counted \in {0, SwitchFilter} => One!Reached(One!Counted) \/ One!Counted = v4
  BY SwitchAssumption DEF One!TypeOK, One!Counted, One!Reached

\* A step keeps the invariant.
LEMMA OneKeeps == ASSUME OneInv, One!Next \/ UNCHANGED One!vars PROVE OneInv'
  <1> USE DEF OneInv
  <1>1. ASSUME NEW state \in {One!Timed, 0, 1, 2}, One!Post(state) PROVE OneInv'
    <2>1. v1' \in {0, 1} /\ v2' \in BOOLEAN /\ (v2' => v1' = 1)
      BY <1>1, OneSetRelay DEF One!Post
    <2>2. v7' = <<v1', v3>> /\ UNCHANGED <<v3, v4, v5, v6>>
      BY <1>1 DEF One!Post
    <2>3. One!TypeOK'
      BY <2>1, <2>2 DEF One!TypeOK
    <2> QED BY <2>1, <2>2, <2>3 DEF One!TimedIsOn, One!ListenersKnow, One!FilterAgrees
  <1>2. CASE One!Off
    BY <1>2 DEF One!Off, One!TypeOK, One!TimedIsOn, One!ListenersKnow, One!FilterAgrees
  <1>3. CASE One!Toggle
    <2> DEFINE new == IF v4' = SwitchFilter THEN 1 ELSE 0
    <2>1. v4' = One!Counted /\ UNCHANGED <<v5, v7>>
      BY <1>3 DEF One!Toggle
    <2>2. /\ v4' \in 0..SwitchFilter
          /\ v4' \in {0, SwitchFilter} => One!Reached(v4') \/ v4' = v4
      BY <2>1, OneCounted
    <2>3. CASE One!Reached(v4') /\ v3 # new
      <3>1. v3' = new /\ One!Set(2) /\ v6' = TRUE
        BY <1>3, <2>3 DEF One!Toggle
      <3>2. v1' \in {0, 1} /\ v2' \in BOOLEAN /\ (v2' => v1' = 1)
        BY <3>1, OneSetRelay
      <3>3. One!TypeOK'
        BY <2>1, <2>2, <3>1, <3>2 DEF One!TypeOK
      <3>4. One!FilterAgrees'
        BY <3>1, SwitchAssumption DEF One!FilterAgrees
      <3> QED BY <3>1, <3>2, <3>3, <3>4 DEF One!TimedIsOn, One!ListenersKnow
    <2>4. CASE ~(One!Reached(v4') /\ v3 # new)
      <3>1. UNCHANGED <<v1, v2, v3, v6>>
        BY <1>3, <2>4 DEF One!Toggle
      <3>2. One!TypeOK'
        BY <2>1, <2>2, <3>1 DEF One!TypeOK
      <3>3. One!FilterAgrees'
        <4>1. CASE One!Reached(v4')
          BY <2>4, <3>1, <4>1, SwitchAssumption DEF One!FilterAgrees
        <4>2. CASE ~ One!Reached(v4')
          BY <2>2, <3>1, <4>2 DEF One!FilterAgrees
        <4> QED BY <4>1, <4>2
      <3> QED BY <2>1, <3>1, <3>2, <3>3 DEF One!TimedIsOn, One!ListenersKnow
    <2> QED BY <2>3, <2>4
  <1>4. CASE One!Event
    BY <1>4 DEF One!Event, One!TypeOK, One!TimedIsOn, One!ListenersKnow, One!FilterAgrees
  <1>5. CASE One!Flip
    BY <1>5 DEF One!Flip, One!TypeOK, One!TimedIsOn, One!ListenersKnow, One!FilterAgrees
  <1>6. CASE UNCHANGED One!vars
    BY <1>6 DEF One!vars, One!TypeOK, One!TimedIsOn, One!ListenersKnow, One!FilterAgrees
  <1> QED BY <1>1, <1>2, <1>3, <1>4, <1>5, <1>6 DEF One!Next

\* The switch as it runs (user_switch1.c): the timed relay is on, the
\* listeners know every change or are about to be told, and the filter that
\* settled is what the switch was taken for.
THEOREM SwitchInvariance == One!Spec => []OneInv
  <1>1. One!Init => OneInv
    BY OneStarts
  <1>2. OneInv /\ [One!Next]_(One!vars) => OneInv'
    BY OneKeeps
  <1> QED BY <1>1, <1>2, PTL DEF One!Spec

\* While the relay is timed it is on (user_switch1_set refuses what comes in
\* between).
THEOREM SwitchTimedIsOn == One!Spec => []One!TimedIsOn
  <1>1. OneInv => One!TimedIsOn
    BY DEF OneInv
  <1> QED BY <1>1, SwitchInvariance, PTL

\* No change of relay or switch slips by its listeners (user_switch1_event).
THEOREM SwitchListenersKnow == One!Spec => []One!ListenersKnow
  <1>1. OneInv => One!ListenersKnow
    BY DEF OneInv
  <1> QED BY <1>1, SwitchInvariance, PTL

\* The filter at an end agrees with the switch (switch1_toggle).
THEOREM SwitchFilterAgrees == One!Spec => []One!FilterAgrees
  <1>1. OneInv => One!FilterAgrees
    BY DEF OneInv
  <1> QED BY <1>1, SwitchInvariance, PTL
-----------------------------------------------------------------------------
(* The two-gang switch *)
TwoInv == Two!TypeOK /\ Two!ListenersKnow /\ Two!FilterAgrees

LEMMA TwoStarts == ASSUME Two!Init PROVE TwoInv
  <1>1. GangFilter \div 2 \in 1..(GangFilter - 1)
    BY GangAssumption
  <1>2. Two!TypeOK
    <2>1. {v1, v2, v4} \subseteq [Gangs -> {0, 1}]
      BY DEF Two!Init
    <2>2. v3 \in [Gangs -> 0..GangFilter]
      BY <1>1, GangAssumption DEF Two!Init
    <2>3. v5 \in BOOLEAN /\ v6 \in [Gangs -> {0, 1}] \X [Gangs -> {0, 1}]
      BY <2>1 DEF Two!Init
    <2> QED BY <2>1, <2>2, <2>3 DEF Two!TypeOK
  <1>3. Two!ListenersKnow /\ Two!FilterAgrees
    BY <1>1, GangAssumption DEF Two!Init, Two!ListenersKnow, Two!FilterAgrees
  <1> QED BY <1>2, <1>3 DEF TwoInv

\* Whatever number a body has, the relay is on or off afterwards
\* (user_switch2_set).
LEMMA RelayKeepsType ==
  ASSUME NEW old \in {0, 1}, NEW state \in Nat
  PROVE  Two!RelayAfter(old, state) \in {0, 1}
  BY DEF Two!RelayAfter

LEMMA TwoKeeps == ASSUME TwoInv, Two!Next \/ UNCHANGED Two!vars PROVE TwoInv'
  <1>0. /\ {v1, v2, v4} \subseteq [Gangs -> {0, 1}] /\ v3 \in [Gangs -> 0..GangFilter]
        /\ v5 \in BOOLEAN /\ v6 \in [Gangs -> {0, 1}] \X [Gangs -> {0, 1}]
    BY DEF TwoInv, Two!TypeOK
  <1>1. ASSUME NEW wanted \in [Gangs -> {-1, 0, 1, Two!Absent}], Two!Post(wanted)
        PROVE  TwoInv'
    <2>1. v1' \in [Gangs -> {0, 1}]
      <3>1. ASSUME NEW g \in Gangs
            PROVE  (IF wanted[g] = Two!Absent THEN v1[g]
                    ELSE Two!RelayAfter(v1[g], Two!Unsigned(wanted[g]))) \in {0, 1}
        <4>1. wanted[g] \in Int
          BY GangAssumption DEF Two!Absent
        <4>2. Two!Unsigned(wanted[g]) \in Nat
          BY <4>1, GangAssumption DEF Two!Unsigned
        <4>3. v1[g] \in {0, 1}
          BY <1>0
        <4> QED BY <4>2, <4>3, RelayKeepsType
      <3> QED BY <1>1, <3>1 DEF Two!Post
    <2>2. v6' = <<v1', v2>> /\ UNCHANGED <<v2, v3, v4, v5>>
      BY <1>1 DEF Two!Post
    <2> QED BY <1>0, <2>1, <2>2
            DEF TwoInv, Two!TypeOK, Two!ListenersKnow, Two!FilterAgrees
  <1>2. ASSUME NEW g \in Gangs, Two!Toggle(g) PROVE TwoInv'
    <2> DEFINE buf == Two!Counted(g)
               new == IF buf = GangFilter THEN 1 ELSE 0
    <2>1. v3' = [v3 EXCEPT ![g] = buf] /\ UNCHANGED <<v4, v6>>
      BY <1>2 DEF Two!Toggle
    <2>2. /\ buf \in 0..GangFilter
          /\ buf \in {0, GangFilter} => Two!Reached(g, buf) \/ buf = v3[g]
      BY <1>0, GangAssumption DEF Two!Counted, Two!Reached
    <2>3. v3' \in [Gangs -> 0..GangFilter]
      BY <1>0, <2>1, <2>2
    <2>4. CASE Two!Reached(g, buf) /\ v2[g] # new
      <3>1. /\ v2' = [v2 EXCEPT ![g] = new] /\ v5' = TRUE
            /\ v1' = [v1 EXCEPT ![g] = Two!RelayAfter(v1[g], 2)]
        BY <1>2, <2>4 DEF Two!Toggle
      <3>2. Two!RelayAfter(v1[g], 2) \in {0, 1}
        BY <1>0, RelayKeepsType
      <3>3. v1' \in [Gangs -> {0, 1}] /\ v2' \in [Gangs -> {0, 1}]
        BY <1>0, <3>1, <3>2
      <3>4. Two!TypeOK'
        BY <1>0, <2>1, <2>3, <3>1, <3>3 DEF Two!TypeOK
      <3>5. Two!FilterAgrees'
        <4> SUFFICES ASSUME NEW h \in Gangs
                     PROVE  /\ v3'[h] = GangFilter => v2'[h] = 1
                            /\ v3'[h] = 0 => v2'[h] = 0
          BY DEF Two!FilterAgrees
        <4>1. CASE h = g
          BY <1>0, <2>1, <3>1, <4>1, GangAssumption
        <4>2. CASE h # g
          BY <1>0, <2>1, <3>1, <4>2 DEF TwoInv, Two!FilterAgrees
        <4> QED BY <4>1, <4>2
      <3> QED BY <3>1, <3>4, <3>5 DEF TwoInv, Two!ListenersKnow
    <2>5. CASE ~ (Two!Reached(g, buf) /\ v2[g] # new)
      <3>1. UNCHANGED <<v1, v2, v5>>
        BY <1>2, <2>5 DEF Two!Toggle
      <3>2. Two!TypeOK' /\ Two!ListenersKnow'
        BY <1>0, <2>1, <2>3, <3>1 DEF TwoInv, Two!TypeOK, Two!ListenersKnow
      <3>3. Two!FilterAgrees'
        <4> SUFFICES ASSUME NEW h \in Gangs
                     PROVE  /\ v3'[h] = GangFilter => v2'[h] = 1
                            /\ v3'[h] = 0 => v2'[h] = 0
          BY DEF Two!FilterAgrees
        <4>1. CASE h = g /\ Two!Reached(g, buf)
          BY <1>0, <2>1, <2>5, <3>1, <4>1, GangAssumption
        <4>2. CASE h # g \/ ~ Two!Reached(g, buf)
          BY <1>0, <2>1, <2>2, <3>1, <4>2 DEF TwoInv, Two!FilterAgrees
        <4> QED BY <4>1, <4>2
      <3> QED BY <3>2, <3>3 DEF TwoInv
    <2> QED BY <2>4, <2>5
  <1>3. CASE Two!Event
    BY <1>0, <1>3 DEF Two!Event, TwoInv, Two!TypeOK, Two!ListenersKnow, Two!FilterAgrees
  <1>4. ASSUME NEW g \in Gangs, Two!Flip(g) PROVE TwoInv'
    <2>1. v4' = [v4 EXCEPT ![g] = 1 - v4[g]] /\ UNCHANGED <<v1, v2, v3, v5, v6>>
      BY <1>4 DEF Two!Flip
    <2>2. v4' \in [Gangs -> {0, 1}]
      BY <1>0, <2>1
    <2> QED BY <1>0, <2>1, <2>2
            DEF TwoInv, Two!TypeOK, Two!ListenersKnow, Two!FilterAgrees
  <1>5. CASE UNCHANGED Two!vars
    BY <1>0, <1>5 DEF Two!vars, TwoInv, Two!TypeOK, Two!ListenersKnow, Two!FilterAgrees
  <1> QED BY <1>1, <1>2, <1>3, <1>4, <1>5 DEF Two!Next
-----------------------------------------------------------------------------
(* A digital pin.  An output whose pin was set up with its settings has its *)
(* pulse flagged by timer_run, unless it was set up with one under way; an  *)
(* input's interrupt is that of its type, and what it noted the level.      *)
DioRuns ==
  v6 /\ v1 = "out" /\ "unset" \notin v14 =>
    (v10 => v9 = "pulse") /\ (v9 = "pulse" => v10 \/ "stray" \in v14)
DioListens == v6 /\ v1 \in Dio!Inputs /\ "unset" \notin v14 => v7 = v1
DioSaw == v6 /\ v1 = "any" /\ v14 \subseteq {"edge"} /\ "edge" \in v14 => v13 = v8

DioTyped ==
  /\ v2 \in BOOLEAN /\ v3 \in BOOLEAN /\ v4 \in BOOLEAN /\ v5 \in BOOLEAN
  /\ v6 \in BOOLEAN /\ v8 \in BOOLEAN /\ v10 \in BOOLEAN /\ v11 \in BOOLEAN
  /\ v12 \in BOOLEAN /\ v13 \in BOOLEAN
  /\ v1 \in {"none", "any", "pos", "neg", "out"} /\ v7 \in {"none", "any", "pos", "neg"}
  /\ v9 \in {"none", "filter", "pulse", "send"}
  /\ v14 \subseteq {"unset", "stray", "driven", "edge"}

DioInv ==
  DioTyped /\ Dio!PulseEnds /\ Dio!FilterAgrees /\ DioRuns /\ DioListens /\ DioSaw

LEMMA DioStarts == ASSUME Dio!Init PROVE DioInv
  <1>1. DioTyped
    BY DEF Dio!Init, DioTyped, Dio!Types, Dio!Inputs
  <1>2. v6 = FALSE
    BY DEF Dio!Init
  <1> QED BY <1>1, <1>2
          DEF DioInv, Dio!PulseEnds, Dio!FilterAgrees, DioRuns, DioListens, DioSaw

\* A step keeps it.  timer_run says whether the timer is a pulse's, unless a
\* pin was set up over one (mb_dio_set_output, mb_dio_hw_init).
LEMMA DioKeeps == ASSUME DioInv, Dio!Next \/ UNCHANGED Dio!vars PROVE DioInv'
  <1> USE DEF DioInv, DioTyped
  <1>1. CASE Dio!output_timer
    <2>1. v9 = "pulse" /\ UNCHANGED <<v1, v2, v3, v4, v5, v6, v7, v13>>
      BY <1>1 DEF Dio!output_timer, Dio!Settings
    <2>2. CASE ~ v6
      <3>1. v9' = "none" /\ UNCHANGED <<v8, v10, v11, v12, v14>>
        BY <1>1, <2>2 DEF Dio!output_timer
      <3> QED BY <2>1, <2>2, <3>1
              DEF Dio!PulseEnds, Dio!FilterAgrees, DioRuns, DioListens, DioSaw
    <2>3. CASE v6
      <3>1. /\ v12' = v11 /\ v11' = ~ v11
            /\ v14' = v14 \cup (IF v1 \in Dio!Inputs THEN {"driven"} ELSE {})
            /\ v8' = (v11' # v2')
        BY <1>1, <2>3 DEF Dio!output_timer, Dio!set_output, Dio!Xor
      <3>2. IF (IF v11' THEN v4 ELSE v5)
            THEN v9' = "pulse" /\ v10' = TRUE
            ELSE v9' = (IF v11 /\ v4 /\ ~ v5 THEN "send" ELSE "none") /\ v10' = FALSE
        BY <1>1, <2>1, <2>3, <3>1 DEF Dio!output_timer, Dio!set_output
      <3>3. DioTyped'
        BY <2>1, <3>1, <3>2
      <3>4. Dio!PulseEnds' /\ DioRuns'
        BY <2>1, <3>1, <3>2 DEF Dio!PulseEnds, DioRuns, Dio!Inputs
      <3>5. DioListens' /\ DioSaw' /\ Dio!FilterAgrees'
        BY <2>1, <3>1 DEF DioListens, DioSaw, Dio!FilterAgrees, Dio!Inputs
      <3> QED BY <3>3, <3>4, <3>5
    <2> QED BY <2>2, <2>3
  <1>2. CASE Dio!Send
    BY <1>2 DEF Dio!Send, Dio!Settings, Dio!PulseEnds, Dio!FilterAgrees, DioRuns, DioListens,
                DioSaw
  <1>3. CASE Dio!Edge
    <2>1. /\ v1 # "out" \/ ~ v6
          /\ v8' = ~ v8 /\ UNCHANGED <<v1, v2, v3, v4, v5, v6, v7, v10, v11, v12>>
      BY <1>3 DEF Dio!Edge, Dio!Settings
    <2>2. CASE v6 /\ v1 \in Dio!Inputs /\ (v7 = "any" \/ v7 = IF v8 THEN "neg" ELSE "pos")
      <3>1. v13' = v8' /\ v9' = "filter" /\ v14' = v14 \cup {"edge"}
        BY <1>3, <2>2 DEF Dio!Edge
      <3> QED BY <2>1, <2>2, <3>1
              DEF Dio!PulseEnds, Dio!FilterAgrees, DioRuns, DioListens, DioSaw, Dio!Inputs
    <2>3. CASE ~ (v6 /\ v1 \in Dio!Inputs /\ (v7 = "any" \/ v7 = IF v8 THEN "neg" ELSE "pos"))
      <3>1. UNCHANGED <<v13, v9, v14>>
        BY <1>3, <2>3 DEF Dio!Edge
      <3> QED BY <2>1, <2>3, <3>1
              DEF Dio!PulseEnds, Dio!FilterAgrees, DioRuns, DioListens, DioSaw, Dio!Inputs
    <2> QED BY <2>2, <2>3
  <1>4. CASE Dio!intr_timer
    <2>1. v9 = "filter" /\ v9' = "none"
          /\ UNCHANGED <<v1, v2, v3, v4, v5, v6, v7, v8, v10, v13, v14>>
      BY <1>4 DEF Dio!intr_timer, Dio!Settings
    <2>2. CASE v1 = "any"
      <3>1. v11' = (v13 # v2) /\ v12' = ~ v11'
        BY <1>4, <2>2 DEF Dio!intr_timer, Dio!Settle, Dio!Xor
      <3> QED BY <2>1, <2>2, <3>1
              DEF Dio!PulseEnds, Dio!FilterAgrees, DioRuns, DioListens, DioSaw, Dio!Xor
    <2>3. CASE v1 # "any"
      <3>1. /\ v11' \in BOOLEAN /\ v12' \in BOOLEAN
            /\ v1 = "out" => UNCHANGED <<v11, v12>>
        BY <1>4, <2>3 DEF Dio!intr_timer, Dio!Settle, Dio!Xor
      <3> QED BY <2>1, <2>3, <3>1
              DEF Dio!PulseEnds, Dio!FilterAgrees, DioRuns, DioListens, DioSaw, Dio!Inputs
    <2> QED BY <2>2, <2>3
  <1>5. CASE UNCHANGED Dio!vars
    BY <1>5 DEF Dio!vars, Dio!PulseEnds, Dio!FilterAgrees, DioRuns, DioListens, DioSaw
  <1>6. CASE Dio!Configure
    <2>1. /\ v1' \in {"none", "any", "pos", "neg", "out"} /\ v2' \in BOOLEAN
          /\ v3' \in BOOLEAN /\ v4' \in BOOLEAN /\ v5' \in BOOLEAN
      BY <1>6 DEF Dio!Configure, Dio!Change, Dio!Types, Dio!Inputs
    <2>2. /\ v6' = (v1' # "none")
          /\ v7' = IF v1' \in Dio!Inputs THEN v1' ELSE v7
          /\ v14' = (IF v9 = "pulse" THEN {"stray"} ELSE {}) \cup (v14 \cap {"stray"})
          /\ v13' = v13
      BY <1>6 DEF Dio!Configure, Dio!hw_init
    <2>3. CASE v1' = "none"
      <3>1. UNCHANGED <<v8, v9, v10, v11, v12>>
        BY <1>6, <2>3 DEF Dio!Configure, Dio!hw_init, Dio!Inputs
      <3> QED BY <2>1, <2>2, <2>3, <3>1
              DEF Dio!PulseEnds, Dio!FilterAgrees, DioRuns, DioListens, DioSaw, Dio!Inputs
    <2>4. CASE v1' = "out"
      <3>1. /\ v11' = v3' /\ v12' = ~ v3' /\ v8' = (v11' # v2')
            /\ IF v12' # v11' /\ (IF v11' THEN v4' ELSE v5')
               THEN v9' = "pulse" /\ v10' = TRUE
               ELSE v9' = v9 /\ v10' = FALSE
        BY <1>6, <2>4 DEF Dio!Configure, Dio!hw_init, Dio!set_output, Dio!Xor, Dio!Inputs
      <3>2. DioTyped'
        <4>1. v8' \in BOOLEAN /\ v11' \in BOOLEAN /\ v12' \in BOOLEAN
          BY <2>1, <3>1
        <4>2. v9' \in {"none", "filter", "pulse", "send"} /\ v10' \in BOOLEAN
          BY <3>1
        <4>3. v6' \in BOOLEAN /\ v13' \in BOOLEAN /\ v7' \in {"none", "any", "pos", "neg"}
              /\ v14' \subseteq {"unset", "stray", "driven", "edge"}
          BY <2>2, <2>4 DEF Dio!Inputs
        <4> QED BY <2>1, <4>1, <4>2, <4>3
      <3>3. Dio!PulseEnds' /\ DioRuns'
        BY <2>1, <2>2, <2>4, <3>1 DEF Dio!PulseEnds, DioRuns
      <3>4. Dio!FilterAgrees' /\ DioListens' /\ DioSaw'
        BY <2>4 DEF Dio!FilterAgrees, DioListens, DioSaw, Dio!Inputs
      <3> QED BY <3>2, <3>3, <3>4
    <2>5. CASE v1' \in Dio!Inputs
      <3>1. v11' = v2' /\ v12' = ~ v2' /\ UNCHANGED <<v8, v9, v10>>
        BY <1>6, <2>5 DEF Dio!Configure, Dio!hw_init, Dio!Inputs
      <3> QED BY <2>1, <2>2, <2>5, <3>1
              DEF Dio!PulseEnds, Dio!FilterAgrees, DioRuns, DioListens, DioSaw, Dio!Inputs
    <2> QED BY <2>1, <2>3, <2>4, <2>5 DEF Dio!Inputs
  <1>7. ASSUME NEW v \in BOOLEAN, Dio!Output(v) PROVE DioInv'
    <2>1. /\ v6 /\ UNCHANGED <<v1, v2, v3, v4, v5, v6, v7, v13>>
          /\ v12' = v11 /\ v11' = v /\ v8' = (v11' # v2')
          /\ v14' = v14 \cup IF v1 \in Dio!Inputs THEN {"driven"} ELSE {}
      BY <1>7 DEF Dio!Output, Dio!Settings, Dio!set_output, Dio!Xor
    <2>2. CASE ~ v /\ v10
      <3>1. IF v11 # v /\ v5 THEN v9' = "pulse" /\ v10' = TRUE ELSE v9' = "none" /\ v10' = FALSE
        BY <1>7, <2>1, <2>2 DEF Dio!Output, Dio!set_output
      <3>2. DioTyped'
        <4>1. v8' \in BOOLEAN /\ v11' \in BOOLEAN /\ v12' \in BOOLEAN
          BY <2>1
        <4>2. v9' \in {"none", "filter", "pulse", "send"} /\ v10' \in BOOLEAN
          BY <3>1
        <4> QED BY <2>1, <4>1, <4>2
      <3> QED BY <2>1, <2>2, <3>1, <3>2
              DEF Dio!PulseEnds, Dio!FilterAgrees, DioRuns, DioListens, DioSaw, Dio!Inputs
    <2>3. CASE v \/ ~ v10
      <3>1. IF ~ v10 /\ v11 # v /\ (IF v THEN v4 ELSE v5)
            THEN v9' = "pulse" /\ v10' = TRUE ELSE v9' = v9 /\ v10' = v10
        BY <1>7, <2>1, <2>3 DEF Dio!Output, Dio!set_output
      <3>2. DioTyped'
        <4>1. v8' \in BOOLEAN /\ v11' \in BOOLEAN /\ v12' \in BOOLEAN
          BY <2>1
        <4>2. v9' \in {"none", "filter", "pulse", "send"} /\ v10' \in BOOLEAN
          BY <3>1
        <4> QED BY <2>1, <4>1, <4>2
      <3> QED BY <2>1, <2>3, <3>1, <3>2
              DEF Dio!PulseEnds, Dio!FilterAgrees, DioRuns, DioListens, DioSaw, Dio!Inputs
    <2> QED BY <2>2, <2>3
  <1>8. ASSUME NEW v \in BOOLEAN, Dio!Both(v) PROVE DioInv'
    <2>1. /\ v1' \in {"none", "any", "pos", "neg", "out"} /\ v2' \in BOOLEAN
          /\ v3' \in BOOLEAN /\ v4' \in BOOLEAN /\ v5' \in BOOLEAN
      BY <1>8 DEF Dio!Both, Dio!Change, Dio!Types, Dio!Inputs
    <2>2. /\ v14' = v14 \cup {"unset"} /\ UNCHANGED <<v6, v7, v13>>
          /\ v11' = v /\ v12' = v11 /\ v8' = (v11' # v2')
      BY <1>8 DEF Dio!Both, Dio!set_output, Dio!Xor
    <2>3. v9' \in {"none", "filter", "pulse", "send"} /\ v10' \in BOOLEAN
      BY <1>8 DEF Dio!Both, Dio!set_output
    <2>4. DioTyped'
      BY <2>1, <2>2, <2>3
    <2> QED BY <2>2, <2>4
            DEF Dio!PulseEnds, Dio!FilterAgrees, DioRuns, DioListens, DioSaw
  <1> QED BY <1>1, <1>2, <1>3, <1>4, <1>5, <1>6, <1>7, <1>8 DEF Dio!Next
-----------------------------------------------------------------------------
(* The meter's line.  Unless the line was let go of with an answer on its  *)
(* way, what is on it answers the command sent last, and a line that is    *)
(* free is empty.  A meter not found yet is not polled, and known not to be. *)
MeterByte == (Emtr!Commands \X (1..4)) \cup {Emtr!Nak}

MeterTyped ==
  /\ v5 \in [Emtr!Commands -> Nat]
  /\ v9 \in Seq(MeterByte)
  /\ v12 \in BOOLEAN /\ v10 \in BOOLEAN /\ v4 \in BOOLEAN /\ v11 \in BOOLEAN

MeterOwns ==
  ~ v10 => /\ \A i \in 1..Len(v9) : v9[i] = Emtr!Nak \/ v9[i][1] = v3
           /\ ~ v4 => v9 = <<>>

MeterFound == ~ v8 /\ ~ v7 => v11

MeterPart == MeterTyped /\ MeterFound /\ Emtr!PollGoesOn
MeterLine == MeterPart /\ MeterOwns /\ Emtr!Attributed
EmtrInv == MeterLine /\ v2.got \in Nat

LEMMA EmtrStarts == ASSUME Emtr!Init PROVE EmtrInv
  <1>1. v5 \in [Emtr!Commands -> Nat]
    BY DEF Emtr!Init
  <1>2. v9 = <<>> /\ v4 = FALSE /\ v10 = FALSE /\ v12 = FALSE /\ v7 = TRUE /\ v11 = FALSE
    BY DEF Emtr!Init
  <1>3. v9 \in Seq(MeterByte)
    BY <1>2
  <1>4. \A i \in 1..Len(v9) : FALSE
    BY <1>2
  <1>5. v2.got \in Nat
    BY DEF Emtr!Init, Emtr!Empty
  <1> QED BY <1>1, <1>2, <1>3, <1>4, <1>5
          DEF EmtrInv, MeterLine, MeterPart, MeterTyped, MeterOwns, MeterFound,
              Emtr!PollGoesOn, Emtr!Attributed

\* The instance counts with a copy of the operator.
LEMMA MeterCardinality == ASSUME NEW S PROVE Emtr!Cardinality(S) = Cardinality(S)
  BY DEF Emtr!Cardinality, Cardinality

\* Commands that wait are counted (emtr_send).
LEMMA WaitCounts ==
  ASSUME MeterTyped, NEW cs \in Seq(Emtr!Commands), Emtr!Wait(cs)
  PROVE  /\ v5' \in [Emtr!Commands -> Nat]
         /\ \A c \in Emtr!Commands : v5'[c] >= v5[c]
         /\ \A i \in 1..Len(cs) : v5'[cs[i]] > 0
  <1> DEFINE At(c) == {i \in DOMAIN cs : cs[i] = c}
  <1>1. ASSUME NEW c \in Emtr!Commands
        PROVE  IsFiniteSet(At(c)) /\ Cardinality(At(c)) \in Nat
    <2>1. IsFiniteSet(1..Len(cs))
      BY FS_Interval
    <2>2. At(c) \subseteq 1..Len(cs)
      OBVIOUS
    <2> HIDE DEF At
    <2> QED BY <2>1, <2>2, FS_Subset, FS_CardinalityType
  <1>2. v5' = [c \in Emtr!Commands |-> v5[c] + Cardinality(At(c))]
    BY MeterCardinality DEF Emtr!Wait
  <1>3. ASSUME NEW i \in 1..Len(cs) PROVE Cardinality(At(cs[i])) > 0
    <2>1. cs[i] \in Emtr!Commands /\ i \in At(cs[i])
      OBVIOUS
    <2> HIDE DEF At
    <2>2. Cardinality(At(cs[i])) # 0
      BY <1>1, <2>1, FS_EmptySet
    <2> QED BY <1>1, <2>1, <2>2
  <1> HIDE DEF At
  <1>4. ASSUME NEW c \in Emtr!Commands
        PROVE  v5'[c] = v5[c] + Cardinality(At(c)) /\ v5[c] \in Nat /\ Cardinality(At(c)) \in Nat
    BY <1>1, <1>2 DEF MeterTyped
  <1>5. v5' \in [Emtr!Commands -> Nat]
    BY <1>2, <1>4
  <1>6. \A c \in Emtr!Commands : v5'[c] >= v5[c]
    BY <1>4
  <1>7. ASSUME NEW i \in 1..Len(cs) PROVE v5'[cs[i]] > 0
    BY <1>3, <1>4
  <1> QED BY <1>5, <1>6, <1>7

\* What the meter sends is of the command it was sent.
LEMMA MeterAnswers ==
  ASSUME NEW line \in Seq(MeterByte), NEW c \in Emtr!Commands,
         NEW l \in Emtr!Meter(line, c)
  PROVE  /\ l \in Seq(MeterByte)
         /\ line = <<>> => \A i \in 1..Len(l) : l[i] = Emtr!Nak \/ l[i][1] = c
  <1>1. Emtr!Answer(c) \in Seq(MeterByte) /\ \A i \in 1..Len(Emtr!Answer(c)) : Emtr!Answer(c)[i][1] = c
    <2>1. CASE c \in Emtr!Writes
      <3>1. Emtr!Answer(c) = <<<<c, 1>>>> /\ <<c, 1>> \in MeterByte
        BY <2>1 DEF Emtr!Answer, MeterByte
      <3> QED BY <3>1
    <2>2. CASE c \notin Emtr!Writes
      <3>1. Emtr!Answer(c) = [i \in 1..4 |-> <<c, i>>]
        BY <2>2 DEF Emtr!Answer
      <3>2. Emtr!Answer(c) \in [1..4 -> MeterByte] /\ \A i \in 1..4 : Emtr!Answer(c)[i][1] = c
        BY <3>1 DEF MeterByte
      <3>3. Emtr!Answer(c) \in Seq(MeterByte) /\ Len(Emtr!Answer(c)) = 4
        <4>1. [i \in 1..4 |-> <<c, i>>] \in Seq(MeterByte) /\ Len([i \in 1..4 |-> <<c, i>>]) = 4
          BY DEF MeterByte
        <4> QED BY <3>1, <4>1
      <3> QED BY <3>2, <3>3
    <2> QED BY <2>1, <2>2
  <1>2. Emtr!Nak \in MeterByte
    BY DEF MeterByte
  <1>3. CASE l = line
    BY <1>3
  <1>4. CASE l = line \o Emtr!Answer(c)
    BY <1>1, <1>4
  <1>5. CASE l = Append(line, Emtr!Nak)
    BY <1>2, <1>5
  <1> QED BY <1>3, <1>4, <1>5 DEF Emtr!Meter
\* What is sent goes out when the line is free, and waits when it is not
\* (emtr_send).
LEMMA SendHolds ==
  ASSUME MeterTyped, NEW line \in Seq(MeterByte),
         NEW cs \in Seq(Emtr!Commands), NEW later \in Seq(Emtr!Commands),
         Emtr!Send(cs, later, line)
  PROVE  /\ v5' \in [Emtr!Commands -> Nat] /\ \A c \in Emtr!Commands : v5'[c] >= v5[c]
         /\ v9' \in Seq(MeterByte)
         /\ v4 \/ cs = <<>> =>
              v3' = v3 /\ v9' = line /\ \A i \in 1..Len(cs) : v5'[cs[i]] > 0
         /\ ~ (v4 \/ cs = <<>>) =>
              /\ v3' = cs[1]
              /\ line = <<>> => \A i \in 1..Len(v9') : v9'[i] = Emtr!Nak \/ v9'[i][1] = v3'
  <1>1. CASE v4 \/ cs = <<>>
    <2>1. Emtr!Wait(cs \o later) /\ v9' = line /\ v3' = v3
      BY <1>1 DEF Emtr!Send
    <2>2. cs \o later \in Seq(Emtr!Commands)
      OBVIOUS
    <2>3. /\ v5' \in [Emtr!Commands -> Nat] /\ \A c \in Emtr!Commands : v5'[c] >= v5[c]
          /\ \A i \in 1..Len(cs \o later) : v5'[(cs \o later)[i]] > 0
      BY <2>1, <2>2, WaitCounts
    <2>4. \A i \in 1..Len(cs) : i \in 1..Len(cs \o later) /\ (cs \o later)[i] = cs[i]
      OBVIOUS
    <2> QED BY <1>1, <2>1, <2>3, <2>4
  <1>2. CASE ~ (v4 \/ cs = <<>>)
    <2>1. Emtr!Wait(Tail(cs) \o later) /\ v3' = cs[1] /\ v9' \in Emtr!Meter(line, cs[1])
      BY <1>2 DEF Emtr!Send
    <2>2. cs[1] \in Emtr!Commands /\ Tail(cs) \o later \in Seq(Emtr!Commands)
      BY <1>2
    <2>3. v5' \in [Emtr!Commands -> Nat] /\ \A c \in Emtr!Commands : v5'[c] >= v5[c]
      BY <2>1, <2>2, WaitCounts
    <2>4. /\ v9' \in Seq(MeterByte)
          /\ line = <<>> => \A i \in 1..Len(v9') : v9'[i] = Emtr!Nak \/ v9'[i][1] = cs[1]
      BY <2>1, <2>2, MeterAnswers
    <2> QED BY <1>2, <2>1, <2>3, <2>4
  <1> QED BY <1>1, <1>2

\* The polling starts anew, or is known to have stopped (emtr_start_read).
LEMMA MeterStarts ==
  ASSUME Emtr!emtr_start_read
  PROVE  MeterFound' /\ Emtr!PollGoesOn' /\ v11' \in BOOLEAN
  BY DEF Emtr!emtr_start_read, MeterFound, Emtr!PollGoesOn

\* A line that is empty, or let go of with an answer on its way, owes nothing.
LEMMA MeterOwnsNone == ASSUME v9' = <<>> \/ v10' PROVE MeterOwns'
  <1>1. v9' = <<>> => \A i \in 1..Len(v9') : FALSE
    OBVIOUS
  <1> QED BY <1>1 DEF MeterOwns

\* An answer is taken: it is the answer to the last command, and the reading
\* that it ends starts another (emtr_receive).
LEMMA AcceptKeeps ==
  ASSUME MeterLine, v9 # <<>>, Emtr!Accept(Head(v9)[1], Tail(v9)), UNCHANGED v7,
         Head(v9) # Emtr!Nak
  PROVE  MeterLine'
  <1> USE DEF MeterLine, MeterPart
  <1>1. PICK line : line = Tail(v9)
    OBVIOUS
  <1>2. line \in Seq(MeterByte)
    BY <1>1 DEF MeterTyped
  <1>3. PICK cs \in Emtr!Replies : Emtr!Send(cs, <<>>, line)
    BY <1>1 DEF Emtr!Accept
  <1>4. /\ v8' = TRUE /\ v4' = FALSE /\ v10' = (v9' # <<>>)
        /\ v12' = (v12 \/ (v3 # Head(v9)[1] /\ ~ v10))
        /\ IF v3 = "output" THEN Emtr!emtr_start_read ELSE UNCHANGED <<v6, v11>>
    BY DEF Emtr!Accept
  <1>5. cs \in Seq(Emtr!Commands)
    <2>1. /\ <<"get">> \in Seq(Emtr!Commands) /\ <<"set">> \in Seq(Emtr!Commands)
          /\ <<"set", "set">> \in Seq(Emtr!Commands) /\ <<>> \in Seq(Emtr!Commands)
      BY DEF Emtr!Commands, Emtr!Writes
    <2>2. cs \in {<<"get">>, <<"set">>, <<"set", "set">>, <<>>}
      BY <1>3 DEF Emtr!Replies
    <2> QED BY <2>1, <2>2
  <1>6. /\ v5' \in [Emtr!Commands -> Nat] /\ \A c \in Emtr!Commands : v5'[c] >= v5[c]
        /\ v9' \in Seq(MeterByte)
    <2>1. MeterTyped /\ <<>> \in Seq(Emtr!Commands)
      OBVIOUS
    <2> QED BY ONLY <1>2, <1>3, <1>5, <2>1, SendHolds
  <1>7. MeterOwns' /\ v10' \in BOOLEAN
    <2>1. (v9' # <<>>) \in BOOLEAN
      OBVIOUS
    <2> QED BY <1>4, <2>1, MeterOwnsNone
  <1>8. v12' = FALSE
    <2>1. 1 \in 1..Len(v9) /\ Head(v9) = v9[1]
      BY DEF MeterTyped
    <2>2. ~ v10 => v3 = Head(v9)[1]
      BY <2>1 DEF MeterOwns
    <2> QED BY <1>4, <2>2 DEF Emtr!Attributed, MeterTyped
  <1>9. MeterFound' /\ Emtr!PollGoesOn' /\ v11' \in BOOLEAN
    <2>1. CASE v3 = "output"
      BY <1>4, <2>1, MeterStarts
    <2>2. CASE v3 # "output"
      <3>1. "output" \in Emtr!Commands
        BY DEF Emtr!Commands
      <3>2. v5'["output"] >= v5["output"] /\ v5["output"] \in Nat /\ v5'["output"] \in Nat
        BY <1>6, <3>1 DEF MeterTyped
      <3>3. v11' \in BOOLEAN
        BY <1>4, <2>2 DEF MeterTyped
      <3> QED BY <1>4, <2>2, <3>2, <3>3 DEF MeterFound, Emtr!PollGoesOn
    <2> QED BY <2>1, <2>2
  <1> QED BY <1>4, <1>6, <1>7, <1>8, <1>9 DEF MeterTyped, Emtr!Attributed

\* A bad answer lets go of the line, and is remembered to have (emtr_receive).
LEMMA RejectKeeps ==
  ASSUME MeterLine, v9 # <<>>, Emtr!Reject(Tail(v9)), UNCHANGED v7
  PROVE  MeterLine'
  <1>1. /\ v4' = FALSE /\ v10' = (v9' # <<>>) /\ v9' = Tail(v9)
        /\ v11' = (v11 \/ (v4 /\ v3 = "output")) /\ UNCHANGED <<v3, v5, v6, v7, v8, v12>>
    BY DEF Emtr!Reject
  <1>2. v9' \in Seq(MeterByte)
    BY <1>1 DEF MeterLine, MeterPart, MeterTyped
  <1>3. MeterOwns'
    BY <1>1, MeterOwnsNone
  <1>4. v10' \in BOOLEAN
    BY <1>1
  <1>5. v11 \in BOOLEAN /\ v12' = v12 /\ v12 = FALSE /\ v5' \in [Emtr!Commands -> Nat]
    BY <1>1 DEF MeterLine, MeterPart, MeterTyped, Emtr!Attributed
  <1>6. Emtr!Attributed' /\ v12' \in BOOLEAN
    BY <1>5 DEF Emtr!Attributed
  <1>7. v11' \in BOOLEAN /\ MeterFound' /\ Emtr!PollGoesOn'
    <2>1. CASE v4 /\ v3 = "output"
      <3>1. v11' = TRUE
        BY <1>1, <2>1
      <3> QED BY <3>1 DEF MeterFound, Emtr!PollGoesOn
    <2>2. CASE ~ (v4 /\ v3 = "output")
      <3>1. v11' = v11
        BY <1>1, <1>5, <2>2
      <3> QED BY <1>1, <1>5, <2>2, <3>1 DEF MeterLine, MeterPart, MeterFound, Emtr!PollGoesOn
    <2> QED BY <2>1, <2>2
  <1>8. MeterTyped'
    BY <1>1, <1>2, <1>4, <1>5, <1>6, <1>7 DEF MeterTyped
  <1> QED BY <1>3, <1>6, <1>7, <1>8 DEF MeterLine, MeterPart

\* A byte leaves the line and ends nothing.
LEMMA QuietKeeps ==
  ASSUME MeterLine, v9 # <<>>, v9' = Tail(v9), v10' = (v10 /\ v9' # <<>>),
         UNCHANGED <<v3, v4, v5, v6, v7, v8, v11, v12>>
  PROVE  MeterLine'
  <1>1. v9' \in Seq(MeterByte)
    BY DEF MeterLine, MeterPart, MeterTyped
  <1>2. MeterTyped'
    BY <1>1 DEF MeterLine, MeterPart, MeterTyped
  <1>3. MeterOwns'
    <2>1. CASE v9' = <<>>
      BY <2>1, MeterOwnsNone
    <2>2. CASE v10
      BY <2>1, <2>2, MeterOwnsNone
    <2>3. CASE ~ v10
      <3>1. Len(v9') = Len(v9) - 1 /\ \A i \in 1..Len(v9') : v9'[i] = v9[i + 1]
        BY DEF MeterLine, MeterPart, MeterTyped
      <3>2. Len(v9) \in Nat
        BY DEF MeterLine, MeterPart, MeterTyped
      <3> QED BY <2>3, <3>1, <3>2 DEF MeterLine, MeterOwns
    <2> QED BY <2>2, <2>3
  <1>4. MeterFound' /\ Emtr!PollGoesOn' /\ Emtr!Attributed'
    BY DEF MeterLine, MeterPart, MeterFound, Emtr!PollGoesOn, Emtr!Attributed
  <1> QED BY <1>2, <1>3, <1>4 DEF MeterLine, MeterPart

\* What goes out on a line that owes nothing answers the command that goes out.
LEMMA SendOwns ==
  ASSUME MeterLine, NEW cs \in Seq(Emtr!Commands), NEW later \in Seq(Emtr!Commands),
         Emtr!Send(cs, later, v9), v10' = v10, v4' \/ (cs = <<>> /\ ~ v4)
  PROVE  /\ MeterOwns' /\ v5' \in [Emtr!Commands -> Nat] /\ v9' \in Seq(MeterByte)
         /\ v4 => v3' = v3 /\ \A i \in 1..Len(cs) : v5'[cs[i]] > 0
         /\ ~ v4 /\ cs # <<>> => v3' = cs[1]
  <1>1. MeterTyped /\ v9 \in Seq(MeterByte)
    BY DEF MeterLine, MeterPart, MeterTyped
  <1>2. /\ v5' \in [Emtr!Commands -> Nat] /\ \A c \in Emtr!Commands : v5'[c] >= v5[c]
        /\ v9' \in Seq(MeterByte)
        /\ v4 \/ cs = <<>> =>
             v3' = v3 /\ v9' = v9 /\ \A i \in 1..Len(cs) : v5'[cs[i]] > 0
        /\ ~ (v4 \/ cs = <<>>) =>
             /\ v3' = cs[1]
             /\ v9 = <<>> => \A i \in 1..Len(v9') : v9'[i] = Emtr!Nak \/ v9'[i][1] = v3'
    BY ONLY <1>1, SendHolds, Emtr!Send(cs, later, v9)
  <1>3. MeterOwns'
    <2>1. CASE v10
      BY <2>1, MeterOwnsNone
    <2>2. CASE ~ v10 /\ (v4 \/ cs = <<>>)
      BY <1>2, <2>2 DEF MeterLine, MeterOwns
    <2>3. CASE ~ v10 /\ ~ (v4 \/ cs = <<>>)
      <3>1. v9 = <<>> /\ v4'
        BY <2>3 DEF MeterLine, MeterOwns
      <3> QED BY <1>2, <2>3, <3>1 DEF MeterOwns
    <2> QED BY <2>1, <2>2, <2>3
  <1> QED BY <1>2, <1>3

\* A byte of the answer comes: between packets and inside one, it ends a
\* packet, is refused or is kept (emtr_char_in).
LEMMA CharKeeps == ASSUME EmtrInv, Emtr!emtr_char_in PROVE EmtrInv'
  <1>1. MeterLine /\ v9 # <<>> /\ UNCHANGED v7 /\ v2.got \in Nat
    BY DEF EmtrInv, Emtr!emtr_char_in
  <1>2. ASSUME Emtr!Quiet(Tail(v9)) PROVE MeterLine'
    <2>1. v9' = Tail(v9) /\ v10' = (v10 /\ v9' # <<>>)
          /\ UNCHANGED <<v3, v4, v5, v6, v7, v8, v11, v12>>
      BY <1>1, <1>2 DEF Emtr!Quiet
    <2> QED BY ONLY <1>1, <2>1, QuietKeeps
  <1>3. CASE Emtr!FirstChar(Head(v9), Tail(v9))
    <2>1. v2'.got \in Nat
      BY <1>3 DEF Emtr!FirstChar, Emtr!Empty
    <2>2. CASE Head(v9) = Emtr!Nak
      BY <1>1, <1>3, <2>1, <2>2, RejectKeeps DEF Emtr!FirstChar, EmtrInv
    <2>3. CASE Head(v9) # Emtr!Nak
      <3>1. Emtr!Accept(Head(v9)[1], Tail(v9)) \/ Emtr!Quiet(Tail(v9))
        BY <1>3, <2>3 DEF Emtr!FirstChar
      <3>2. ASSUME Emtr!Accept(Head(v9)[1], Tail(v9)) PROVE MeterLine'
        BY ONLY <1>1, <2>3, <3>2, AcceptKeeps
      <3> QED BY <1>2, <2>1, <3>1, <3>2 DEF EmtrInv
    <2> QED BY <2>2, <2>3
  <1>4. CASE Emtr!NextChar(Head(v9), Tail(v9))
    <2> DEFINE c == Head(v9)
               p == Emtr!Longer(c)
    <2>1. p.got = v2.got + 1 /\ (p.of # "none" => c[2] = v2.got + 2 /\ p.of = c[1])
      BY DEF Emtr!Longer
    <2>2. p.of # "none" => c # Emtr!Nak
      BY <1>1, <2>1 DEF Emtr!Nak
    <2>3. v2'.got \in Nat
      <3>1. v2' = Emtr!Empty \/ v2' = p
        BY <1>4 DEF Emtr!NextChar
      <3> QED BY <1>1, <2>1, <3>1 DEF Emtr!Empty
    <2>4. \/ p.of # "none" /\ Emtr!Accept(p.of, Tail(v9))
          \/ Emtr!Reject(Tail(v9))
          \/ Emtr!Quiet(Tail(v9))
      BY <1>4 DEF Emtr!NextChar
    <2>5. ASSUME p.of # "none", Emtr!Accept(p.of, Tail(v9)) PROVE MeterLine'
      <3>1. p.of = Head(v9)[1] /\ Head(v9) # Emtr!Nak
        BY <2>1, <2>2, <2>5
      <3>2. Emtr!Accept(Head(v9)[1], Tail(v9))
        BY <2>5, <3>1
      <3> QED BY ONLY <1>1, <3>1, <3>2, AcceptKeeps
    <2>6. ASSUME Emtr!Reject(Tail(v9)) PROVE MeterLine'
      BY ONLY <1>1, <2>6, RejectKeeps
    <2> QED BY <1>2, <2>3, <2>4, <2>5, <2>6 DEF EmtrInv
  <1> QED BY <1>3, <1>4 DEF Emtr!emtr_char_in

\* A reading that is timed, waits or is being answered is followed by another.
LEMMA EmtrKeeps == ASSUME EmtrInv, Emtr!Next \/ UNCHANGED Emtr!vars PROVE EmtrInv'
  <1>0. MeterLine /\ v2.got \in Nat /\ MeterTyped
    BY DEF EmtrInv, MeterLine, MeterPart
  <1>1. ASSUME NEW c \in Emtr!Commands, Emtr!emtr_send(c) PROVE EmtrInv'
    <2>1. /\ v5[c] > 0 /\ ~ v4 /\ v5' = [v5 EXCEPT ![c] = @ - 1] /\ v3' = c /\ v4' = TRUE
          /\ v9' \in Emtr!Meter(v9, c) /\ UNCHANGED <<v2, v6, v7, v8, v10, v11, v12>>
      BY <1>1 DEF Emtr!emtr_send
    <2>2. v9' \in Seq(MeterByte) /\ (v9 = <<>> => \A i \in 1..Len(v9') : v9'[i] = Emtr!Nak \/ v9'[i][1] = c)
      <3>1. v9 \in Seq(MeterByte)
        BY <1>0 DEF MeterTyped
      <3> QED BY ONLY <2>1, <3>1, MeterAnswers, c \in Emtr!Commands
    <2>3. v5' \in [Emtr!Commands -> Nat]
      BY <1>0, <2>1 DEF MeterTyped
    <2>4. MeterOwns'
      <3>1. v10 \/ v9 = <<>>
        BY <1>0, <2>1 DEF MeterLine, MeterOwns
      <3> QED BY <2>1, <2>2, <3>1 DEF MeterOwns
    <2>5. Emtr!PollGoesOn'
      <3>1. CASE c = "output"
        BY <2>1, <3>1 DEF Emtr!PollGoesOn
      <3>2. CASE c # "output"
        <4>1. v5'["output"] = v5["output"]
          BY <1>0, <2>1, <3>2 DEF MeterTyped, Emtr!Commands
        <4> QED BY <1>0, <2>1, <4>1 DEF MeterLine, MeterPart, Emtr!PollGoesOn
      <3> QED BY <3>1, <3>2
    <2> QED BY <1>0, <2>1, <2>2, <2>3, <2>4, <2>5
            DEF EmtrInv, MeterLine, MeterPart, MeterTyped, MeterFound, Emtr!Attributed
  <1>2. CASE Emtr!emtr_get_output
    <2>1. /\ v6 /\ Emtr!Send(<<"output">>, <<>>, v9) /\ v4' = TRUE
          /\ UNCHANGED <<v2, v7, v8, v10, v11, v12>>
      BY <1>2 DEF Emtr!emtr_get_output
    <2>2. <<"output">> \in Seq(Emtr!Commands) /\ <<>> \in Seq(Emtr!Commands)
      BY DEF Emtr!Commands
    <2>3. /\ MeterOwns' /\ v5' \in [Emtr!Commands -> Nat] /\ v9' \in Seq(MeterByte)
          /\ v4 => v3' = v3 /\ \A i \in 1..Len(<<"output">>) : v5'[<<"output">>[i]] > 0
          /\ ~ v4 /\ <<"output">> # <<>> => v3' = <<"output">>[1]
      BY <1>0, <2>1, <2>2, SendOwns
    <2>4. (v4 => v5'["output"] > 0) /\ (~ v4 => v3' = "output")
      <3>1. 1 \in 1..Len(<<"output">>) /\ <<"output">>[1] = "output" /\ <<"output">> # <<>>
        OBVIOUS
      <3> QED BY <2>3, <3>1
    <2>5. Emtr!PollGoesOn'
      BY <2>1, <2>4 DEF Emtr!PollGoesOn
    <2> QED BY <1>0, <2>1, <2>3, <2>5
            DEF EmtrInv, MeterLine, MeterPart, MeterTyped, MeterFound, Emtr!Attributed
  <1>3. CASE Emtr!Boot
    <2>1. /\ Emtr!Wait(IF v8 THEN <<"get">> ELSE <<>>) /\ Emtr!emtr_start_read
          /\ UNCHANGED <<v2, v3, v4, v9, v10, v12>>
      BY <1>3 DEF Emtr!Boot
    <2>2. PICK cs : cs = (IF v8 THEN <<"get">> ELSE <<>>)
      OBVIOUS
    <2>3. cs \in Seq(Emtr!Commands)
      <3>1. <<"get">> \in Seq(Emtr!Commands) /\ <<>> \in Seq(Emtr!Commands)
        BY DEF Emtr!Commands
      <3> QED BY <2>2, <3>1
    <2>4. v5' \in [Emtr!Commands -> Nat]
      <3>1. Emtr!Wait(cs)
        BY <2>1, <2>2
      <3> QED BY ONLY <1>0, <2>3, <3>1, WaitCounts
    <2>5. MeterOwns'
      BY <1>0, <2>1 DEF MeterLine, MeterOwns
    <2>6. MeterFound' /\ Emtr!PollGoesOn' /\ v11' \in BOOLEAN
      BY <2>1, MeterStarts
    <2> QED BY <1>0, <2>1, <2>4, <2>5, <2>6
            DEF EmtrInv, MeterLine, MeterPart, MeterTyped, Emtr!Attributed
  <1>4. CASE Emtr!emtr_timed_out
    <2>1. /\ v4' = FALSE /\ v10' = (v9 # <<>>) /\ UNCHANGED <<v2, v3, v5, v9, v12>>
          /\ Emtr!emtr_start_read
      BY <1>4 DEF Emtr!emtr_timed_out
    <2>2. MeterFound' /\ Emtr!PollGoesOn' /\ v11' \in BOOLEAN
      BY <2>1, MeterStarts
    <2>3. v10' \in BOOLEAN /\ MeterOwns'
      BY <2>1, MeterOwnsNone
    <2> QED BY <1>0, <2>1, <2>2, <2>3
            DEF EmtrInv, MeterLine, MeterPart, MeterTyped, Emtr!Attributed
  <1>5. CASE Emtr!emtr_char_in
    BY <1>5, CharKeeps
  <1>6. CASE Emtr!Lose
    <2>1. /\ v9 # <<>> /\ v9' = Tail(v9) /\ v10' = (v10 /\ v9' # <<>>)
          /\ UNCHANGED <<v3, v4, v5, v6, v7, v8, v11, v12>> /\ v2' = v2
      BY <1>6 DEF Emtr!Lose
    <2>2. MeterLine'
      BY ONLY <1>0, <2>1, QuietKeeps
    <2> QED BY <1>0, <2>1, <2>2 DEF EmtrInv
  <1>7. ASSUME NEW sets \in {<<>>, <<"set">>}, NEW asks \in BOOLEAN,
               Emtr!emtr_handler(sets, asks)
        PROVE  EmtrInv'
    <2>1. PICK later : later = (IF asks THEN <<"get">> ELSE <<>>)
      OBVIOUS
    <2>2. sets \in Seq(Emtr!Commands) /\ later \in Seq(Emtr!Commands)
      <3>1. /\ <<"get">> \in Seq(Emtr!Commands) /\ <<"set">> \in Seq(Emtr!Commands)
            /\ <<>> \in Seq(Emtr!Commands)
        BY DEF Emtr!Commands, Emtr!Writes
      <3> QED BY <2>1, <3>1
    <2>3. /\ Emtr!Send(sets, later, v9) /\ v4' = (v4 \/ sets # <<>>)
          /\ UNCHANGED <<v2, v10, v12>> /\ Emtr!emtr_start_read
      BY <1>7, <2>1 DEF Emtr!emtr_handler
    <2>4. v4' \in BOOLEAN /\ (v4' \/ (sets = <<>> /\ ~ v4))
      <3>1. v4 \in BOOLEAN
        BY <1>0 DEF MeterTyped
      <3>2. CASE sets = <<>>
        BY <2>3, <3>1, <3>2
      <3>3. CASE sets # <<>>
        BY <2>3, <3>1, <3>3
      <3> QED BY <3>2, <3>3
    <2>5. MeterOwns' /\ v5' \in [Emtr!Commands -> Nat] /\ v9' \in Seq(MeterByte)
      BY <1>0, <2>2, <2>3, <2>4, SendOwns
    <2>6. MeterFound' /\ Emtr!PollGoesOn' /\ v11' \in BOOLEAN
      BY <2>3, MeterStarts
    <2> QED BY <1>0, <2>3, <2>4, <2>5, <2>6
            DEF EmtrInv, MeterLine, MeterPart, MeterTyped, Emtr!Attributed
  <1>8. CASE UNCHANGED Emtr!vars
    BY <1>8 DEF Emtr!vars, EmtrInv, MeterLine, MeterPart, MeterTyped, MeterOwns, MeterFound,
            Emtr!PollGoesOn, Emtr!Attributed
  <1> QED BY <1>1, <1>2, <1>3, <1>4, <1>5, <1>6, <1>7, <1>8 DEF Emtr!Next
-----------------------------------------------------------------------------
(* The fingerprint reader's line, held as the meter's is.  A reader not    *)
(* found yet has its first polling to come, or lost it.                    *)
FingerAnswer == (Finger!Commands \cup {"none"}) \X {"ok", "error"}

FingerTyped ==
  /\ v1 \in Finger!Commands \cup {"none"}
  /\ v2 \in Nat /\ v11 \in Seq(FingerAnswer)
  /\ v4 \in BOOLEAN /\ v12 \in BOOLEAN /\ v13 \in BOOLEAN /\ v14 \in BOOLEAN

FingerOwns ==
  ~ v12 => /\ \A i \in 1..Len(v11) : v11[i][1] = v3
           /\ ~ v4 => v11 = <<>>

FingerFound == ~ v7 => "start" \in v6 \/ v14

FingerInv == FingerTyped /\ FingerOwns /\ FingerFound /\ Finger!PollGoesOn /\ Finger!Attributed

LEMMA FingerStarts == ASSUME Finger!Init PROVE FingerInv
  <1>1. /\ v1 = "none" /\ v2 = 0 /\ v4 = FALSE /\ v12 = FALSE /\ v13 = FALSE /\ v14 = FALSE
        /\ v11 = <<>> /\ "start" \in v6
    BY DEF Finger!Init
  <1>2. <<>> \in Seq(FingerAnswer) /\ \A i \in 1..Len(v11) : FALSE
    BY <1>1
  <1> QED BY <1>1, <1>2
          DEF FingerInv, FingerTyped, FingerOwns, FingerFound, Finger!PollGoesOn,
              Finger!Attributed

\* What the reader sends answers the command it was sent.
LEMMA ReaderAnswers ==
  ASSUME NEW line \in Seq(FingerAnswer), NEW c \in Finger!Commands \cup {"none"},
         NEW l \in Finger!Reader(line, c)
  PROVE  /\ l \in Seq(FingerAnswer)
         /\ line = <<>> => \A i \in 1..Len(l) : l[i][1] = c
  <1>1. CASE l = line
    BY <1>1
  <1>2. ASSUME NEW s \in {"ok", "error"}, l = Append(line, <<c, s>>)
        PROVE  /\ l \in Seq(FingerAnswer)
               /\ line = <<>> => \A i \in 1..Len(l) : l[i][1] = c
    <2>1. <<c, s>> \in FingerAnswer
      BY DEF FingerAnswer
    <2> QED BY <1>2, <2>1
  <1> QED BY <1>1, <1>2 DEF Finger!Reader

LEMMA FingerOwnsNone == ASSUME v11' = <<>> \/ v12' PROVE FingerOwns'
  <1>1. v11' = <<>> => \A i \in 1..Len(v11') : FALSE
    OBVIOUS
  <1> QED BY <1>1 DEF FingerOwns

\* A command is put in the packet, and sent or left to wait for the line
\* (finger_execute).
LEMMA ExecuteHolds ==
  ASSUME FingerTyped, NEW c \in Finger!Commands, NEW line \in Seq(FingerAnswer),
         NEW free \in BOOLEAN, Finger!finger_execute(c, line, free)
  PROVE  /\ v1' = c /\ v2' \in Nat /\ v11' \in Seq(FingerAnswer) /\ v4' = ~ free
         /\ v4 => v2' > 0 /\ v3' = v3 /\ v11' = line
         /\ ~ v4 =>
              /\ v2' = v2 /\ v3' = c
              /\ line = <<>> => \A i \in 1..Len(v11') : v11'[i][1] = c
  <1>1. CASE v4
    BY <1>1 DEF Finger!finger_execute, FingerTyped
  <1>2. CASE ~ v4
    <2>1. v1' = c /\ v2' = v2 /\ v3' = c /\ v11' \in Finger!Reader(line, c) /\ v4' = ~ free
      BY <1>2 DEF Finger!finger_execute
    <2>2. v11' \in Seq(FingerAnswer) /\ (line = <<>> => \A i \in 1..Len(v11') : v11'[i][1] = c)
      BY <2>1, ReaderAnswers
    <2> QED BY <1>2, <2>1, <2>2 DEF FingerTyped
  <1> QED BY <1>1, <1>2

\* ... from a timer or a handler: the line it finds free is empty.
LEMMA ExecuteOwns ==
  ASSUME FingerInv, NEW c \in Finger!Commands, Finger!finger_execute(c, v11, FALSE), v12' = v12
  PROVE  /\ FingerOwns' /\ v11' \in Seq(FingerAnswer)
         /\ v1' = c /\ v2' \in Nat /\ v4' = TRUE
         /\ v4 => v2' > 0 /\ v3' = v3
         /\ ~ v4 => v2' = v2 /\ v3' = c
  <1>1. FingerTyped /\ v11 \in Seq(FingerAnswer) /\ FALSE \in BOOLEAN
    BY DEF FingerInv, FingerTyped
  <1>2. /\ v1' = c /\ v2' \in Nat /\ v11' \in Seq(FingerAnswer) /\ v4' = ~ FALSE
        /\ v4 => v2' > 0 /\ v3' = v3 /\ v11' = v11
        /\ ~ v4 =>
             /\ v2' = v2 /\ v3' = c
             /\ v11 = <<>> => \A i \in 1..Len(v11') : v11'[i][1] = c
    BY ONLY <1>1, ExecuteHolds, Finger!finger_execute(c, v11, FALSE), c \in Finger!Commands
  <1>3. FingerOwns'
    <2>1. CASE v12
      BY <2>1, FingerOwnsNone
    <2>2. CASE ~ v12 /\ v4
      BY <1>2, <2>2 DEF FingerInv, FingerOwns
    <2>3. CASE ~ v12 /\ ~ v4
      <3>1. v11 = <<>>
        BY <2>3 DEF FingerInv, FingerOwns
      <3> QED BY <1>2, <2>3, <3>1 DEF FingerOwns
    <2> QED BY <2>1, <2>2, <2>3
  <1> QED BY <1>2, <1>3

\* The polling starts anew, or is known to have stopped (finger_start_read).
LEMMA FingerPolls ==
  ASSUME Finger!finger_start_read
  PROVE  FingerFound' /\ Finger!PollGoesOn' /\ v14' \in BOOLEAN
  BY DEF Finger!finger_start_read, FingerFound, Finger!PollGoesOn

\* The answer to a command of the polling is followed by the next command, by
\* the polling anew, or by nothing, which is remembered (finger_read and the
\* callbacks after it).
LEMMA PolledKeeps ==
  ASSUME FingerInv, NEW line \in Seq(FingerAnswer), NEW ok \in BOOLEAN,
         Finger!Polled(ok, line), v7' = TRUE
  PROVE  /\ v1' \in Finger!Commands \cup {"none"} /\ v2' \in Nat
         /\ v4' = FALSE /\ v11' \in Seq(FingerAnswer) /\ v14' \in BOOLEAN
         /\ Finger!PollGoesOn'
  <1> DEFINE b == IF v3 = "gen_img" /\ ok THEN (IF v9 = 1 THEN 2 ELSE 1) ELSE v9
  <1>1. PICK c : c = (IF ok THEN Finger!NextOf(b) ELSE "start")
    OBVIOUS
  <1>2. c \in {"start", "nothing"} \cup Finger!Polling
    BY <1>1 DEF Finger!NextOf, Finger!Polling
  <1>3. \/ c = "start" /\ Finger!NoCommand(line) /\ Finger!finger_start_read
        \/ c = "nothing" /\ Finger!NoCommand(line) /\ v14' = TRUE
        \/ /\ c \notin {"start", "nothing"}
           /\ Finger!finger_execute(c, line, TRUE) /\ v14' = (v14 \/ Finger!Harm(TRUE))
    BY <1>1 DEF Finger!Polled
  <1>4. FingerTyped
    BY DEF FingerInv
  <1>5. CASE c = "start" /\ Finger!NoCommand(line) /\ Finger!finger_start_read
    BY <1>4, <1>5, FingerPolls DEF Finger!NoCommand, FingerTyped
  <1>6. CASE c = "nothing" /\ Finger!NoCommand(line) /\ v14' = TRUE
    BY <1>4, <1>6 DEF Finger!NoCommand, FingerTyped, Finger!PollGoesOn
  <1>7. CASE /\ c \in Finger!Polling
             /\ Finger!finger_execute(c, line, TRUE) /\ v14' = (v14 \/ Finger!Harm(TRUE))
    <2>1. c \in Finger!Commands /\ TRUE \in BOOLEAN
      BY <1>7 DEF Finger!Commands
    <2>2. /\ v1' = c /\ v2' \in Nat /\ v11' \in Seq(FingerAnswer) /\ v4' = ~ TRUE
          /\ v4 => v2' > 0
      BY ONLY <1>4, <1>7, <2>1, ExecuteHolds, line \in Seq(FingerAnswer)
    <2>3. CASE v4
      <3>1. v14' \in BOOLEAN
        BY <1>4, <1>7 DEF FingerTyped
      <3> QED BY <1>7, <2>1, <2>2, <2>3, <3>1 DEF Finger!PollGoesOn
    <2>4. CASE ~ v4
      <3>1. v14' = TRUE
        BY <1>7, <2>4 DEF Finger!Harm
      <3> QED BY <2>1, <2>2, <3>1 DEF Finger!PollGoesOn
    <2> QED BY <2>3, <2>4
  <1> QED BY <1>2, <1>3, <1>5, <1>6, <1>7

\* An answer is that to the last command, and the polling outlives it
\* (finger_receive).
LEMMA ReceiveKeeps == ASSUME FingerInv, Finger!finger_receive PROVE FingerInv'
  <1>1. PICK a, line : a = Head(v11) /\ line = Tail(v11)
    OBVIOUS
  <1>2. /\ v11 # <<>> /\ v7' = TRUE /\ v13' = (v13 \/ (v3 # a[1] /\ ~ v12))
        /\ v12' = (v11' # <<>>)
        /\ IF v3 \in Finger!Polling THEN Finger!Polled(a[2] = "ok", line)
                                    ELSE Finger!Told(a[2] = "ok", line)
    BY <1>1 DEF Finger!finger_receive
  <1>3. v11 \in Seq(FingerAnswer) /\ line \in Seq(FingerAnswer) /\ a = v11[1] /\ 1 \in 1..Len(v11)
    BY <1>1, <1>2 DEF FingerInv, FingerTyped
  <1>4. v13' = FALSE
    <2>1. ~ v12 => v3 = a[1]
      BY <1>3 DEF FingerInv, FingerOwns
    <2> QED BY <1>2, <2>1 DEF FingerInv, FingerTyped, Finger!Attributed
  <1>5. FingerOwns' /\ v12' \in BOOLEAN
    BY <1>2, FingerOwnsNone
  <1>6. /\ v1' \in Finger!Commands \cup {"none"} /\ v2' \in Nat
        /\ v4' = FALSE /\ v11' \in Seq(FingerAnswer) /\ v14' \in BOOLEAN
        /\ Finger!PollGoesOn'
    <2>1. CASE v3 \in Finger!Polling
      <3>1. Finger!Polled(a[2] = "ok", line) /\ (a[2] = "ok") \in BOOLEAN /\ v7' = TRUE
        BY <1>2, <2>1
      <3> QED BY ONLY FingerInv, <1>3, <3>1, PolledKeeps
    <2>2. CASE v3 \notin Finger!Polling
      <3>1. Finger!Told(a[2] = "ok", line)
        BY <1>2, <2>2
      <3>2. UNCHANGED <<v1, v2, v3, v5, v14>> /\ v11' = line /\ v4' = FALSE
        BY <3>1 DEF Finger!Told, Finger!NoCommand
      <3>3. "start" \in v6 => "start" \in v6'
        BY <3>1 DEF Finger!Told
      <3>4. v14 \in BOOLEAN /\ v1 \in Finger!Commands \cup {"none"} /\ v2 \in Nat
        BY DEF FingerInv, FingerTyped
      <3>5. Finger!PollGoesOn'
        BY <1>2, <2>2, <3>2, <3>3 DEF FingerInv, FingerFound, Finger!PollGoesOn
      <3> QED BY <1>3, <3>2, <3>4, <3>5
    <2> QED BY <2>1, <2>2
  <1> QED BY <1>2, <1>4, <1>5, <1>6
          DEF FingerInv, FingerTyped, FingerFound, Finger!Attributed

LEMMA FingerKeeps ==
  ASSUME FingerInv, Finger!Next \/ UNCHANGED Finger!vars PROVE FingerInv'
  <1>0. FingerTyped /\ Finger!Attributed /\ FingerOwns /\ FingerFound /\ Finger!PollGoesOn
    BY DEF FingerInv
  <1>1. CASE Finger!finger_send
    <2>1. /\ v2 > 0 /\ ~ v4 /\ v2' = v2 - 1 /\ v3' = v1 /\ v4' = TRUE
          /\ v11' \in Finger!Reader(v11, v1) /\ UNCHANGED <<v1, v5, v6, v7, v12, v13, v14>>
      BY <1>1 DEF Finger!finger_send
    <2>2. v11' \in Seq(FingerAnswer) /\ (v11 = <<>> => \A i \in 1..Len(v11') : v11'[i][1] = v1)
      <3>1. v11 \in Seq(FingerAnswer) /\ v1 \in Finger!Commands \cup {"none"}
        BY <1>0 DEF FingerTyped
      <3> QED BY ONLY <2>1, <3>1, ReaderAnswers
    <2>3. FingerOwns'
      <3>1. v12 \/ v11 = <<>>
        BY <1>0, <2>1 DEF FingerOwns
      <3> QED BY <2>1, <2>2, <3>1 DEF FingerOwns
    <2>4. Finger!PollGoesOn'
      BY <1>0, <2>1 DEF Finger!PollGoesOn
    <2>5. v2' \in Nat
      BY <1>0, <2>1 DEF FingerTyped
    <2> QED BY <1>0, <2>1, <2>2, <2>3, <2>4, <2>5
            DEF FingerInv, FingerTyped, FingerFound, Finger!Attributed
  <1>2. CASE Finger!finger_gen_img
    <2>1. Finger!finger_execute("gen_img", v11, FALSE) /\ UNCHANGED <<v6, v7, v12, v13, v14>>
      BY <1>2 DEF Finger!finger_gen_img
    <2>2. "gen_img" \in Finger!Commands /\ "gen_img" \in Finger!Polling
      BY DEF Finger!Commands, Finger!Polling
    <2>3. v12' = v12
      BY <2>1
    <2>4. /\ FingerOwns' /\ v11' \in Seq(FingerAnswer)
          /\ v1' = "gen_img" /\ v2' \in Nat /\ v4' = TRUE
          /\ v4 => v2' > 0 /\ v3' = v3
          /\ ~ v4 => v2' = v2 /\ v3' = "gen_img"
      BY ONLY FingerInv, <2>1, <2>2, <2>3, ExecuteOwns
    <2>5. Finger!PollGoesOn'
      BY <2>2, <2>4 DEF Finger!PollGoesOn
    <2> QED BY <1>0, <2>1, <2>2, <2>4, <2>5
            DEF FingerInv, FingerTyped, FingerFound, Finger!Attributed
  <1>3. ASSUME NEW c \in {"password", "params"}, Finger!Row(c) PROVE FingerInv'
    <2>1. /\ v6' = v6 \ {c} /\ Finger!finger_execute(c, v11, FALSE)
          /\ v14' = (v14 \/ Finger!Harm(FALSE)) /\ UNCHANGED <<v5, v7, v12, v13>>
      BY <1>3 DEF Finger!Row
    <2>2. c \in Finger!Commands /\ c # "start" /\ v12' = v12
      BY <2>1 DEF Finger!Commands, Finger!Polling
    <2>3. /\ FingerOwns' /\ v11' \in Seq(FingerAnswer)
          /\ v1' = c /\ v2' \in Nat /\ v4' = TRUE
          /\ v4 => v2' > 0 /\ v3' = v3
          /\ ~ v4 => v2' = v2 /\ v3' = c
      BY ONLY FingerInv, <2>1, <2>2, ExecuteOwns
    <2>4. Finger!Harm(FALSE) <=> (v2 > 0 /\ v1 \in Finger!Polling) \/ (~ v4 /\ v12)
      BY DEF Finger!Harm
    <2>5. "start" \in v6 => "start" \in v6'
      BY <2>1, <2>2
    <2>6. CASE Finger!Harm(FALSE)
      <3>1. v14' = TRUE
        BY <2>1, <2>6
      <3> QED BY <1>0, <2>1, <2>2, <2>3, <3>1
              DEF FingerInv, FingerTyped, FingerFound, Finger!PollGoesOn, Finger!Attributed
    <2>7. CASE ~ Finger!Harm(FALSE)
      <3>1. v14' = v14
        BY <1>0, <2>1, <2>7 DEF FingerTyped
      <3>2. Finger!PollGoesOn'
        BY <1>0, <2>1, <2>2, <2>3, <2>4, <2>5, <2>7, <3>1 DEF Finger!PollGoesOn
      <3>3. FingerFound'
        BY <1>0, <2>1, <2>5, <3>1 DEF FingerFound
      <3> QED BY <1>0, <2>1, <2>2, <2>3, <3>1, <3>2, <3>3
              DEF FingerInv, FingerTyped, Finger!Attributed
    <2> QED BY <2>6, <2>7
  <1>4. CASE Finger!Start
    <2>1. UNCHANGED <<v1, v2, v3, v4, v11, v12, v13>> /\ Finger!finger_start_read
      BY <1>4 DEF Finger!Start
    <2> QED BY <1>0, <2>1, FingerPolls
            DEF FingerInv, FingerTyped, FingerOwns, Finger!Attributed
  <1>5. CASE Finger!finger_timed_out
    <2>1. /\ UNCHANGED <<v1, v2, v3, v11, v13>> /\ Finger!finger_start_read
          /\ v4' = FALSE /\ v12' = (v11' # <<>>)
      BY <1>5 DEF Finger!finger_timed_out
    <2>2. FingerOwns' /\ v12' \in BOOLEAN
      BY <2>1, FingerOwnsNone
    <2> QED BY <1>0, <2>1, <2>2, FingerPolls DEF FingerInv, FingerTyped, Finger!Attributed
  <1>6. CASE Finger!finger_receive
    BY <1>6, ReceiveKeeps
  <1>7. CASE Finger!WrongAddress
    <2>1. /\ v11 # <<>> /\ v11' = Tail(v11) /\ v7' = TRUE /\ v2' = v2 + 1
          /\ v12' = (v12 /\ v11' # <<>>)
          /\ UNCHANGED <<v1, v3, v4, v5, v6, v13, v14>>
      BY <1>7 DEF Finger!WrongAddress
    <2>2. /\ v11' \in Seq(FingerAnswer) /\ Len(v11) \in Nat /\ Len(v11') = Len(v11) - 1
          /\ \A i \in 1..Len(v11') : v11'[i] = v11[i + 1]
      BY <1>0, <2>1 DEF FingerTyped
    <2>3. FingerOwns'
      <3>1. CASE v11' = <<>> \/ v12'
        BY <3>1, FingerOwnsNone
      <3>2. CASE v11' # <<>> /\ ~ v12'
        <4>1. ~ v12
          BY <2>1, <3>2
        <4> QED BY <1>0, <2>1, <2>2, <4>1 DEF FingerOwns
      <3> QED BY <3>1, <3>2
    <2>4. v2' \in Nat /\ v2' > 0 /\ v12' \in BOOLEAN
      BY <1>0, <2>1 DEF FingerTyped
    <2>5. Finger!PollGoesOn'
      BY <1>0, <2>1, <2>4 DEF FingerFound, Finger!PollGoesOn
    <2> QED BY <1>0, <2>1, <2>2, <2>3, <2>4, <2>5
            DEF FingerInv, FingerTyped, FingerFound, Finger!Attributed
  <1>8. CASE Finger!finger_handler
    <2>1. Finger!finger_start_read /\ UNCHANGED <<v12, v13>>
      BY <1>8 DEF Finger!finger_handler
    <2>2. FingerFound' /\ Finger!PollGoesOn' /\ v14' \in BOOLEAN
      BY <2>1, FingerPolls
    <2>3. UNCHANGED <<v1, v2, v3, v4, v11>> \/ Finger!finger_execute("set", v11, FALSE)
      BY <1>8 DEF Finger!finger_handler
    <2>4. CASE UNCHANGED <<v1, v2, v3, v4, v11>>
      BY <1>0, <2>1, <2>2, <2>4 DEF FingerInv, FingerTyped, FingerOwns, Finger!Attributed
    <2>5. CASE Finger!finger_execute("set", v11, FALSE)
      <3>1. "set" \in Finger!Commands /\ v12' = v12
        BY <2>1 DEF Finger!Commands
      <3>2. /\ FingerOwns' /\ v11' \in Seq(FingerAnswer)
            /\ v1' = "set" /\ v2' \in Nat /\ v4' = TRUE
        BY ONLY FingerInv, <2>5, <3>1, ExecuteOwns
      <3> QED BY <1>0, <2>1, <2>2, <3>1, <3>2 DEF FingerInv, FingerTyped, Finger!Attributed
    <2> QED BY <2>3, <2>4, <2>5
  <1>9. CASE UNCHANGED Finger!vars
    BY <1>0, <1>9 DEF Finger!vars, FingerInv, FingerTyped, FingerOwns, FingerFound,
                      Finger!PollGoesOn, Finger!Attributed
  <1> QED BY <1>1, <1>2, <1>3, <1>4, <1>5, <1>6, <1>7, <1>8, <1>9 DEF Finger!Next
-----------------------------------------------------------------------------
(* A key.  What was told last tells where the press is: a key that is up   *)
(* had its release told, one whose press is still to be told is seen by no *)
(* other timer, and while its release is looked for no edge interrupts.    *)
KeyEnded == {"none", "Short Release", "Long Release"}

KeysTyped ==
  /\ v1 \in {0, 1} /\ v4 \in {0, 1}
  /\ v3 \in BOOLEAN /\ v5 \in BOOLEAN /\ v6 \in BOOLEAN /\ v7 \in BOOLEAN /\ v8 \in BOOLEAN
  /\ v9 \in {"none", "high", "low"}

KeyUp == v4 = 1 => v10 \in KeyEnded /\ ~ v6 /\ ~ v7 /\ ~ v8 /\ v9 = "none"
KeyDown ==
  v4 = 0 => /\ v6 => v10 \in KeyEnded /\ ~ v5 /\ v9 = "none"
            /\ ~ v6 => v10 = IF v5 THEN "Long Press" ELSE "Press"
            /\ v5 => ~ v7
KeyDeaf == v8 \/ v9 # "none" => v2 = "OFF" /\ ~ v3 /\ (v8 => v9 = "none")

KeysInv == KeysTyped /\ KeyUp /\ KeyDown /\ KeyDeaf

LEMMA KeysStarts == ASSUME Keys!Init PROVE KeysInv
  <1>1. /\ v1 \in {0, 1} /\ v4 = 1 /\ v3 = FALSE /\ v5 = FALSE /\ v6 = FALSE /\ v7 = FALSE
        /\ v8 = FALSE /\ v9 = "none" /\ v10 = "none"
    BY DEF Keys!Init
  <1>2. KeysTyped
    BY <1>1 DEF KeysTyped
  <1>3. KeyUp /\ KeyDown /\ KeyDeaf
    BY <1>1 DEF KeyUp, KeyDown, KeyDeaf, KeyEnded
  <1> QED BY <1>2, <1>3 DEF KeysInv

\* Bouncing edges, late interrupts and the two halves of the callback keep to
\* one press (key_intr_handler, key_50ms_cb, key_5s_cb).
LEMMA KeysKeeps == ASSUME KeysInv, Keys!Next \/ UNCHANGED Keys!vars PROVE KeysInv'
  <1> USE DEF KeysInv, KeysTyped, KeyUp, KeyDown, KeyDeaf, KeyEnded
  <1>1. CASE Keys!Edge
    <2>1. v1' = 1 - v1 /\ v3' = (v3 \/ v2 = IF v1 = 1 THEN "NEG" ELSE "POS")
          /\ UNCHANGED <<v2, v4, v5, v6, v7, v8, v9, v10>>
      BY <1>1 DEF Keys!Edge
    <2>2. v3' \in BOOLEAN
      BY <2>1
    <2>4. v1' \in {0, 1}
      <3>1. v1 \in {0, 1} /\ v1' = 1 - v1
        BY <2>1
      <3> QED BY ONLY <3>1
    <2>3. v8 \/ v9 # "none" => ~ v3'
      <3>1. v2 = "OFF" => (v2 = IF v1 = 1 THEN "NEG" ELSE "POS") = FALSE
        OBVIOUS
      <3> QED BY <2>1, <3>1
    <2> QED BY <2>1, <2>2, <2>3, <2>4
  <1>2. CASE Keys!Interrupt
    <2>1. v3 /\ v3' = FALSE /\ ~ v8 /\ v9 = "none" /\ UNCHANGED <<v1, v9, v10>>
      BY <1>2 DEF Keys!Interrupt
    <2>2. CASE v4 = 1
      BY <1>2, <2>1, <2>2 DEF Keys!Interrupt
    <2>3. CASE v4 = 0
      BY <1>2, <2>1, <2>3 DEF Keys!Interrupt
    <2> QED BY <2>2, <2>3
  <1>3. CASE Keys!Press
    BY <1>3 DEF Keys!Press, Keys!Idle
  <1>4. CASE Keys!Long
    BY <1>4 DEF Keys!Long, Keys!Idle
  <1>5. CASE Keys!Sample
    BY <1>5 DEF Keys!Sample, Keys!Idle
  <1>6. CASE Keys!Release
    <2>1. v9 # "none" /\ v9' = "none" /\ v4 = 0 /\ ~ v6 /\ ~ v8 /\ UNCHANGED <<v1, v3, v5, v6, v8>>
      BY <1>6 DEF Keys!Release
    <2>2. CASE v9 = "high"
      <3>1. v7' = FALSE /\ v4' = 1 /\ v10' \in KeyEnded
        BY <1>6, <2>2 DEF Keys!Release
      <3> QED BY <2>1, <3>1
    <2>3. CASE v9 # "high"
      <3>1. v2' = "POS" /\ UNCHANGED <<v4, v7, v10>>
        BY <1>6, <2>3 DEF Keys!Release
      <3> QED BY <2>1, <3>1
    <2> QED BY <2>2, <2>3
  <1>7. CASE Keys!CloseConnections \/ Keys!RestoreDefaults
    <2>1. UNCHANGED <<v1, v2, v3, v4, v5, v6, v7, v8, v9, v10>>
      BY <1>7 DEF Keys!CloseConnections, Keys!RestoreDefaults
    <2> QED BY <2>1
  <1>8. CASE UNCHANGED Keys!vars
    BY <1>8 DEF Keys!vars
  <1> QED BY <1>1, <1>2, <1>3, <1>4, <1>5, <1>6, <1>7, <1>8 DEF Keys!Next

\* What is told is the next of a press (button_press, button_long_press,
\* button_short_release, button_long_release).
LEMMA KeysTell == ASSUME KeysInv, Keys!Next \/ UNCHANGED Keys!vars PROVE Keys!InTurn
  <1> USE DEF KeysInv, KeysTyped, KeyUp, KeyDown, KeyDeaf, KeyEnded
  <1>1. CASE Keys!Press
    BY <1>1 DEF Keys!Press, Keys!Idle, Keys!InTurn
  <1>2. CASE Keys!Long
    BY <1>2 DEF Keys!Long, Keys!Idle, Keys!InTurn
  <1>3. CASE Keys!Release
    BY <1>3 DEF Keys!Release, Keys!InTurn
  <1>4. v10' = v10 => Keys!InTurn
    BY DEF Keys!InTurn
  <1>5. CASE \/ Keys!Edge \/ Keys!Interrupt \/ Keys!Sample
             \/ Keys!CloseConnections \/ Keys!RestoreDefaults \/ UNCHANGED Keys!vars
    BY <1>4, <1>5 DEF Keys!Edge, Keys!Interrupt, Keys!Sample, Keys!CloseConnections,
                      Keys!RestoreDefaults, Keys!vars
  <1> QED BY <1>1, <1>2, <1>3, <1>5 DEF Keys!Next
-----------------------------------------------------------------------------
(* The thermocouple *)
TempInv == v1 \in Int /\ v3 \in Int /\ v4 \in Int /\ Temp!NoCreep

LEMMA TempStarts == ASSUME Temp!Init PROVE TempInv
  <1>1. v1 \in Int /\ v3 = 0 /\ v4 = 0 /\ v8 = FALSE
    BY ThermoAssumption DEF Temp!Init
  <1> QED BY <1>1 DEF TempInv, Temp!NoCreep

\* A quotient, towards zero, of what is left is some of it, and has its sign.
LEMMA SomeOfIt ==
  ASSUME NEW a \in Nat
  PROVE  a \div TempFactor \in Nat /\ a \div TempFactor <= a
  <1>1. TempFactor \in Nat /\ TempFactor >= 1
    BY ThermoAssumption
  <1> DEFINE q == a \div TempFactor
  <1>2. q \in Int /\ TempFactor * q <= a /\ a < TempFactor * q + TempFactor
    BY <1>1
  <1> HIDE DEF q
  <1>3. q >= 0
    <2>1. SUFFICES ASSUME q <= -1 PROVE FALSE
      BY <1>2
    <2>2. TempFactor * (q + 1) <= 0
      BY <1>1, <1>2, <2>1
    <2> QED BY <1>1, <1>2, <2>2
  <1>4. q <= TempFactor * q
    <2>1. (TempFactor - 1) * q >= 0
      BY <1>1, <1>2, <1>3
    <2> QED BY <1>1, <1>2, <2>1
  <1>5. q \in Nat /\ q <= a
    BY <1>1, <1>2, <1>3, <1>4
  <1> QED BY <1>5 DEF q

LEMMA QuotientTowards ==
  ASSUME NEW d \in Int
  PROVE  /\ Temp!Quotient(d, TempFactor) \in Int
         /\ d >= 0 => Temp!Quotient(d, TempFactor) \in 0..d
         /\ d <= 0 => Temp!Quotient(d, TempFactor) \in d..0
  <1>1. CASE d < 0
    <2>1. -d \in Nat
      BY <1>1
    <2>2. PICK q : q = (-d) \div TempFactor
      OBVIOUS
    <2>3. q \in Nat /\ q <= -d
      BY <2>1, <2>2, SomeOfIt
    <2>4. Temp!Quotient(d, TempFactor) = -q
      BY <1>1, <2>2 DEF Temp!Quotient
    <2> QED BY <1>1, <2>3, <2>4
  <1>2. CASE d >= 0
    <2>1. d \in Nat
      BY <1>2
    <2>2. PICK q : q = d \div TempFactor
      OBVIOUS
    <2>3. q \in Nat /\ q <= d
      BY <2>1, <2>2, SomeOfIt
    <2>4. Temp!Quotient(d, TempFactor) = q
      BY <1>2, <2>2 DEF Temp!Quotient
    <2> QED BY <1>2, <2>3, <2>4
  <1> QED BY <1>1, <1>2

\* What is read is the new value or is approached by it (tc_read).
LEMMA ReadTowards ==
  ASSUME TempInv, Temp!Read
  PROVE  /\ v3' \in Int
         /\ ~ v2 => \E q \in Int : /\ v3' = v3 + q
                                   /\ (v1 - v3 >= 0 => q \in 0..(v1 - v3))
                                   /\ (v1 - v3 <= 0 => q \in (v1 - v3)..0)
  <1>1. PICK d : d = v1 - v3
    OBVIOUS
  <1>2. d \in Int /\ v1 \in Int /\ v3 \in Int
    BY <1>1 DEF TempInv
  <1>3. PICK q : q = Temp!Quotient(d, TempFactor)
    OBVIOUS
  <1>4. q \in Int /\ (d >= 0 => q \in 0..d) /\ (d <= 0 => q \in d..0)
    BY <1>2, <1>3, QuotientTowards
  <1>5. v3' = IF v2 THEN v1 ELSE v3 + q
    BY <1>1, <1>3 DEF Temp!Read
  <1> QED BY <1>1, <1>2, <1>4, <1>5

LEMMA TempKeeps == ASSUME TempInv, Temp!Next \/ UNCHANGED Temp!vars PROVE TempInv'
  <1>1. CASE Temp!mod_tc_mk2_event
    <2>1. v1' = v1 /\ (Temp!Read \/ v3' = v3)
      BY <1>1 DEF Temp!mod_tc_mk2_event, Temp!ReadFails
    <2>2. v3' \in Int
      BY <2>1, ReadTowards DEF TempInv
    <2>3. v4' = v3' \/ (v4' = v4 /\ ~ (Temp!Distance(v3', v4) > TempThreshold))
      BY <1>1 DEF Temp!mod_tc_mk2_event
    <2>4. v4' \in Int /\ Temp!Distance(v3', v4') <= TempThreshold
      <3>1. CASE v4' = v3'
        <4>1. ASSUME NEW r \in Int PROVE Temp!Distance(r, r) <= TempThreshold
          BY ThermoAssumption DEF Temp!Distance
        <4> QED BY <2>2, <3>1, <4>1
      <3>2. CASE v4' = v4 /\ ~ (Temp!Distance(v3', v4) > TempThreshold)
        <4>1. Temp!Distance(v3', v4) \in Int /\ v4 \in Int
          BY <2>2 DEF Temp!Distance, TempInv
        <4>2. Temp!Distance(v3', v4') = Temp!Distance(v3', v4)
          BY <3>2
        <4> QED BY <3>2, <4>1, <4>2, ThermoAssumption
      <3> QED BY <2>3, <3>1, <3>2
    <2> QED BY <2>1, <2>2, <2>3, <2>4 DEF TempInv, Temp!NoCreep
  <1>2. CASE Temp!Request
    <2>1. /\ v1' = v1 /\ v4' = v4
          /\ \/ Temp!Read /\ v8' = (v8 /\ v3' = v3)
             \/ v3' = v3 /\ v8' = v8
      BY <1>2 DEF Temp!Request, Temp!ReadFails
    <2>2. v3' \in Int
      BY <2>1, ReadTowards DEF TempInv
    <2>3. v8' => v8 /\ v3' = v3
      BY <2>1
    <2> QED BY <2>1, <2>2, <2>3 DEF TempInv, Temp!NoCreep
  <1>3. CASE Temp!Warm
    BY <1>3, ThermoAssumption DEF Temp!Warm, TempInv, Temp!NoCreep
  <1>4. CASE UNCHANGED Temp!vars
    BY <1>4 DEF Temp!vars, TempInv, Temp!NoCreep
  <1> QED BY <1>1, <1>2, <1>3, <1>4 DEF Temp!Next

\* Reading on never passes what is read (tc_read).
LEMMA TempNears == ASSUME TempInv, Temp!Next \/ UNCHANGED Temp!vars PROVE Temp!Approaches
  <1>1. v3' = v3 \/ Temp!Read
    BY DEF Temp!Next, Temp!mod_tc_mk2_event, Temp!Request, Temp!ReadFails, Temp!Warm, Temp!vars
  <1>2. ASSUME Temp!Read, ~ v2, v3' # v3
        PROVE  Temp!Distance(v1, v3') < Temp!Distance(v1, v3) /\ (v1 > v3 <=> v3' > v3)
    <2>1. PICK q \in Int : /\ v3' = v3 + q
                           /\ (v1 - v3 >= 0 => q \in 0..(v1 - v3))
                           /\ (v1 - v3 <= 0 => q \in (v1 - v3)..0)
      BY <1>2, ReadTowards
    <2>2. v1 \in Int /\ v3 \in Int /\ q # 0
      BY <1>2, <2>1 DEF TempInv
    <2> QED BY <2>1, <2>2 DEF Temp!Distance
  <1> QED BY <1>1, <1>2 DEF Temp!Approaches
-----------------------------------------------------------------------------
(* The meter's registers: v1 is the block or counter that is followed, v3  *)
(* and v4 the meter's and what the firmware keeps of it, v5 tells that it  *)
(* came from the meter, v6 and v7 are what will ask and be written, v8 the *)
(* fields that were asked to be set, and v9 that a block was written       *)
(* without having been read.                                               *)

\* The reading told last is near the last one.
RegsTold == v10 \in Int /\ v11 \in Int /\ Regs!ReadingTold

\* A block whose fields were made so or asked for.
RegsGood(b) == \A f \in Registers : b[f] = 1 \/ (b[f] = 2 /\ f \in v8)

Blocks == [Registers -> 0..2]

\* Only blocks that came from the meter go back to it.
RegsBlock ==
  /\ v6 \subseteq {"block"}
  /\ v3 \in Blocks /\ v4 \in Blocks /\ v7 \subseteq Blocks
  /\ ~ v9 => RegsGood(v3) /\ (\A w \in v7 : RegsGood(w)) /\ (v5 => RegsGood(v4))

\* The firmware's counter is ahead of the meter's and of what will be written to it.
RegsAhead ==
  ~ v9 /\ v8 = {} => /\ v3 >= 2 /\ \A w \in v7 : w >= 2
                     /\ v5 => v4 >= v3 /\ \A w \in v7 : v4 >= w
                     /\ ~ v5 => v7 = {}

\* The counter is asked for once.
RegsCount ==
  /\ v6 \in {{"address"}, {"counter"}, {}}
  /\ v3 \in Int /\ v4 \in Int /\ v7 \subseteq Int
  /\ v5 => v6 = {}
  /\ RegsAhead

RegsHeld == /\ v1 \in {"event", "calibration", "count"} /\ v5 \in BOOLEAN /\ v9 \in BOOLEAN
            /\ v1 # "count" => RegsBlock
            /\ v1 = "count" => RegsCount

RegsInv == RegsTold /\ RegsHeld

LEMMA RegsStarts == ASSUME Regs!Init PROVE RegsInv
  <1>1. RegsTold
    BY DEF Regs!Init, RegsTold, Regs!ReadingTold
  <1>2. CASE v1 = "count"
    <2>1. /\ v3 = 2 /\ v4 = 0 /\ v6 = {"address"} /\ v7 = {} /\ v5 = FALSE /\ v9 = FALSE
      BY <1>2 DEF Regs!Init, Regs!FirstCount
    <2>2. RegsCount
      BY <2>1 DEF RegsCount, RegsAhead
    <2> QED BY <1>1, <1>2, <2>1, <2>2 DEF RegsInv, RegsHeld
  <1>3. CASE v1 # "count"
    <2>1. /\ v3 = [f \in Registers |-> 1] /\ v4 = [f \in Registers |-> 0] /\ v6 = {"block"} /\ v7 = {}
          /\ v5 = FALSE /\ v9 = FALSE /\ v1 \in {"event", "calibration"}
      BY <1>3 DEF Regs!Init, Regs!Factory, Regs!Zero, Regs!Blocks
    <2>2. RegsBlock
      BY <2>1 DEF RegsBlock, RegsGood, Blocks
    <2> QED BY <1>1, <1>3, <2>1, <2>2 DEF RegsInv, RegsHeld
  <1> QED BY <1>2, <1>3

\* Steps of a block: it is answered, written, or a request sets a field.
LEMMA RegsBlockKeeps ==
  ASSUME RegsBlock, v9 \in BOOLEAN, v5 \in BOOLEAN, v1 \in {"event", "calibration"},
         Regs!Next \/ UNCHANGED Regs!vars
  PROVE  RegsBlock' /\ v5' \in BOOLEAN /\ v9' \in BOOLEAN /\ v1' = v1
  <1>1. CASE Regs!emtr_event_done \/ Regs!emtr_calibration_done
    <2> DEFINE new == [f \in Registers |-> v3[f]]
    <2>1. /\ v6' \subseteq v6 /\ UNCHANGED <<v1, v3, v7, v8, v9>>
          /\ \/ v4' = new /\ v5' = TRUE
             \/ v4' = [f \in Registers |-> 0] /\ v5' = FALSE
             \/ v4' = v4 /\ v5' = v5
      BY <1>1 DEF Regs!emtr_event_done, Regs!emtr_calibration_done, Regs!Answered,
                  Regs!emtr_parse_event, Regs!emtr_parse_calibration, Regs!Zero
    <2>2. new \in Blocks /\ (RegsGood(v3) => RegsGood(new))
      BY DEF RegsBlock, RegsGood, Blocks
    <2>3. v4' \in Blocks
      BY <2>1, <2>2 DEF RegsBlock, Blocks
    <2>4. ~ v9 /\ v5' => \A f \in Registers : v4'[f] = 1 \/ (v4'[f] = 2 /\ f \in v8)
      BY <2>1, <2>2 DEF RegsBlock, RegsGood
    <2>5. v6' \subseteq {"block"} /\ v3' \in Blocks /\ v7' \subseteq Blocks
      BY <2>1 DEF RegsBlock
    <2>6. ~ v9 => RegsGood(v3)' /\ (\A w \in v7' : \A f \in Registers : w[f] = 1 \/ (w[f] = 2 /\ f \in v8'))
      BY <2>1 DEF RegsBlock, RegsGood
    <2>7. v5' \in BOOLEAN
      BY <2>1
    <2> QED BY <2>1, <2>3, <2>4, <2>5, <2>6, <2>7 DEF RegsBlock, RegsGood
  <1>2. CASE Regs!emtr_set_event \/ Regs!emtr_set_calibration \/ Regs!emtr_set_counter
    <2>1. PICK w \in v7 : v7' = v7 \ {w} /\ v3' \in {w, v3} /\ UNCHANGED <<v1, v4, v5, v6, v8, v9>>
      BY <1>2 DEF Regs!emtr_set_event, Regs!emtr_set_calibration, Regs!emtr_set_counter, Regs!Write
    <2>2. w \in Blocks /\ (~ v9 => RegsGood(w))
      BY DEF RegsBlock
    <2> QED BY <2>1, <2>2 DEF RegsBlock, RegsGood
  <1>3. CASE Regs!Post
    <2>1. PICK f \in Registers \cup {"none"}, v \in {1, 2} :
            Regs!PostEvent(f, v) \/ Regs!PostCalibration(f, v)
      BY <1>3 DEF Regs!Post
    <2>2. v6' \subseteq v6 \cup {"block"} /\ UNCHANGED <<v1, v3, v5>>
      BY <1>3 DEF Regs!Post, Regs!AskLater
    <2>3. \/ UNCHANGED <<v4, v7, v8, v9>>
          \/ /\ v7' = v7 \cup {v4'} /\ v9' = (v9 \/ ~ v5)
             /\ \/ UNCHANGED <<v4, v8>>
                \/ /\ f \in Registers /\ v4' = [v4 EXCEPT ![f] = v]
                   /\ v8' = IF v = 2 THEN v8 \cup {f} ELSE v8
      BY <2>1 DEF Regs!PostEvent, Regs!PostCalibration, Regs!SetField, Regs!SendAll
    <2>4. CASE UNCHANGED <<v4, v7, v8, v9>>
      BY <2>2, <2>4 DEF RegsBlock, RegsGood
    <2>5. CASE ~ UNCHANGED <<v4, v7, v8, v9>>
      <3>1. /\ v7' = v7 \cup {v4'} /\ v9' \in BOOLEAN /\ (~ v9' => ~ v9 /\ v5)
            /\ \/ UNCHANGED <<v4, v8>>
               \/ /\ f \in Registers /\ v4' = [v4 EXCEPT ![f] = v]
                  /\ v8' = IF v = 2 THEN v8 \cup {f} ELSE v8
        BY <2>3, <2>5
      <3>2. v8 \subseteq v8' /\ v4' \in Blocks
        BY <3>1 DEF RegsBlock, Blocks
      <3>3. ~ v9' => \A r \in Registers : v4'[r] = 1 \/ (v4'[r] = 2 /\ r \in v8')
        <4> SUFFICES ASSUME ~ v9', NEW r \in Registers PROVE v4'[r] = 1 \/ (v4'[r] = 2 /\ r \in v8')
          OBVIOUS
        <4>1. v4[r] = 1 \/ (v4[r] = 2 /\ r \in v8)
          BY <3>1 DEF RegsBlock, RegsGood
        <4> QED BY <3>1, <3>2, <4>1 DEF RegsBlock, Blocks
      <3>4. ~ v9' => \A w \in v7 \cup {v3} : \A r \in Registers : w[r] = 1 \/ (w[r] = 2 /\ r \in v8')
        BY <3>1, <3>2 DEF RegsBlock, RegsGood
      <3>5. ~ v9' => \A w \in v7' : \A r \in Registers : w[r] = 1 \/ (w[r] = 2 /\ r \in v8')
        BY <3>1, <3>3, <3>4
      <3>6. ~ v9' => \A r \in Registers : v3'[r] = 1 \/ (v3'[r] = 2 /\ r \in v8')
        BY <2>2, <3>4
      <3>7. v6' \subseteq {"block"} /\ v3' \in Blocks /\ v7' \subseteq Blocks
        BY <2>2, <3>1, <3>2 DEF RegsBlock
      <3> QED BY <2>2, <3>1, <3>2, <3>3, <3>5, <3>6, <3>7 DEF RegsBlock, RegsGood
    <2> QED BY <2>4, <2>5
  <1>4. CASE Regs!Get
    <2>1. v6' \subseteq v6 \cup {"block"} /\ UNCHANGED <<v1, v3, v4, v5, v7, v8, v9>>
      BY <1>4 DEF Regs!Get, Regs!AskLater
    <2> QED BY <2>1 DEF RegsBlock, RegsGood
  <1>5. CASE Regs!emtr_address_receive \/ Regs!emtr_counter_receive
    BY <1>5 DEF Regs!emtr_address_receive, Regs!emtr_counter_receive, RegsBlock
  <1>6. CASE Regs!PostCounter \/ Regs!emtr_read_done
    BY <1>6 DEF Regs!PostCounter, Regs!emtr_read_done
  <1>7. CASE UNCHANGED Regs!vars
    BY <1>7 DEF Regs!vars, RegsBlock, RegsGood
  <1> QED BY <1>1, <1>2, <1>3, <1>4, <1>5, <1>6, <1>7 DEF Regs!Next

\* ... and of the counter.
LEMMA RegsCountKeeps ==
  ASSUME RegsCount, v9 \in BOOLEAN, v5 \in BOOLEAN, v1 = "count",
         Regs!Next \/ UNCHANGED Regs!vars
  PROVE  RegsCount' /\ v5' \in BOOLEAN /\ v9' \in BOOLEAN /\ v1' = v1
  <1>1. CASE Regs!emtr_event_done \/ Regs!emtr_calibration_done \/ Regs!Get \/ Regs!Post
    BY <1>1 DEF Regs!emtr_event_done, Regs!emtr_calibration_done, Regs!Get, Regs!Post, Regs!Blocks,
                Regs!PostEvent, Regs!PostCalibration
  <1>2. CASE Regs!emtr_set_event \/ Regs!emtr_set_calibration \/ Regs!emtr_set_counter
    <2>1. PICK w \in v7 : v7' = v7 \ {w} /\ v3' \in {w, v3} /\ UNCHANGED <<v1, v4, v5, v6, v8, v9>>
      BY <1>2 DEF Regs!emtr_set_event, Regs!emtr_set_calibration, Regs!emtr_set_counter, Regs!Write
    <2> QED BY <2>1 DEF RegsCount, RegsAhead
  <1>3. CASE Regs!emtr_address_receive
    <2>1. /\ "address" \in v6 /\ UNCHANGED <<v1, v3, v4, v5, v7, v8, v9>>
          /\ v6' = (v6 \ {"address"}) \cup {"counter"} \/ v6' = (v6 \ {"address"}) \cup {}
      BY <1>3 DEF Regs!emtr_address_receive
    <2>2. v6 = {"address"} /\ ~ v5
      BY <2>1 DEF RegsCount, RegsAhead
    <2>3. v6' = {"counter"} \/ v6' = {}
      BY <2>1, <2>2
    <2>4. v6' \in {{"address"}, {"counter"}, {}} /\ ~ v5'
      BY <2>1, <2>2, <2>3
    <2>5. ~ v9' /\ v8' = {} => v3' >= 2 /\ v7' = {}
      BY <2>1, <2>2 DEF RegsCount, RegsAhead
    <2>6. v3' \in Int /\ v4' \in Int /\ v7' \subseteq Int /\ v5' \in BOOLEAN /\ v9' \in BOOLEAN /\ v1' = v1
      BY <2>1 DEF RegsCount
    <2>7. RegsAhead'
      BY ONLY <2>4, <2>5 DEF RegsAhead
    <2> QED BY <2>4, <2>6, <2>7 DEF RegsCount
  <1>4. CASE Regs!emtr_counter_receive
    <2>1. /\ "counter" \in v6 /\ v6' = v6 \ {"counter"} /\ UNCHANGED <<v1, v3, v7, v8, v9>>
          /\ \/ v4' = v3 /\ v5' = TRUE
             \/ v4' = 0 /\ v5' = FALSE
             \/ v4' = v4 /\ v5' = v5
      BY <1>4 DEF Regs!emtr_counter_receive
    <2>2. v6 = {"counter"} /\ v6' = {} /\ ~ v5
      BY <2>1 DEF RegsCount
    <2>3. v3' \in Int /\ v4' \in Int /\ v7' \subseteq Int /\ v5' \in BOOLEAN /\ v9' \in BOOLEAN /\ v1' = v1
      <3>1. v3 \in Int /\ v4 \in Int /\ v7 \subseteq Int /\ 0 \in Int
        BY DEF RegsCount
      <3>2. v4' = v3 \/ v4' = 0 \/ v4' = v4
        BY <2>1
      <3>3. v4' \in Int
        BY ONLY <3>1, <3>2
      <3>4. v5' \in BOOLEAN /\ v9' \in BOOLEAN
        BY <2>1
      <3> QED BY <2>1, <3>1, <3>3, <3>4
    <2>4. ~ v9' /\ v8' = {} => v3' >= 2 /\ v7' = {}
      BY <2>1, <2>2 DEF RegsCount, RegsAhead
    <2>5. v5' => v4' >= v3'
      <3>1. v5' => v4' = v3'
        BY <2>1, <2>2
      <3>2. v3' >= v3'
        BY ONLY <2>3
      <3> QED BY ONLY <3>1, <3>2, Zenon
    <2>6. RegsAhead'
      BY ONLY <2>4, <2>5 DEF RegsAhead
    <2> QED BY <2>2, <2>3, <2>6 DEF RegsCount
  <1>5. CASE Regs!PostCounter
    BY <1>5 DEF Regs!PostCounter, RegsCount, RegsAhead
  <1>6. CASE Regs!emtr_read_done
    <2>1. /\ v10' \in 0..MaxPower /\ v4' = v4 + v10' /\ v7' = v7 \cup {v4'}
          /\ v9' = (v9 \/ ~ v5)
          /\ UNCHANGED <<v1, v3, v5, v6, v8>>
      BY <1>6 DEF Regs!emtr_read_done, Regs!emtr_counter_add
    <2>2. v9' \in BOOLEAN /\ (~ v9' => ~ v9 /\ v5)
      BY <2>1
    <2>3. v4 \in Int /\ v4' \in Int /\ v4' >= v4
      <3>1. v4 \in Int
        BY DEF RegsCount, RegsAhead
      <3>2. v10' \in Nat
        BY <2>1, RegistersAssumption
      <3>3. v4' = v4 + v10'
        BY <2>1
      <3>4. PICK n \in Nat : n = v10' /\ v4' = v4 + n
        BY ONLY <3>2, <3>3
      <3>5. v4 + n \in Int /\ v4 + n >= v4
        BY ONLY <3>1
      <3> QED BY ONLY <3>1, <3>4, <3>5, Zenon
    <2>4. v6' \in {{"address"}, {"counter"}, {}} /\ v3' \in Int /\ v7' \subseteq Int /\ (v5' => v6' = {})
      BY <2>1, <2>3 DEF RegsCount, RegsAhead
    <2>5. ASSUME ~ v9', v8' = {}
          PROVE  /\ v3' >= 2 /\ \A w \in v7' : w >= 2
                 /\ v5' /\ v4' >= v3' /\ \A w \in v7' : v4' >= w
      <3>1. /\ v3 >= 2 /\ v4 >= v3 /\ v3 \in Int /\ v7 \subseteq Int
            /\ \A w \in v7 : w >= 2 /\ v4 >= w
        BY <2>1, <2>2, <2>5 DEF RegsCount, RegsAhead
      <3>2. v4' >= 2 /\ v4' >= v3 /\ \A w \in v7 : v4' >= w
        BY ONLY <2>3, <3>1
      <3>3. \A w \in v7' : w >= 2 /\ v4' >= w
        <4> SUFFICES ASSUME NEW w \in v7' PROVE w >= 2 /\ v4' >= w
          OBVIOUS
        <4>1. w \in v7 \/ w = v4'
          BY <2>1
        <4>2. CASE w \in v7
          BY ONLY <3>1, <3>2, <4>2
        <4>3. CASE w = v4'
          <5>1. v4' >= v4'
            BY ONLY <2>3
          <5> QED BY ONLY <3>2, <4>3, <5>1, Zenon
        <4> QED BY ONLY <4>1, <4>2, <4>3
      <3>4. v3' = v3 /\ v5'
        BY <2>1, <2>2, <2>5
      <3> QED BY ONLY <3>1, <3>2, <3>3, <3>4
    <2> QED BY <2>1, <2>2, <2>3, <2>4, <2>5 DEF RegsCount, RegsAhead
  <1>7. CASE UNCHANGED Regs!vars
    BY <1>7 DEF Regs!vars, RegsCount, RegsAhead
  <1> QED BY <1>1, <1>2, <1>3, <1>4, <1>5, <1>6, <1>7 DEF Regs!Next

\* Every reading is compared with the one told last, not with the one before
\* (emtr_read_event).
LEMMA RegsToldKeeps == ASSUME RegsTold, Regs!Next \/ UNCHANGED Regs!vars PROVE RegsTold'
  <1>1. UNCHANGED <<v10, v11>> \/ Regs!emtr_read_done
    BY DEF Regs!Next, Regs!emtr_event_done, Regs!emtr_calibration_done, Regs!Answered,
           Regs!emtr_set_event, Regs!emtr_set_calibration, Regs!emtr_set_counter, Regs!Write,
           Regs!Post, Regs!Get, Regs!emtr_address_receive, Regs!emtr_counter_receive,
           Regs!PostCounter, Regs!vars
  <1>2. CASE UNCHANGED <<v10, v11>>
    BY <1>2 DEF RegsTold, Regs!ReadingTold
  <1>3. CASE Regs!emtr_read_done
    <2>1. /\ v10' \in 0..MaxPower
          /\ v11' = IF v11 = -1 \/ Regs!emtr_over_treshold(v10', v11) THEN v10' ELSE v11
      BY <1>3 DEF Regs!emtr_read_done, Regs!emtr_read_event
    <2>2. v10' \in Nat /\ PowerThreshold \in Nat /\ v11 \in Int
      BY <2>1, RegistersAssumption DEF RegsTold
    <2>3. CASE v11 = -1 \/ Regs!emtr_over_treshold(v10', v11)
      <3>1. v11' = v10'
        BY <2>1, <2>3
      <3>2. ASSUME NEW r \in Nat PROVE ~ Regs!emtr_over_treshold(r, r) /\ r # -1
        BY <2>2 DEF Regs!emtr_over_treshold
      <3>3. ~ Regs!emtr_over_treshold(v10', v11') /\ v11' # -1 /\ v10' \in Int /\ v11' \in Int
        BY <2>2, <3>1, <3>2
      <3> QED BY <3>3 DEF RegsTold, Regs!ReadingTold
    <2>4. CASE ~ (v11 = -1 \/ Regs!emtr_over_treshold(v10', v11))
      <3>1. v11' = v11
        BY <2>1, <2>4
      <3>2. ~ Regs!emtr_over_treshold(v10', v11') /\ v11' # -1 /\ v10' \in Int /\ v11' \in Int
        BY <2>2, <2>4, <3>1
      <3> QED BY <3>2 DEF RegsTold, Regs!ReadingTold
    <2> QED BY <2>3, <2>4
  <1> QED BY <1>1, <1>2, <1>3

\* A block that was not read, or answered badly, does not come to be the meter's own,
\* and the counter does not fall behind it (emtr_event_done, emtr_counter_add).
LEMMA RegsKeeps == ASSUME RegsInv, Regs!Next \/ UNCHANGED Regs!vars PROVE RegsInv'
  <1>1. RegsTold'
    BY RegsToldKeeps DEF RegsInv
  <1>2. CASE v1 = "count"
    BY <1>1, <1>2, RegsCountKeeps DEF RegsInv, RegsHeld
  <1>3. CASE v1 # "count"
    BY <1>1, <1>3, RegsBlockKeeps DEF RegsInv, RegsHeld
  <1> QED BY <1>2, <1>3

LEMMA RegsTells ==
  ASSUME RegsInv
  PROVE  Regs!NeverInvented /\ Regs!CounterKept
  <1>1. Regs!NeverInvented
    BY DEF RegsInv, RegsHeld, RegsBlock, RegsGood, Regs!NeverInvented, Regs!Blocks
  <1>2. Regs!CounterKept
    BY DEF RegsInv, RegsHeld, RegsCount, RegsAhead, Regs!CounterKept, Regs!FirstCount
  <1> QED BY <1>1, <1>2
-----------------------------------------------------------------------------
(* A module on the bus *)
ModsInv ==
  /\ v1 \in Mods!Kinds /\ v9 \in BOOLEAN
  /\ v1 = "dimmer" /\ ~ v9 => v7["a"] = v4["a"] /\ v7["b"] = v4["b"]

LEMMA ModsStarts == ASSUME Mods!Init PROVE ModsInv
  BY DEF Mods!Init, ModsInv

\* A change of the relay or the brightness that is stored and not told is
\* remembered to be.
LEMMA MissedKnows ==
  ASSUME ModsInv, Mods!Missed, UNCHANGED <<v1, v7>> PROVE ModsInv'
  <1>1. (v9 \/ v4'["a"] # v4["a"] \/ v4'["b"] # v4["b"]) \in BOOLEAN
    OBVIOUS
  <1>2. v9' = (v9 \/ v4'["a"] # v4["a"] \/ v4'["b"] # v4["b"])
    BY DEF Mods!Missed
  <1>3. CASE v9'
    BY <1>1, <1>2, <1>3 DEF ModsInv
  <1>4. CASE ~ v9'
    <2>1. ~ v9 /\ v4'["a"] = v4["a"] /\ v4'["b"] = v4["b"]
      BY <1>2, <1>4
    <2> QED BY <1>1, <1>2, <2>1 DEF ModsInv
  <1> QED BY <1>3, <1>4

\* The end of a request tells what it stored, or is remembered not to.
LEMMA FinishKnows ==
  ASSUME ModsInv, NEW s, NEW n, NEW raise \in BOOLEAN, Mods!Finish(s, n, raise), UNCHANGED v1
  PROVE  ModsInv'
  <1>1. CASE n = Len(Mods!Sets(v1)) /\ raise
    <2>1. v7' = v4' /\ v9' = FALSE
      BY <1>1 DEF Mods!Finish
    <2> QED BY <2>1 DEF ModsInv
  <1>2. CASE n = Len(Mods!Sets(v1)) /\ ~ raise
    <2>1. Mods!Missed /\ UNCHANGED <<v1, v7>>
      BY <1>2 DEF Mods!Finish, Mods!Missed
    <2> QED BY <2>1, MissedKnows
  <1>3. CASE n # Len(Mods!Sets(v1))
    <2>1. v9' = TRUE
      BY <1>3 DEF Mods!Finish
    <2> QED BY <2>1 DEF ModsInv
  <1> QED BY <1>1, <1>2, <1>3

LEMMA ModsKeeps == ASSUME ModsInv, Mods!Next \/ UNCHANGED Mods!vars PROVE ModsInv'
  <1>1. CASE Mods!Post
    <2>1. PICK s, n : Mods!Finish(s, n, TRUE)
      BY <1>1 DEF Mods!Post
    <2>2. v1' = v1
      BY <1>1 DEF Mods!Post
    <2> QED BY <2>1, <2>2, FinishKnows
  <1>2. CASE Mods!Get
    <2>1. v1' = v1
      BY <1>2 DEF Mods!Get
    <2>2. CASE Mods!Handler.again
      <3>1. PICK n : Mods!Finish(v4, n, FALSE)
        BY <1>2, <2>2 DEF Mods!Get
      <3>2. PICK s : s = v4
        OBVIOUS
      <3> QED BY <2>1, <3>1, <3>2, FinishKnows
    <2>3. CASE ~ Mods!Handler.again
      BY <1>2, <2>1, <2>3, MissedKnows DEF Mods!Get
    <2> QED BY <2>2, <2>3
  <1>3. CASE Mods!Refuse
    BY <1>3, MissedKnows DEF Mods!Refuse, Mods!Failed
  <1>4. CASE Mods!dimmer_event
    <2>1. v1' = v1
      BY <1>4 DEF Mods!dimmer_event
    <2>2. \/ UNCHANGED <<v4, v7, v9>>
          \/ v7' = v4' /\ v9' = FALSE
          \/ Mods!Missed /\ v7' = v7
      BY <1>4 DEF Mods!dimmer_event, Mods!NotFound
    <2>3. CASE Mods!Missed /\ v7' = v7
      BY <2>1, <2>3, MissedKnows
    <2> QED BY <2>1, <2>2, <2>3 DEF ModsInv
  <1>5. CASE Mods!user_dimmer_init
    BY <1>5 DEF Mods!user_dimmer_init, ModsInv
  <1>6. CASE Mods!Replug \/ Mods!Turn \/ UNCHANGED Mods!vars
    BY <1>6 DEF Mods!Replug, Mods!Turn, Mods!vars, ModsInv
  <1> QED BY <1>1, <1>2, <1>3, <1>4, <1>5, <1>6 DEF Mods!Next

\* A set that went to its end leaves module and configuration alike
\* (rgb_set, io2_set, dimmer_set).
LEMMA SetWhole ==
  ASSUME ModsInv, v1 # "irda", NEW s, NEW n, n = Len(Mods!Sets(v1)),
         v4' = Mods!Moved(s, v5, n, "read"), v5' = Mods!Moved(s, v5, n, "write")
  PROVE  \A f \in Mods!FieldsOf[v1] : (f = "c" /\ v1 = "dimmer") \/ v4'[f] = v5'[f]
  <1>1. ASSUME NEW f \in Mods!Fields, NEW i \in 1..n, Mods!Sets(v1)[i] = <<"read", f>>,
               ~ \E j \in 1..n : Mods!Sets(v1)[j] = <<"write", f>>
        PROVE  v4'[f] = v5'[f]
    BY <1>1 DEF Mods!Moved
  <1>2. ASSUME NEW f \in Mods!Fields, NEW i \in 1..n, Mods!Sets(v1)[i] = <<"write", f>>,
               ~ \E j \in 1..n : Mods!Sets(v1)[j] = <<"read", f>>
        PROVE  v4'[f] = v5'[f]
    BY <1>2 DEF Mods!Moved
  <1>3. CASE v1 = "rgb"
    <2>1. Mods!Sets(v1) = <<<<"write", "a">>>> /\ n = 1 /\ Mods!FieldsOf[v1] = {"a"}
      BY <1>3 DEF Mods!Sets, Mods!rgb_set, Mods!FieldsOf
    <2> QED BY <1>2, <2>1 DEF Mods!Fields
  <1>4. CASE v1 = "dimmer"
    <2>1. /\ Mods!Sets(v1) = <<<<"write", "a">>, <<"write", "b">>>> /\ n = 2
          /\ Mods!FieldsOf[v1] = {"a", "b", "c"}
      BY <1>4 DEF Mods!Sets, Mods!dimmer_set, Mods!FieldsOf
    <2>2. v4'["a"] = v5'["a"]
      BY <1>2, <2>1 DEF Mods!Fields
    <2>3. v4'["b"] = v5'["b"]
      BY <1>2, <2>1 DEF Mods!Fields
    <2> QED BY <1>4, <2>1, <2>2, <2>3
  <1>5. CASE v1 = "io2"
    <2>1. /\ Mods!Sets(v1) = <<<<"read", "a">>, <<"write", "b">>, <<"read", "c">>, <<"write", "d">>>>
          /\ n = 4 /\ Mods!FieldsOf[v1] = {"a", "b", "c", "d"}
      BY <1>5 DEF Mods!Sets, Mods!io2_set, Mods!FieldsOf, Mods!Fields
    <2>2. v4'["a"] = v5'["a"]
      BY <1>1, <2>1 DEF Mods!Fields
    <2>3. v4'["b"] = v5'["b"]
      BY <1>2, <2>1 DEF Mods!Fields
    <2>4. v4'["c"] = v5'["c"]
      BY <1>1, <2>1 DEF Mods!Fields
    <2>5. v4'["d"] = v5'["d"]
      BY <1>2, <2>1 DEF Mods!Fields
    <2> QED BY <2>1, <2>2, <2>3, <2>4, <2>5
  <1> QED BY <1>3, <1>4, <1>5 DEF ModsInv, Mods!Kinds

\* An OK tells what the module has.
LEMMA ModsTell == ASSUME ModsInv, Mods!Next \/ UNCHANGED Mods!vars PROVE Mods!TellsTrue
  <1> DEFINE True == \A f \in Mods!FieldsOf[v1] : (f = "c" /\ v1 = "dimmer") \/ v6'[2][f] = v5'[f]
  <1> SUFFICES ASSUME v6' # v6, v6'[1] = "ok", v1 # "irda" PROVE True
    BY DEF Mods!TellsTrue
  <1>1. ASSUME NEW s, NEW n, NEW raise \in BOOLEAN, Mods!Finish(s, n, raise) PROVE True
    <2>1. n = Len(Mods!Sets(v1)) /\ v6' = <<"ok", v4'>>
      <3>1. CASE n = Len(Mods!Sets(v1))
        BY <1>1, <3>1 DEF Mods!Finish
      <3>2. CASE n # Len(Mods!Sets(v1))
        <4>1. v6' = <<"error">>
          BY <1>1, <3>2 DEF Mods!Finish
        <4>2. v6'[1] = "error"
          BY <4>1
        <4> QED BY <4>2
      <3> QED BY <3>1, <3>2
    <2>2. v4' = Mods!Moved(s, v5, n, "read") /\ v5' = Mods!Moved(s, v5, n, "write")
      BY <1>1 DEF Mods!Finish
    <2>3. \A f \in Mods!FieldsOf[v1] : (f = "c" /\ v1 = "dimmer") \/ v4'[f] = v5'[f]
      BY <2>1, <2>2, SetWhole
    <2> QED BY <2>1, <2>3
  <1>2. CASE Mods!Post
    <2>1. PICK s, n : Mods!Finish(s, n, TRUE)
      BY <1>2 DEF Mods!Post
    <2> QED BY <1>1, <2>1
  <1>3. CASE Mods!Get
    <2>1. CASE Mods!Handler.again
      <3>1. PICK n : Mods!Finish(v4, n, FALSE)
        BY <1>3, <2>1 DEF Mods!Get
      <3> QED BY <1>1, <3>1
    <2>2. CASE ~ Mods!Handler.again
      <3>1. v1 = "dimmer"
        BY <2>2 DEF ModsInv, Mods!Kinds, Mods!Handler, Mods!mod_rgb_handler, Mods!mod_io2_handler
      <3>2. v6' = <<"ok", v4'>> /\ v5' = v5 /\ v4' = Mods!ReadInto(v4, v5, Len(Mods!Reads(v1)))
        BY <1>3, <2>2 DEF Mods!Get
      <3>3. Mods!Reads(v1) = <<"a", "b", "c">> /\ Mods!FieldsOf[v1] = {"a", "b", "c"}
        BY <3>1 DEF Mods!Reads, Mods!dimmer_reads, Mods!FieldsOf
      <3>4. Len(Mods!Reads(v1)) = 3
        BY <3>3
      <3>5. v4'["a"] = v5["a"] /\ v4'["b"] = v5["b"]
        BY <3>2, <3>3, <3>4 DEF Mods!ReadInto, Mods!Fields
      <3> QED BY <3>1, <3>2, <3>3, <3>5
    <2> QED BY <2>1, <2>2
  <1>4. CASE Mods!Refuse
    BY <1>4 DEF Mods!Refuse, Mods!Failed
  <1>5. CASE \/ Mods!dimmer_event \/ Mods!user_dimmer_init \/ Mods!Replug \/ Mods!Turn
             \/ UNCHANGED Mods!vars
    BY <1>5 DEF Mods!dimmer_event, Mods!user_dimmer_init, Mods!Replug, Mods!Turn, Mods!vars
  <1> QED BY <1>2, <1>3, <1>4, <1>5 DEF Mods!Next
-----------------------------------------------------------------------------
(* The battery and the analog input.  The polls that missed a change are   *)
(* no more than those counted, and the counter does not run over.          *)
GaugeTyped ==
  /\ v1 \in {"battery", "adc"} /\ v2 \in Nat /\ v4 \in Int /\ v7 \in Nat /\ v11 \in Nat
  /\ v8 \in AdcEachs /\ v10[1] \in Int /\ v10[2] \in Int /\ v7 < 2^GaugeBits

GaugeCounts ==
  IF v1 = "battery" THEN v11 <= v7 /\ v7 <= BatteryCount
  ELSE v11 <= v8 /\ v11 <= v7 + 1 /\ (v11 > 0 => v7 < v8)

GaugeInv == GaugeTyped /\ GaugeCounts /\ Gauge!FilterAmong

LEMMA GaugeStarts == ASSUME Gauge!Init PROVE GaugeInv
  <1>1. /\ v1 \in {"battery", "adc"} /\ v2 \in Nat /\ v4 = -1 /\ v7 = 0 /\ v11 = 0
        /\ v8 \in AdcEachs /\ v10 = <<MaxAdc, 0>>
    BY GaugeAssumption DEF Gauge!Init
  <1>2. v10[1] \in Int /\ v10[2] \in Int
    BY <1>1, GaugeAssumption
  <1>3. 0 < 2^GaugeBits
    BY GaugeAssumption
  <1>4. GaugeTyped
    BY <1>1, <1>2, <1>3 DEF GaugeTyped
  <1>5. v8 \in Nat
    BY <1>1, GaugeAssumption
  <1>6. GaugeCounts
    BY <1>1, <1>5, GaugeAssumption DEF GaugeCounts
  <1>7. Gauge!FilterAmong
    BY <1>1 DEF Gauge!FilterAmong
  <1> QED BY <1>4, <1>6, <1>7 DEF GaugeInv

\* A filter that keeps the bits its shift drops stays among what it is given,
\* but for less than those bits (battery_adc_filter).
LEMMA FilterStays ==
  ASSUME NEW m \in Nat \ {0}, NEW a \in Int, NEW r \in Int, NEW lo \in Int, NEW hi \in Int,
         lo <= r, r <= hi, a > lo - m, a < hi + m
  PROVE  /\ a - (a \div m) + (r \div m) \in Int
         /\ a - (a \div m) + (r \div m) > lo - m
         /\ a - (a \div m) + (r \div m) < hi + m
  <1> DEFINE p == a \div m
             q == r \div m
  <1>1. p \in Int /\ m * p <= a /\ a < m * p + m
    OBVIOUS
  <1>2. q \in Int /\ m * q <= r /\ r < m * q + m
    OBVIOUS
  <1> HIDE DEF p, q
  <1>3. PICK d \in Int : p = q + d
    <2>1. p - q \in Int /\ p = q + (p - q)
      BY <1>1, <1>2
    <2> QED BY <2>1
  <1>4. m * p = m * q + m * d
    BY <1>1, <1>2, <1>3
  <1>5. CASE d = 0
    BY <1>1, <1>2, <1>3, <1>5 DEF p, q
  <1>6. CASE d > 0
    <2>1. (m - 1) * (d - 1) >= 0
      BY <1>6
    <2>2. m * d >= m + d - 1
      BY <2>1
    <2>3. PICK md \in Int, mq \in Int, mp \in Int : md = m * d /\ mq = m * q /\ mp = m * p
      BY <1>1, <1>2
    <2>4. a - d >= r
      BY ONLY m \in Nat \ {0}, a \in Int, r \in Int, d \in Int, md \in Int, mq \in Int, mp \in Int,
              <1>1, <1>2, <1>4, <2>2, <2>3
    <2>5. a - p + q = a - d
      BY <1>1, <1>2, <1>3
    <2>6. a - p + q \in Int /\ a - p + q > lo - m /\ a - p + q < hi + m
      BY <1>6, <2>4, <2>5
    <2> QED BY <2>6 DEF p, q
  <1>7. CASE d < 0
    <2>1. (m - 1) * (-1 - d) >= 0
      BY <1>7
    <2>2. m * d + m <= d + 1
      BY <2>1
    <2>3. PICK md \in Int, mq \in Int, mp \in Int : md = m * d /\ mq = m * q /\ mp = m * p
      BY <1>1, <1>2
    <2>4. a - d <= r
      BY ONLY m \in Nat \ {0}, a \in Int, r \in Int, d \in Int, md \in Int, mq \in Int, mp \in Int,
              <1>1, <1>2, <1>4, <2>2, <2>3
    <2>5. a - p + q = a - d
      BY <1>1, <1>2, <1>3
    <2>6. a - p + q \in Int /\ a - p + q > lo - m /\ a - p + q < hi + m
      BY <1>7, <2>4, <2>5
    <2> QED BY <2>6 DEF p, q
  <1> QED BY <1>5, <1>6, <1>7

\* A counter that does not run over counts on, and one that does starts anew.
LEMMA CountsOn ==
  ASSUME NEW x \in Nat, NEW m \in Nat, x < m
  PROVE  (x + 1) % m = IF x + 1 = m THEN 0 ELSE x + 1
  <1>1. CASE x + 1 = m
    <2>1. m % m = 0
      BY <1>1
    <2> QED BY <1>1, <2>1
  <1>2. CASE x + 1 < m
    BY <1>2
  <1> QED BY <1>1, <1>2

LEMMA GaugeFilters ==
  ASSUME GaugeInv, Gauge!battery_adc_filter
  PROVE  v4' \in Int /\ v10'[1] \in Int /\ v10'[2] \in Int /\ Gauge!FilterAmong'
  <1>1. PICK m : m = 2^AdcShift
    OBVIOUS
  <1>2. m \in Nat \ {0}
    BY <1>1, GaugeAssumption
  <1>3. PICK r, a, lo, hi : /\ r = v2 /\ a = (IF v4 = -1 THEN v2 ELSE v4)
                            /\ lo = (IF v2 < v10[1] THEN v2 ELSE v10[1])
                            /\ hi = (IF v2 > v10[2] THEN v2 ELSE v10[2])
    OBVIOUS
  <1>4. /\ v2 \in Int /\ v4 \in Int /\ v10[1] \in Int /\ v10[2] \in Int
        /\ v4 # -1 => v4 > v10[1] - m /\ v4 < v10[2] + m
    BY <1>1 DEF GaugeInv, GaugeTyped, Gauge!FilterAmong
  <1>5. r \in Int /\ a \in Int /\ lo \in Int /\ hi \in Int /\ lo <= r /\ r <= hi
    BY <1>3, <1>4
  <1>6. a > lo - m /\ a < hi + m
    BY <1>2, <1>3, <1>4
  <1>7. v4' = a - (a \div m) + (r \div m) /\ v10' = <<lo, hi>>
    BY <1>1, <1>3 DEF Gauge!battery_adc_filter, Gauge!Filter, Gauge!Shifted
  <1>8. v4' \in Int /\ v4' > lo - m /\ v4' < hi + m
    BY ONLY <1>2, <1>5, <1>6, <1>7, FilterStays
  <1>9. v10'[1] = lo /\ v10'[2] = hi
    BY <1>7
  <1> QED BY <1>1, <1>5, <1>8, <1>9 DEF Gauge!FilterAmong

LEMMA GaugeKeeps == ASSUME GaugeInv, Gauge!Next \/ UNCHANGED Gauge!vars PROVE GaugeInv'
  <1>0. /\ v7 \in Nat /\ 2^GaugeBits \in Nat /\ v7 < 2^GaugeBits /\ v8 \in Nat /\ v11 \in Nat
        /\ v8 < 2^GaugeBits
    BY GaugeAssumption DEF GaugeInv, GaugeTyped
  <1>1. PICK next : next = (v7 + 1) % 2^GaugeBits
    OBVIOUS
  <1>2. /\ next = (IF v7 + 1 = 2^GaugeBits THEN 0 ELSE v7 + 1)
        /\ next \in Nat /\ next < 2^GaugeBits
    <2>1. next = (IF v7 + 1 = 2^GaugeBits THEN 0 ELSE v7 + 1)
      BY <1>0, <1>1, CountsOn
    <2> QED BY <1>0, <2>1
  <1>3. CASE Gauge!World
    <2>1. v2' \in Nat /\ UNCHANGED <<v1, v4, v7, v8, v10, v11>>
      BY <1>3, GaugeAssumption DEF Gauge!World
    <2> QED BY <2>1 DEF GaugeInv, GaugeTyped, GaugeCounts, Gauge!FilterAmong
  <1>4. CASE Gauge!battery_state_get
    <2>1. v1 = "battery" /\ UNCHANGED <<v1, v2, v8>> /\ Gauge!battery_adc_filter
      BY <1>4 DEF Gauge!battery_state_get
    <2>2. v4' \in Int /\ v10'[1] \in Int /\ v10'[2] \in Int /\ Gauge!FilterAmong'
      BY <2>1, GaugeFilters
    <2>3. \/ v7' = 0 /\ v11' = 0
          \/ v7' = next /\ v11' = v11 + 1 /\ ~ (next > BatteryCount)
      BY <1>1, <1>4 DEF Gauge!battery_state_get, Gauge!Counted
    <2>4. v11 <= v7 /\ v7 <= BatteryCount
      BY <2>1 DEF GaugeInv, GaugeCounts
    <2>5. /\ v7' \in Nat /\ v11' \in Nat /\ v7' < 2^GaugeBits
          /\ v11' <= v7' /\ v7' <= BatteryCount
      BY <1>0, <1>2, <2>3, <2>4, GaugeAssumption
    <2> QED BY <2>1, <2>2, <2>5 DEF GaugeInv, GaugeTyped, GaugeCounts
  <1>5. CASE Gauge!battery_handler
    <2>1. /\ v1 = "battery" /\ UNCHANGED <<v1, v2, v7, v8>> /\ v11' = 0
          /\ Gauge!battery_adc_filter
      BY <1>5 DEF Gauge!battery_handler
    <2>2. v4' \in Int /\ v10'[1] \in Int /\ v10'[2] \in Int /\ Gauge!FilterAmong'
      BY <2>1, GaugeFilters
    <2> QED BY <1>0, <2>1, <2>2 DEF GaugeInv, GaugeTyped, GaugeCounts
  <1>6. CASE Gauge!adc_update
    <2>1. v1 = "adc" /\ UNCHANGED <<v1, v2, v4, v8, v10>>
      BY <1>6 DEF Gauge!adc_update
    <2>2. \/ v7' = 0 /\ v11' = 0
          \/ v7' = next /\ v11' = 0
          \/ v7' = next /\ v11' = v11 + 1 /\ ~ (next >= v8)
      BY <1>1, <1>6 DEF Gauge!adc_update
    <2>3. v11 <= v8 /\ v11 <= v7 + 1 /\ (v11 > 0 => v7 < v8)
      BY <2>1 DEF GaugeInv, GaugeCounts
    <2>4. /\ v7' \in Nat /\ v11' \in Nat /\ v7' < 2^GaugeBits
          /\ v11' <= v8 /\ v11' <= v7' + 1 /\ (v11' > 0 => v7' < v8)
      BY <1>0, <1>2, <2>2, <2>3
    <2> QED BY <2>1, <2>4 DEF GaugeInv, GaugeTyped, GaugeCounts, Gauge!FilterAmong
  <1>7. CASE Gauge!adc_handler
    <2>1. v1 = "adc" /\ v8' \in AdcEachs /\ UNCHANGED <<v1, v2, v4, v7, v10>>
      BY <1>7 DEF Gauge!adc_handler
    <2>2. (v8' = v8 /\ v11' = v11) \/ v11' = 0
      BY <1>7 DEF Gauge!adc_handler
    <2>3. v8' \in Nat
      BY <2>1, GaugeAssumption
    <2> QED BY <1>0, <2>1, <2>2, <2>3
            DEF GaugeInv, GaugeTyped, GaugeCounts, Gauge!FilterAmong
  <1>8. CASE UNCHANGED Gauge!vars
    BY <1>8 DEF Gauge!vars, GaugeInv, GaugeTyped, GaugeCounts, Gauge!FilterAmong
  <1> QED BY <1>3, <1>4, <1>5, <1>6, <1>7, <1>8 DEF Gauge!Next

\* What is told in time is: the polls allowed are not passed.
LEMMA GaugeTells == ASSUME GaugeInv PROVE Gauge!ToldInTime
  BY GaugeAssumption DEF GaugeInv, GaugeTyped, GaugeCounts, Gauge!ToldInTime
-----------------------------------------------------------------------------
(* The sensors.  What was told last is what the next reading is compared    *)
(* with; a fault leaves nothing to compare with, so that the reading that   *)
(* ends it is told; and only the analog input has a value, 0, before it was *)
(* read.                                                                    *)
SensTyped ==
  /\ v1 \in {"dht", "ping", "ain"}
  /\ v9 \in {2, 3, 6, 0, -1} /\ v10 \in {2, 3, 6, 0, -9}
  /\ IF v1 = "ain" THEN v9 # -1 ELSE v9 # 0

SensTold ==
  /\ v5 => v9 # 0
  /\ v10 \in {2, 3, 6} => v15 = v10
  /\ v9 \in {2, 3, 6} => Sens!Distance(v9, v10) <= 1 /\ (v7 >= SensorEach => v9 = v10)

SensFault ==
  /\ v8 <=> v15 = -5
  /\ v8 => v9 = -1 /\ v10 = -9

SensInv == SensTyped /\ SensTold /\ SensFault /\ Sens!LimitsTold

LEMMA SensStarts == ASSUME Sens!Init PROVE SensInv
  <1>1. /\ v1 \in {"dht", "ping", "ain"} /\ v5 = FALSE /\ v8 = FALSE
        /\ v9 = (IF v1 = "ain" THEN 0 ELSE -1)
        /\ v10 = (IF v1 = "dht" THEN -9 ELSE 0) /\ v15 = -9 /\ v12 = "init"
    BY DEF Sens!Init, Sens!NoValue, Sens!Unset
  <1>2. SensTyped
    BY <1>1 DEF SensTyped
  <1>3. SensTold
    BY <1>1 DEF SensTold
  <1>4. SensFault
    BY <1>1 DEF SensFault
  <1> QED BY <1>1, <1>2, <1>3, <1>4 DEF SensInv, Sens!LimitsTold

\* The limit that is crossed is the one that is notified (Notify).
LEMMA NotifyTells ==
  ASSUME v1 \in {"dht", "ping", "ain"}, NEW n, Sens!Notify(n)
  PROVE  Sens!LimitsTold'
  <1>1. CASE ~ v3' \/ v4'
    BY <1>1 DEF Sens!Notify, Sens!Crossed, Sens!LimitsTold
  <1>2. CASE v3' /\ ~ v4'
    <2>1. PICK e \in Sens!Event : v11' = IF e # "init" THEN e ELSE n
      BY <1>2 DEF Sens!Notify
    <2>2. e = Sens!uhl_which_event(v9')
      BY <1>2, <2>1 DEF Sens!Event, Sens!mb_dht_which_event
    <2>3. v12' = Sens!uhl_which_event(v9')
      BY <1>2 DEF Sens!Notify, Sens!Crossed
    <2> QED BY <2>1, <2>2, <2>3 DEF Sens!LimitsTold
  <1> QED BY <1>1, <1>2

\* A value that is used is told, or is as near to the one told last as the
\* threshold, and for no more readings than allowed (Change).
LEMMA UseHolds ==
  ASSUME SensInv, v1' = v1, NEW v \in {2, 3, 6}, NEW c, NEW n, Sens!Use(v, c, n)
  PROVE  SensInv'
  <1>1. SensTyped /\ SensTold /\ SensFault
    BY DEF SensInv
  <1>2. v9' = v /\ v8' = FALSE /\ Sens!Notify(n) /\ Sens!Change(c)
    BY DEF Sens!Use
  <1>3. Sens!LimitsTold'
    BY <1>1, <1>2, NotifyTells DEF SensTyped
  <1>4. CASE v10' = v9' /\ v7' = 0 /\ Sens!Tell(FALSE)
    <2>1. v15' = v9'
      BY <1>1, <1>4 DEF Sens!Tell, Sens!mb_dht_set_response, Sens!mb_ping_set_response,
         Sens!mb_ain_set_response, SensTyped
    <2>2. Sens!Distance(v9', v10') <= 1
      BY <1>2, <1>4 DEF Sens!Distance
    <2>3. SensTyped'
      BY <1>1, <1>2, <1>4 DEF SensTyped
    <2>4. SensTold'
      BY <1>2, <1>4, <2>1, <2>2 DEF SensTold
    <2>5. SensFault'
      BY <1>2, <2>1 DEF SensFault
    <2> QED BY <1>3, <2>3, <2>4, <2>5 DEF SensInv
  <1>5. CASE /\ ~ (Sens!Distance(v9', v10) > 1) /\ ~ (c >= SensorEach /\ v9' # v10)
             /\ v10' = v10 /\ v15' = v15 /\ v7' = c
    <2>1. v10 \in {2, 3, 6}
      BY <1>1, <1>2, <1>5 DEF Sens!Distance, SensTyped
    <2>2. ~ v8
      BY <1>1, <2>1 DEF SensFault
    <2>3. SensTyped'
      BY <1>1, <1>2, <1>5 DEF SensTyped
    <2>4. Sens!Distance(v9', v10') <= 1
      BY <1>2, <1>5, <2>1 DEF Sens!Distance
    <2>5. SensTold'
      BY <1>1, <1>2, <1>5, <2>4 DEF SensTold
    <2>6. SensFault'
      BY <1>1, <1>2, <1>5, <2>2 DEF SensFault
    <2> QED BY <1>3, <2>3, <2>5, <2>6 DEF SensInv
  <1>6. \/ v10' = v9' /\ v7' = 0 /\ Sens!Tell(FALSE)
        \/ /\ ~ (Sens!Distance(v9', v10) > 1) /\ ~ (c >= SensorEach /\ v9' # v10)
           /\ v10' = v10 /\ v15' = v15 /\ v7' = c
    BY <1>2 DEF Sens!Change
  <1> QED BY <1>4, <1>5, <1>6

\* A reading that fails leaves the value, or drops it and tells the fault
\* (ReadFails).
LEMMA FailsHolds ==
  ASSUME SensInv, v1' = v1, v1 # "ain", NEW current, NEW n, Sens!ReadFails(current, n)
  PROVE  SensInv'
  <1>1. SensTyped /\ SensTold /\ SensFault
    BY DEF SensInv
  <1>2. CASE v9 # -1 /\ Sens!Use(v9, v7, n)
    <2>1. v9 \in {2, 3, 6}
      BY <1>1, <1>2 DEF SensTyped
    <2>2. PICK v, c : v = v9 /\ c = v7
      OBVIOUS
    <2>3. v \in {2, 3, 6} /\ Sens!Use(v, c, n)
      BY <1>2, <2>1, <2>2
    <2> QED BY <2>3, UseHolds
  <1>3. CASE v8' = TRUE /\ v9' = -1 /\ v10' = -9 /\ Sens!Tell(TRUE) /\ v12' = "init"
    <2>1. v15' = -5
      BY <1>1, <1>3 DEF Sens!Tell, Sens!mb_dht_set_response, Sens!mb_ping_set_response,
         Sens!Fault, SensTyped
    <2>2. SensTyped'
      BY <1>1, <1>3 DEF SensTyped
    <2>3. SensTold'
      BY <1>3 DEF SensTold
    <2>4. SensFault'
      BY <1>3, <2>1 DEF SensFault
    <2> QED BY <1>3, <2>2, <2>3, <2>4 DEF SensInv, Sens!LimitsTold
  <1>4. CASE /\ v15' = v15 \/ (v8 /\ Sens!Tell(TRUE))
             /\ v12' = "init" /\ UNCHANGED <<v7, v8, v9, v10>>
    <2>0. v7' = v7 /\ v8' = v8 /\ v9' = v9 /\ v10' = v10
      BY <1>4
    <2>1. v15' = v15
      <3>1. CASE v8 /\ Sens!Tell(TRUE)
        <4>1. v15' = -5
          BY <1>1, <3>1 DEF Sens!Tell, Sens!mb_dht_set_response, Sens!mb_ping_set_response,
             Sens!Fault, SensTyped
        <4> QED BY <1>1, <3>1, <4>1 DEF SensFault
      <3> QED BY <1>4, <3>1
    <2>2. SensTyped'
      BY <1>1, <2>0 DEF SensTyped
    <2>3. SensTold'
      <3>1. Sens!Distance(v9, v10)' = Sens!Distance(v9, v10)
        BY <2>0 DEF Sens!Distance
      <3>2. v9 # 0
        BY <1>1 DEF SensTyped
      <3> QED BY <1>1, <2>0, <2>1, <3>1, <3>2 DEF SensTold
    <2>4. SensFault'
      BY <1>1, <2>0, <2>1 DEF SensFault
    <2> QED BY <1>4, <2>2, <2>3, <2>4 DEF SensInv, Sens!LimitsTold
  <1>5. \/ v9 # -1 /\ Sens!Use(v9, v7, n)
        \/ v8' = TRUE /\ v9' = -1 /\ v10' = -9 /\ Sens!Tell(TRUE) /\ v12' = "init"
        \/ /\ v15' = v15 \/ (v8 /\ Sens!Tell(TRUE))
           /\ v12' = "init" /\ UNCHANGED <<v7, v8, v9, v10>>
    <2> DEFINE errors == (v6 + 1) % SensorByte
    <2>1. CASE ~ v8 /\ v9 # Sens!NoValue /\ v2' * errors < current
      BY <2>1 DEF Sens!ReadFails, Sens!NoValue
    <2>2. CASE /\ ~ (~ v8 /\ v9 # Sens!NoValue /\ v2' * errors < current)
               /\ ~ v8 /\ v2' * errors >= DhtFaultAt
      BY <2>2 DEF Sens!ReadFails, Sens!NoValue, Sens!Unset
    <2>3. CASE /\ ~ (~ v8 /\ v9 # Sens!NoValue /\ v2' * errors < current)
               /\ ~ (~ v8 /\ v2' * errors >= DhtFaultAt)
      <3>1. IF v8 /\ errors = SensorByte - 1 THEN v6' = 0 /\ Sens!Tell(TRUE)
            ELSE v6' = errors /\ UNCHANGED v15
        BY <2>3 DEF Sens!ReadFails
      <3>2. v12' = "init" /\ UNCHANGED <<v7, v8, v9, v10>>
        BY <2>3 DEF Sens!ReadFails
      <3> QED BY <3>1, <3>2
    <2> QED BY <2>1, <2>2, <2>3
  <1> QED BY <1>2, <1>3, <1>4, <1>5

\* ... and so does a run of the timer.
LEMMA UpdateHolds ==
  ASSUME SensInv, v1' = v1, NEW n, Sens!Update(n) PROVE SensInv'
  <1>1. ASSUME Sens!ReadOk({2, 3, 6}, n) PROVE SensInv'
    <2>1. PICK v \in {2, 3, 6} : Sens!Use(v, v7 + 1, n)
      BY <1>1 DEF Sens!ReadOk
    <2>2. PICK c : c = v7 + 1
      OBVIOUS
    <2>3. Sens!Use(v, c, n)
      BY <2>1, <2>2
    <2> QED BY <2>3, UseHolds
  <1>2. \/ Sens!ReadOk({2, 3, 6}, n)
        \/ v1 # "ain" /\ Sens!ReadFails(DhtFaultAt, n)
        \/ v1 # "ain" /\ Sens!ReadFails(PingFaultAt, n)
    BY DEF Sens!Update, Sens!dht_timer_update, Sens!ping_timer_update, Sens!mb_ain_update,
       Sens!dht_read_from_sensor, Sens!ping_read_from_sensor, Sens!mb_ain_read, Sens!Readings
  <1> QED BY <1>1, <1>2, FailsHolds

LEMMA SensKeeps == ASSUME SensInv, Sens!Next \/ UNCHANGED Sens!vars PROVE SensInv'
  <1>0. SensTyped /\ SensTold /\ SensFault /\ Sens!LimitsTold
    BY DEF SensInv
  <1>1. ASSUME v1' = v1, UNCHANGED <<v7, v8, v9, v10, v15>>, v5' = v5 \/ v5' = FALSE,
               Sens!LimitsTold'
        PROVE  SensInv'
    <2>0. v7' = v7 /\ v8' = v8 /\ v9' = v9 /\ v10' = v10 /\ v15' = v15
      BY <1>1
    <2>1. SensTyped'
      BY <1>0, <1>1, <2>0 DEF SensTyped
    <2>2. SensTold'
      <3>1. Sens!Distance(v9, v10)' = Sens!Distance(v9, v10)
        BY <2>0 DEF Sens!Distance
      <3>2. v5' => v9' # 0
        BY <1>0, <1>1, <2>0 DEF SensTold
      <3> QED BY <1>0, <2>0, <3>1, <3>2 DEF SensTold
    <2>3. SensFault'
      BY <1>0, <2>0 DEF SensFault
    <2> QED BY <1>1, <2>1, <2>2, <2>3 DEF SensInv
  <1>2. ASSUME Sens!Quiet, v1' = v1, v12' = "init", v5' = FALSE PROVE SensInv'
    <2>1. Sens!LimitsTold'
      BY <1>2 DEF Sens!LimitsTold
    <2> QED BY <1>1, <1>2, <2>1 DEF Sens!Quiet
  <1>3. ASSUME v1' = v1, Sens!NoCommand PROVE SensInv'
    <2>1. Sens!LimitsTold'
      BY <1>0, <1>3 DEF Sens!LimitsTold, Sens!NoCommand
    <2> QED BY <1>1, <1>3, <2>1 DEF Sens!NoCommand, Sens!Quiet
  <1>4. ASSUME v1' = v1, NEW start,
               \/ Sens!mb_dht_timer_init(start) \/ Sens!mb_ping_timer_init(start)
               \/ Sens!mb_ain_timer_init(start)
        PROVE  SensInv'
    <2>1. Sens!Started(start) \/ Sens!Stopped(start)
      BY <1>4 DEF Sens!mb_dht_timer_init, Sens!mb_ping_timer_init, Sens!mb_ain_timer_init
    <2>2. CASE Sens!Started(start)
      <3>1. Sens!Update("init")
        BY <2>2 DEF Sens!Started
      <3> QED BY <1>4, <3>1, UpdateHolds
    <2>3. CASE Sens!Stopped(start)
      BY <1>2, <1>4, <2>3 DEF Sens!Stopped
    <2> QED BY <2>1, <2>2, <2>3
  <1>5. CASE Sens!Tick
    <2>1. PICK n : n = v11
      OBVIOUS
    <2>2. v1' = v1 /\ Sens!Update(n)
      BY <1>5, <2>1 DEF Sens!Tick
    <2> QED BY <2>2, UpdateHolds
  <1>6. CASE Sens!mb_dht_handler
    BY <1>3, <1>4, <1>6 DEF Sens!mb_dht_handler, Sens!Settings
  <1>7. CASE Sens!mb_ping_handler
    BY <1>3, <1>4, <1>7 DEF Sens!mb_ping_handler, Sens!Settings
  <1>8. CASE Sens!mb_ain_handler
    BY <1>3, <1>4, <1>8 DEF Sens!mb_ain_handler, Sens!Settings
  <1>9. CASE Sens!mb_dht_init \/ Sens!mb_ping_init \/ Sens!mb_ain_init
    BY <1>4, <1>9 DEF Sens!mb_dht_init, Sens!mb_ping_init, Sens!mb_ain_init, Sens!AtStart
  <1>10. CASE UNCHANGED Sens!vars
    <2>1. UNCHANGED <<v1, v5, v7, v8, v9, v10, v11, v12, v15>>
      BY <1>10 DEF Sens!vars
    <2>2. Sens!LimitsTold'
      BY <1>0, <2>1 DEF Sens!LimitsTold
    <2> QED BY <1>1, <2>1, <2>2
  <1> QED BY <1>5, <1>6, <1>7, <1>8, <1>9, <1>10 DEF Sens!Next

\* The listeners were told the value, or one as near as the threshold.
LEMMA SensTells == ASSUME SensInv PROVE Sens!LimitsTold /\ Sens!NothingUntold
  <1>1. SensTyped /\ SensTold /\ SensFault /\ Sens!LimitsTold
    BY DEF SensInv
  <1>2. ASSUME v5, v9 # -1
        PROVE  Sens!Distance(v9, v15) <= 1 /\ (v7 >= SensorEach => v9 = v15)
    <2>1. v9 \in {2, 3, 6}
      BY <1>1, <1>2 DEF SensTyped, SensTold
    <2>2. v10 \in {2, 3, 6}
      BY <1>1, <2>1 DEF SensTyped, SensTold, Sens!Distance
    <2> QED BY <1>1, <2>1, <2>2 DEF SensTold
  <1>3. v8 <=> v15 = -5
    BY <1>1 DEF SensFault
  <1> QED BY <1>1, <1>2, <1>3 DEF Sens!NothingUntold, Sens!NoValue, Sens!Fault
-----------------------------------------------------------------------------
(* The scan for networks: v1 tells that one runs, v2 that a result is      *)
(* kept, v3 and v4 that the timers are set that throw it away and look     *)
(* again, v5 are the other timers, v6 tells that a network is joined by    *)
(* itself, v7 that an open one is looked for, v8 that one is configured,   *)
(* v9 is the station, v10 tells that a request waits, v11 that its scan    *)
(* failed, and v12 that the device's could not be started.                 *)
WifiTyped ==
  /\ v1 \in BOOLEAN /\ v2 \in BOOLEAN /\ v3 \in BOOLEAN /\ v4 \in BOOLEAN /\ v6 \in BOOLEAN
  /\ v7 \in BOOLEAN /\ v8 \in BOOLEAN /\ v10 \in BOOLEAN /\ v11 \in BOOLEAN /\ v12 \in BOOLEAN
  /\ v9 \in {"idle", "connecting", "got_ip"}

WifiInv == WifiTyped /\ Wifi!AnswerComes /\ Wifi!CacheAges /\ Wifi!LooksOn

LEMMA WifiStarts == ASSUME Wifi!Init PROVE WifiInv
  <1>1. v6 \in BOOLEAN
    <2>1. v6 = ("station" \in v5)
      BY DEF Wifi!Init
    <2>2. v5 = {} \/ v5 = {"station"}
      BY DEF Wifi!Init
    <2>3. CASE v5 = {}
      <3>1. "station" \notin v5
        BY <2>3
      <3> QED BY ONLY <2>1, <3>1
    <2>4. CASE v5 = {"station"}
      <3>1. "station" \in v5
        BY <2>4
      <3> QED BY ONLY <2>1, <3>1
    <2> QED BY <2>2, <2>3, <2>4
  <1>2. WifiTyped
    BY <1>1 DEF Wifi!Init, WifiTyped
  <1> QED BY <1>2 DEF Wifi!Init, WifiInv, Wifi!AnswerComes, Wifi!CacheAges, Wifi!LooksOn

\* What a look for an open network does to scan, result and timer.
WifiLooks ==
  \/ UNCHANGED <<v1, v2, v3, v7, v12>> /\ (v6 => v8)
  \/ /\ v6 /\ ~ v8 /\ v7' = TRUE
     /\ \/ v1 /\ UNCHANGED <<v1, v2, v3, v12>>
        \/ /\ ~ v1 /\ v2' = FALSE /\ v3' = FALSE
           /\ \/ v1' = TRUE /\ v12' = FALSE
              \/ v1' = FALSE /\ v12' = TRUE

LEMMA WifiLooking == ASSUME WifiTyped, Wifi!AutoDetect PROVE WifiLooks
  <1> USE DEF WifiTyped
  <1>1. CASE ~ v6 \/ v8
    BY <1>1 DEF Wifi!AutoDetect, WifiLooks
  <1>2. CASE v6 /\ ~ v8 /\ v1
    BY <1>2 DEF Wifi!AutoDetect, WifiLooks
  <1>3. CASE v6 /\ ~ v8 /\ ~ v1
    <2>1. PICK started \in BOOLEAN : Wifi!ScanStart(started) /\ v12' = ~ started
      BY <1>3 DEF Wifi!AutoDetect
    <2>2. v7' = TRUE /\ v2' = FALSE /\ v3' = FALSE /\ v1' = started
      BY <1>3, <2>1 DEF Wifi!AutoDetect, Wifi!ScanStart
    <2>3. CASE started
      BY <1>3, <2>1, <2>2, <2>3 DEF WifiLooks
    <2>4. CASE ~ started
      BY <1>3, <2>1, <2>2, <2>4 DEF WifiLooks
    <2> QED BY <2>3, <2>4
  <1> QED BY <1>1, <1>2, <1>3

LEMMA WifiLooked ==
  ASSUME WifiInv, WifiLooks, UNCHANGED <<v6, v8, v10, v11>>,
         v9' \in {v9, "idle"}, v4' \in BOOLEAN
  PROVE  WifiInv'
  <1> USE DEF WifiInv, WifiTyped, Wifi!AnswerComes, Wifi!CacheAges, Wifi!LooksOn
  <1>1. CASE UNCHANGED <<v1, v2, v3, v7, v12>> /\ (v6 => v8)
    BY <1>1
  <1>2. CASE ~ v8 /\ v7' = TRUE /\ v1 /\ UNCHANGED <<v1, v2, v3, v12>>
    BY <1>2
  <1>3. CASE v7' = TRUE /\ v2' = FALSE /\ v3' = FALSE /\ v1' = TRUE /\ v12' = FALSE
    BY <1>3
  <1>4. CASE /\ v7' = TRUE /\ ~ v1 /\ v2' = FALSE /\ v3' = FALSE
             /\ v1' = FALSE /\ v12' = TRUE
    BY <1>4
  <1> QED BY <1>1, <1>2, <1>3, <1>4 DEF WifiLooks

\* A scan that is started forgets the last result and its timer, so that none is
\* in the way of its own; and whoever looks on has it, or a timer.
LEMMA WifiKeeps == ASSUME WifiInv, Wifi!Next \/ UNCHANGED Wifi!vars PROVE WifiInv'
  <1> USE DEF WifiInv, WifiTyped, Wifi!AnswerComes, Wifi!CacheAges, Wifi!LooksOn
  <1>1. ASSUME Wifi!DetectTimer PROVE WifiInv'
    <2>1. WifiLooks
      BY <1>1, WifiLooking DEF Wifi!DetectTimer
    <2>2. UNCHANGED <<v6, v8, v9, v10, v11>>
      BY <1>1 DEF Wifi!DetectTimer, Wifi!Wifi
    <2>3. v4' \in BOOLEAN
      <3>1. CASE v6
        BY <1>1, <3>1 DEF Wifi!DetectTimer
      <3>2. CASE ~ v6
        <4>1. v4' = (v4 /\ "detect" \in v5)
          BY <1>1, <3>2 DEF Wifi!DetectTimer
        <4> QED BY ONLY <4>1, Zenon
      <3> QED BY <3>1, <3>2
    <2> QED BY <2>1, <2>2, <2>3, WifiLooked
  <1>2. ASSUME Wifi!Ask PROVE WifiInv'
    <2>1. UNCHANGED <<v4, v5, v6, v7, v8, v9, v12>>
      BY <1>2 DEF Wifi!Ask, Wifi!Wifi
    <2>2. CASE v1 \/ v2
      <3>1. CASE v1
        <4>1. v10' = TRUE /\ UNCHANGED <<v1, v2, v3, v11>>
          BY <1>2, <3>1 DEF Wifi!Ask
        <4> QED BY <2>1, <3>1, <4>1
      <3>2. CASE ~ v1 /\ v2
        <4>1. UNCHANGED <<v1, v2, v3, v10, v11>>
          BY <1>2, <3>2 DEF Wifi!Ask
        <4> QED BY <2>1, <4>1
      <3> QED BY <2>2, <3>1, <3>2
    <2>3. CASE ~ v1 /\ ~ v2
      <3>1. PICK started \in BOOLEAN : /\ Wifi!ScanStart(started)
                                       /\ v10' = (v10 \/ started)
                                       /\ v11' = (v11 /\ ~ started)
        BY <1>2, <2>3 DEF Wifi!Ask
      <3>2. v10' \in BOOLEAN /\ v11' \in BOOLEAN
        BY <3>1, Zenon
      <3>3. (v10' => v10 \/ started) /\ (v11 /\ ~ started => v11')
        BY <3>1, Zenon
      <3>4. v2' = FALSE /\ v3' = FALSE /\ v1' = started
        BY <3>1 DEF Wifi!ScanStart
      <3>5. WifiTyped'
        BY <2>1, <3>2, <3>4
      <3>6. Wifi!AnswerComes' /\ Wifi!CacheAges' /\ Wifi!LooksOn'
        BY <2>1, <2>3, <3>1, <3>3, <3>4
      <3> QED BY <3>5, <3>6
    <2> QED BY <2>2, <2>3
  <1>3. ASSUME Wifi!Done PROVE WifiInv'
    <2>1. v1 /\ v1' = FALSE /\ UNCHANGED <<v6, v8, v12>>
      BY <1>3 DEF Wifi!Done
    <2>2. CASE /\ v4' = v4
               /\ v5' = IF v7 THEN v5 \cup {"detect"} ELSE v5
               /\ v11' = v10
               /\ UNCHANGED <<v2, v3, v7, v9, v10>>
      BY <2>1, <2>2
    <2>3. ASSUME v2' \in BOOLEAN, v3' = v2', NEW open \in BOOLEAN, open => v2',
                 v7' = (v7 /\ ~ open), v4' = (v4 \/ (v7 /\ ~ open)),
                 v9' = IF v7 /\ open THEN "connecting" ELSE v9,
                 v10' = FALSE, v11' = FALSE, v5' = v5
          PROVE  WifiInv'
      <3>1. v7' \in BOOLEAN /\ v4' \in BOOLEAN
        BY <2>3, Zenon
      <3>2. (v7' => v7 /\ ~ open) /\ (v7 /\ ~ open => v4')
        BY <2>3, Zenon
      <3>3. v9' \in {"idle", "connecting", "got_ip"}
        BY <2>3
      <3>4. WifiTyped'
        BY <2>1, <2>3, <3>1, <3>3
      <3> QED BY <2>1, <2>3, <3>2, <3>4
    <2> QED BY <1>3, <2>2, <2>3 DEF Wifi!Done
  <1>4. ASSUME Wifi!Clean PROVE WifiInv'
    BY <1>4 DEF Wifi!Clean, Wifi!Wifi
  <1>5. ASSUME NEW a \in BOOLEAN, NEW n \in BOOLEAN, Wifi!ConfigLoad(a, n) PROVE WifiInv'
    <2>1. /\ v6' = a /\ v8' = n
          /\ UNCHANGED <<v1, v2, v3, v4, v7, v9, v10, v11, v12>>
      BY <1>5 DEF Wifi!ConfigLoad
    <2>2. v5 \subseteq v5' /\ (a => "station" \in v5')
      BY <1>5 DEF Wifi!ConfigLoad
    <2> QED BY <2>1, <2>2
  <1>6. ASSUME Wifi!StationConnect PROVE WifiInv'
    <2>1. UNCHANGED <<v1, v2, v3, v4, v6, v7, v8, v9, v10, v11, v12>>
      BY <1>6 DEF Wifi!StationConnect, Wifi!Wifi
    <2>2. v9 = "idle" => "detect" \in v5'
      BY <1>6 DEF Wifi!StationConnect
    <2> QED BY <2>1, <2>2
  <1>7. ASSUME Wifi!Connect \/ Wifi!Disconnect PROVE WifiInv'
    <2>1. UNCHANGED <<v1, v2, v3, v4, v6, v7, v8, v10, v11, v12>>
      BY <1>7 DEF Wifi!Connect, Wifi!Disconnect, Wifi!Wifi
    <2>2. v5' = v5 \ {"connect"} \/ v5' = v5 \ {"disconnect"}
      BY <1>7 DEF Wifi!Connect, Wifi!Disconnect
    <2>3. v9' = v9 \/ v9' = "connecting"
      BY <1>7 DEF Wifi!Connect, Wifi!Disconnect, Wifi!Wifi
    <2> QED BY <2>1, <2>2, <2>3
  <1>8. ASSUME Wifi!GotIp PROVE WifiInv'
    BY <1>8 DEF Wifi!GotIp
  <1>9. ASSUME Wifi!Disconnected PROVE WifiInv'
    <2>1. WifiLooks
      BY <1>9, WifiLooking DEF Wifi!Disconnected
    <2>2. UNCHANGED <<v5, v6, v8, v10, v11>> /\ v9' = "idle"
      BY <1>9 DEF Wifi!Disconnected
    <2>3. v4' \in BOOLEAN
      <3>1. v4' = (v4 /\ ~ v6)
        BY <1>9 DEF Wifi!Disconnected
      <3> QED BY ONLY <3>1, Zenon
    <2> QED BY <2>1, <2>2, <2>3, WifiLooked
  <1>10. ASSUME UNCHANGED Wifi!vars PROVE WifiInv'
    BY <1>10 DEF Wifi!vars
  <1> QED BY <1>1, <1>2, <1>3, <1>4, <1>5, <1>6, <1>7, <1>8, <1>9, <1>10 DEF Wifi!Next

-----------------------------------------------------------------------------
(* The list of devices: v1 are the urls registered, v2 and v3 the module   *)
(* on the port and the addresses that answer, v4 tells that a scan runs,   *)
(* v5 is the address it tries, v6 its timers, v7 the addresses found, v8   *)
(* the requests that wait, v9 the last answer.                             *)
ScanTyped ==
  /\ v1 \in Seq(Scan!Urls) /\ v4 \in BOOLEAN /\ v5 \in Nat /\ v6 \in Nat /\ v7 \in Seq(Nat)
  /\ v8 \in Nat

\* A scan that runs has one timer and an address left; without one, nobody waits
\* and nothing is found.
ScanRuns ==
  /\ v4 => v6 = 1 /\ v5 \in 1..LastAddress
  /\ ~ v4 => v6 = 0 /\ v7 = <<>> /\ v8 = 0

ScanInv == ScanTyped /\ ScanRuns /\ Scan!FoundOnce /\ Scan!ListedOnce

LEMMA ScanStarts == ASSUME Scan!Init PROVE ScanInv
  <1>1. v1 = <<>> /\ v4 = FALSE /\ v5 = 1 /\ v6 = 0 /\ v7 = <<>> /\ v8 = 0
    BY DEF Scan!Init
  <1>2. ScanTyped /\ ScanRuns
    <2>1. v1 \in Seq(Scan!Urls) /\ v7 \in Seq(Nat)
      BY <1>1, EmptySeq
    <2>2. ScanTyped
      BY <1>1, <2>1 DEF ScanTyped
    <2>3. ScanRuns
      BY <1>1 DEF ScanRuns
    <2> QED BY <2>2, <2>3
  <1>3. 1..Len(v1) = {} /\ 1..Len(v7) = {}
    BY <1>1
  <1> QED BY <1>2, <1>3 DEF ScanInv, Scan!FoundOnce, Scan!ListedOnce

\* An address that is found lies behind those found before.
LEMMA FoundBehind ==
  ASSUME NEW f \in Seq(Nat), NEW c \in Nat,
         \A i \in 1..Len(f) : f[i] < c /\ \A j \in 1..(i - 1) : f[j] < f[i],
         NEW g, g = f \/ g = Append(f, c)
  PROVE  /\ g \in Seq(Nat)
         /\ \A i \in 1..Len(g) : g[i] < c + 1 /\ \A j \in 1..(i - 1) : g[j] < g[i]
  <1>1. CASE g = f
    <2>1. \A i \in 1..Len(f) : f[i] \in Nat
      OBVIOUS
    <2> QED BY <1>1, <2>1
  <1>2. CASE g = Append(f, c)
    <2>1. g \in Seq(Nat) /\ Len(g) = Len(f) + 1 /\ Len(f) \in Nat
      BY <1>2
    <2>2. \A i \in 1..Len(f) : g[i] = f[i] /\ f[i] \in Nat
      BY <1>2
    <2>3. g[Len(f) + 1] = c
      BY <1>2
    <2> SUFFICES ASSUME NEW i \in 1..Len(g)
                 PROVE  g[i] < c + 1 /\ \A j \in 1..(i - 1) : g[j] < g[i]
      BY <2>1
    <2>4. CASE i = Len(f) + 1
      BY <2>1, <2>2, <2>3, <2>4
    <2>5. CASE i \in 1..Len(f)
      <3>1. g[i] < c + 1
        BY <2>2, <2>5
      <3>2. \A j \in 1..(i - 1) : j \in 1..Len(f)
        BY <2>1, <2>5
      <3> QED BY <2>2, <2>5, <3>1, <3>2
    <2> QED BY <2>1, <2>4, <2>5
  <1> QED BY <1>1, <1>2

\* A url that is registered is in the list once.
LEMMA ScanRegisters ==
  ASSUME ScanInv, NEW url \in Scan!Urls, Scan!device_register(url)
  PROVE  v1' \in Seq(Scan!Urls) /\ Scan!ListedOnce'
  <1>1. v1 \in Seq(Scan!Urls) /\ Scan!ListedOnce
    BY DEF ScanInv, ScanTyped
  <1>2. CASE \E i \in 1..Len(v1) : v1[i] = url
    <2>1. v1' = v1
      BY <1>2 DEF Scan!device_register
    <2> QED BY <1>1, <2>1 DEF Scan!ListedOnce
  <1>3. CASE ~ \E i \in 1..Len(v1) : v1[i] = url
    <2>1. v1' = Append(v1, url)
      BY <1>3 DEF Scan!device_register
    <2>2. PICK w \in Seq(Scan!Urls) : w = v1'
      BY <1>1, <2>1
    <2>3. Len(w) = Len(v1) + 1 /\ Len(v1) \in Nat
      BY ONLY <1>1, <2>1, <2>2
    <2>4. \A i \in 1..Len(v1) : w[i] = v1[i]
      BY ONLY <1>1, <2>1, <2>2
    <2>5. w[Len(v1) + 1] = url
      BY ONLY <1>1, <2>1, <2>2
    <2>6. \A i, j \in 1..Len(w) : w[i] = w[j] => i = j
      BY <1>1, <1>3, <2>3, <2>4, <2>5 DEF Scan!ListedOnce
    <2> QED BY <2>2, <2>6 DEF Scan!ListedOnce
  <1> QED BY <1>2, <1>3

\* One scan runs for all who ask, and the last address answers them.
LEMMA ScanKeeps == ASSUME ScanInv, Scan!Next \/ UNCHANGED Scan!vars PROVE ScanInv'
  <1> USE ScanAssumption
  <1>0. ScanTyped /\ ScanRuns /\ Scan!FoundOnce /\ Scan!ListedOnce
    BY DEF ScanInv
  <1>1. ASSUME Scan!Register PROVE ScanInv'
    <2>1. v1' \in Seq(Scan!Urls) /\ Scan!ListedOnce'
      BY <1>1, ScanRegisters DEF Scan!Register
    <2>2. UNCHANGED <<v4, v5, v6, v7, v8>>
      BY <1>1 DEF Scan!Register
    <2> QED BY <1>0, <2>1, <2>2 DEF ScanInv, ScanTyped, ScanRuns, Scan!FoundOnce
  <1>2. ASSUME Scan!device_set_uart \/ Scan!Replug \/ UNCHANGED Scan!vars PROVE ScanInv'
    <2>1. UNCHANGED <<v1, v4, v5, v6, v7, v8>>
      BY <1>2 DEF Scan!device_set_uart, Scan!Replug, Scan!vars
    <2> QED BY <1>0, <2>1 DEF ScanInv, ScanTyped, ScanRuns, Scan!FoundOnce, Scan!ListedOnce
  <1>3. ASSUME Scan!devices_handler PROVE ScanInv'
    <2>1. v8' = v8 + 1 /\ UNCHANGED <<v1, v7>>
      BY <1>3 DEF Scan!devices_handler
    <2>2. CASE v4
      <3>1. UNCHANGED <<v4, v5, v6>>
        BY <1>3, <2>2 DEF Scan!devices_handler, Scan!i2c_scan_start
      <3> QED BY <1>0, <2>1, <2>2, <3>1
            DEF ScanInv, ScanTyped, ScanRuns, Scan!FoundOnce, Scan!ListedOnce
    <2>3. CASE ~ v4
      <3>1. v4' = TRUE /\ v5' = 1 /\ v6' = v6 + 1
        BY <1>3, <2>3 DEF Scan!devices_handler, Scan!i2c_scan_start
      <3>2. v6 = 0 /\ v7 = <<>>
        BY <1>0, <2>3 DEF ScanRuns
      <3> QED BY <1>0, <2>1, <3>1, <3>2
            DEF ScanInv, ScanTyped, ScanRuns, Scan!FoundOnce, Scan!ListedOnce
    <2> QED BY <2>2, <2>3
  <1>4. ASSUME Scan!i2c_scan PROVE ScanInv'
    <2>1. v4 /\ v6 = 1 /\ v5 \in 1..LastAddress /\ UNCHANGED v1
      BY <1>0, <1>4 DEF Scan!i2c_scan, ScanRuns
    <2>2. PICK all : /\ all = v7 \/ all = Append(v7, v5)
                     /\ IF v5 = LastAddress
                        THEN /\ v4' = FALSE /\ v8' = 0 /\ v7' = <<>> /\ v6' = v6 - 1
                             /\ v5' = v5 + 1
                        ELSE v7' = all /\ v5' = v5 + 1 /\ UNCHANGED <<v4, v8, v6>>
      BY <1>4 DEF Scan!i2c_scan
    <2>3. /\ all \in Seq(Nat)
          /\ \A i \in 1..Len(all) : all[i] < v5 + 1 /\ \A j \in 1..(i - 1) : all[j] < all[i]
      BY <1>0, <2>2, FoundBehind DEF ScanTyped, Scan!FoundOnce
    <2>4. CASE v5 = LastAddress
      <3>1. v4' = FALSE /\ v8' = 0 /\ v7' = <<>> /\ v6' = 0 /\ v5' \in Nat
        BY <2>1, <2>2, <2>4
      <3>2. ScanTyped' /\ ScanRuns'
        <4>1. v7' \in Seq(Nat)
          BY <3>1, EmptySeq
        <4>2. ScanTyped'
          BY <1>0, <2>1, <3>1, <4>1 DEF ScanTyped
        <4>3. ScanRuns'
          BY <3>1 DEF ScanRuns
        <4> QED BY <4>2, <4>3
      <3>3. Scan!FoundOnce'
        <4>1. 1..Len(v7') = {}
          BY <3>1
        <4> QED BY <4>1 DEF Scan!FoundOnce
      <3>4. Scan!ListedOnce'
        BY <1>0, <2>1 DEF Scan!ListedOnce
      <3> QED BY <3>2, <3>3, <3>4 DEF ScanInv
    <2>5. CASE v5 # LastAddress
      <3>1. v7' = all /\ v5' = v5 + 1 /\ UNCHANGED <<v4, v8, v6>>
        BY <2>2, <2>5
      <3>2. v5' \in 1..LastAddress
        BY <2>1, <2>5, <3>1
      <3>3. Scan!FoundOnce'
        BY <2>3, <3>1 DEF Scan!FoundOnce
      <3> QED BY <1>0, <2>1, <2>3, <3>1, <3>2, <3>3
            DEF ScanInv, ScanTyped, ScanRuns, Scan!ListedOnce
    <2> QED BY <2>4, <2>5
  <1> QED BY <1>1, <1>2, <1>3, <1>4 DEF Scan!Next

-----------------------------------------------------------------------------
(* Requests: v1 is the configuration, v2 the state of each connection, v3  *)
(* the method whose first letter it sent, v4 the letter kept, v5 the long  *)
(* polls, v6 the requests without an answer; v7 and v8 are the status and  *)
(* whether an event was posted, v9 tells that letters were mixed, v10 that *)
(* a request was not understood.                                           *)
HttpTyped ==
  /\ v2 \in [Conns -> {"none", "open", "socket", "closed"}]
  /\ v3 \in [Conns -> Http!Methods \cup {Http!None}]
  /\ v4 \in Http!Methods \cup {Http!None}
  /\ v5 \in [Conns -> [Http!Waits -> Nat]]
  /\ v6 \in [Conns -> Nat]
  /\ v9 \in BOOLEAN /\ v10 \in BOOLEAN

\* A connection that is gone is owed nothing and waits for nothing.
HttpGone == \A c \in Conns : v2[c] = "none" => v6[c] = 0 /\ Http!Count(c) = 0

\* Unless letters were mixed, the letter kept is that of the one connection
\* that sent one, and secure connections do.
HttpLetters ==
  /\ \A c \in Conns : v3[c] # Http!None => c \in Secure
  /\ ~ v9 => /\ ~ v10
             /\ \A c \in Conns : v3[c] # Http!None => v4 = v3[c]
             /\ \A c, d \in Conns : v3[c] # Http!None /\ v3[d] # Http!None => c = d

HttpPolls == Http!OneAnswer /\ HttpGone

HttpInv == HttpTyped /\ HttpPolls /\ HttpLetters

LEMMA HttpStarts == ASSUME Http!Init PROVE HttpInv
  <1>1. /\ v2 = [c \in Conns |-> "none"] /\ v3 = [c \in Conns |-> Http!None]
        /\ v4 = Http!None /\ v6 = [c \in Conns |-> 0] /\ v9 = FALSE /\ v10 = FALSE
        /\ v5 = [c \in Conns |-> [url \in Http!Waits |-> 0]]
    BY DEF Http!Init
  <1>2. HttpTyped
    BY <1>1 DEF HttpTyped
  <1>3. HttpPolls
    BY <1>1 DEF HttpPolls, Http!OneAnswer, HttpGone, Http!Count, Http!Waits
  <1>4. HttpLetters
    BY <1>1 DEF HttpLetters
  <1> QED BY <1>2, <1>3, <1>4 DEF HttpInv

\* What polls count to, and how many of them an event answers.
LEMMA HttpCounts ==
  ASSUME HttpTyped, NEW c \in Conns, NEW url
  PROVE  /\ Http!Count(c) \in Nat /\ Http!Heard(c, url) \in Nat
         /\ Http!Heard(c, url) <= Http!Count(c)
  <1>1. v5[c]["later"] \in Nat /\ v5[c]["events"] \in Nat
    BY DEF HttpTyped, Http!Waits
  <1> QED BY <1>1 DEF Http!Count, Http!Heard

\* An event answers those who wait for it, once, but for who is closing.
LEMMA HttpRaised ==
  ASSUME HttpTyped, HttpPolls, NEW url, Http!Raise(url), UNCHANGED v2
  PROVE  v5' \in [Conns -> [Http!Waits -> Nat]] /\ v6' \in [Conns -> Nat] /\ HttpPolls'
  <1>1. v5' = [c \in Conns |-> [w \in Http!Waits |-> IF Http!Hears(w, url) THEN 0 ELSE v5[c][w]]]
    BY DEF Http!Raise
  <1>2. v5' \in [Conns -> [Http!Waits -> Nat]]
    BY <1>1 DEF HttpTyped
  <1>3. ASSUME NEW c \in Conns PROVE Http!Count(c)' = Http!Count(c) - Http!Heard(c, url)
    <2>1. v5[c]["later"] \in Nat /\ v5[c]["events"] \in Nat
      BY DEF HttpTyped, Http!Waits
    <2>2. v5'[c]["later"] = (IF Http!Hears("later", url) THEN 0 ELSE v5[c]["later"])
      BY <1>1 DEF Http!Waits
    <2>3. v5'[c]["events"] = 0
      BY <1>1 DEF Http!Waits, Http!Hears
    <2> QED BY <2>1, <2>2, <2>3 DEF Http!Count, Http!Heard
  <1>4. ASSUME NEW c \in Conns
        PROVE  v6'[c] = v6[c] - IF v2[c] = "closed" THEN 0 ELSE Http!Heard(c, url)
    BY DEF Http!Raise
  <1>5. ASSUME NEW c \in Conns PROVE v6[c] \in Nat /\ v2[c] \in {"none", "open", "socket", "closed"}
    BY DEF HttpTyped
  <1>6. ASSUME NEW c \in Conns
        PROVE  /\ v6'[c] \in Nat
               /\ v2[c] \in {"open", "socket"} => v6'[c] = Http!Count(c)'
               /\ v2[c] = "none" => v6'[c] = 0 /\ Http!Count(c)' = 0
    <2>1. /\ v2[c] \in {"open", "socket"} => v6[c] = Http!Count(c)
          /\ v2[c] = "none" => v6[c] = 0 /\ Http!Count(c) = 0
      BY DEF HttpPolls, Http!OneAnswer, HttpGone
    <2> QED BY <1>3, <1>4, <1>5, <2>1, HttpCounts
  <1>7. v6' \in [Conns -> Nat]
    <2>1. v6' = [c \in Conns |-> v6'[c]]
      BY DEF Http!Raise
    <2> QED BY <1>6, <2>1
  <1> QED BY <1>2, <1>6, <1>7 DEF HttpPolls, Http!OneAnswer, HttpGone


\* A request that is left to an event waits in the list, and is owed its answer.
LEMMA HttpRegistered ==
  ASSUME HttpTyped, HttpPolls, NEW c \in Conns, v2[c] = "open", NEW url \in Http!Waits,
         Http!long_poll_register(c, url), UNCHANGED v2
  PROVE  v5' \in [Conns -> [Http!Waits -> Nat]] /\ v6' \in [Conns -> Nat] /\ HttpPolls'
  <1>1. /\ v5' = [v5 EXCEPT ![c][url] = @ + 1]
        /\ v6' = [v6 EXCEPT ![c] = @ + 1]
    BY DEF Http!long_poll_register
  <1>2. v5 \in [Conns -> [Http!Waits -> Nat]] /\ v6 \in [Conns -> Nat]
    BY DEF HttpTyped
  <1>3. v5' \in [Conns -> [Http!Waits -> Nat]] /\ v6' \in [Conns -> Nat]
    BY <1>1, <1>2
  <1>4. Http!Count(c)' = Http!Count(c) + 1
    <2>1. v5[c]["later"] \in Nat /\ v5[c]["events"] \in Nat
      BY <1>2 DEF Http!Waits
    <2>2. CASE url = "later"
      <3>1. v5'[c]["later"] = v5[c]["later"] + 1 /\ v5'[c]["events"] = v5[c]["events"]
        BY <1>1, <1>2, <2>2 DEF Http!Waits
      <3> QED BY <2>1, <3>1 DEF Http!Count
    <2>3. CASE url = "events"
      <3>1. v5'[c]["events"] = v5[c]["events"] + 1 /\ v5'[c]["later"] = v5[c]["later"]
        BY <1>1, <1>2, <2>3 DEF Http!Waits
      <3> QED BY <2>1, <3>1 DEF Http!Count
    <2> QED BY <2>2, <2>3 DEF Http!Waits
  <1>5. \A d \in Conns \ {c} : Http!Count(d)' = Http!Count(d) /\ v6'[d] = v6[d]
    BY <1>1, <1>2 DEF Http!Count
  <1>6. v6'[c] = v6[c] + 1 /\ v6[c] = Http!Count(c)
    BY <1>1, <1>2 DEF HttpPolls, Http!OneAnswer
  <1>7. HttpPolls'
    BY <1>4, <1>5, <1>6 DEF HttpPolls, Http!OneAnswer, HttpGone
  <1> QED BY <1>3, <1>7

\* A step that leaves polls and what is owed alone, and takes no connection from
\* closed back, leaves them in step.
LEMMA HttpSame ==
  ASSUME HttpTyped, HttpPolls, UNCHANGED <<v5, v6>>,
         \A c \in Conns : \/ v2'[c] = v2[c]
                          \/ (v2'[c] = "closed" /\ v2[c] # "none")
                          \/ v2[c] \in {"none", "open"} /\ v2'[c] \in {"open", "socket"}
  PROVE  HttpPolls'
  <1>1. \A c \in Conns : Http!Count(c)' = Http!Count(c)
    BY DEF Http!Count
  <1>2. ASSUME NEW c \in Conns, v2'[c] \in {"open", "socket"} PROVE v6'[c] = Http!Count(c)'
    BY <1>1, <1>2 DEF HttpPolls, Http!OneAnswer, HttpGone
  <1>3. ASSUME NEW c \in Conns, v2'[c] = "none" PROVE v6'[c] = 0 /\ Http!Count(c)' = 0
    BY <1>1, <1>3 DEF HttpPolls, HttpGone
  <1> QED BY <1>2, <1>3 DEF HttpPolls, Http!OneAnswer, HttpGone

\* What a request does to polls and connection, whatever becomes of it.
LEMMA HttpDispatched ==
  ASSUME HttpTyped, HttpPolls, NEW c \in Conns, v2[c] = "open", NEW method, NEW url,
         NEW creds, NEW content, NEW up, Http!Dispatch(c, method, url, creds, content, up)
  PROVE  /\ v2' \in [Conns -> {"none", "open", "socket", "closed"}]
         /\ v5' \in [Conns -> [Http!Waits -> Nat]] /\ v6' \in [Conns -> Nat] /\ HttpPolls'
  <1> DEFINE code == Http!Status(c, method, url, creds, content, up)
  <1>0. v2 \in [Conns -> {"none", "open", "socket", "closed"}]
    BY DEF HttpTyped
  <1>1. CASE code = 0
    <2>1. url \in Http!Waits
      BY <1>1 DEF Http!Status, Http!events_handler
    <2>2. UNCHANGED v2 /\ Http!long_poll_register(c, url)
      BY <1>1 DEF Http!Dispatch
    <2> QED BY <1>0, <2>1, <2>2, HttpRegistered
  <1>2. CASE code = 200 /\ method = "POST"
    <2>1. UNCHANGED v2 /\ Http!Raise(url)
      BY <1>2 DEF Http!Dispatch
    <2> QED BY <1>0, <2>1, HttpRaised
  <1>3. CASE code # 0 /\ ~ (code = 200 /\ method = "POST")
    <2>1. UNCHANGED <<v5, v6>>
      BY <1>3 DEF Http!Dispatch, Http!webserver_send_response
    <2>2. v2' = v2 \/ v2' = [v2 EXCEPT ![c] = "socket"]
      BY DEF Http!Dispatch
    <2>3. HttpPolls'
      <3>1. CASE v2' = v2
        BY <2>1, <3>1, HttpSame
      <3>2. CASE v2' = [v2 EXCEPT ![c] = "socket"]
        <4>1. \A d \in Conns : v2'[d] = IF d = c THEN "socket" ELSE v2[d]
          BY <1>0, <3>2
        <4> QED BY <2>1, <4>1, HttpSame
      <3> QED BY <2>2, <3>1, <3>2
    <2> QED BY <1>0, <2>1, <2>2, <2>3 DEF HttpTyped
  <1> QED BY <1>1, <1>2, <1>3

\* A request takes the letter that came before it, its own or, as letters were
\* mixed, another's.
LEMMA HttpTaken ==
  ASSUME HttpTyped, HttpLetters, NEW c \in Conns, Http!Request(c)
  PROVE  /\ HttpLetters' /\ v3' \in [Conns -> Http!Methods \cup {Http!None}]
         /\ v4' \in Http!Methods \cup {Http!None} /\ v9' \in BOOLEAN /\ v10' \in BOOLEAN
  <1>1. PICK m \in Http!Methods :
          /\ v3[c] \in {Http!None, m}
          /\ IF v1.ssl /\ c \notin Secure
             THEN UNCHANGED <<v4, v10>>
             ELSE v4' = Http!None /\ v10' = (v10 \/ Http!Method(c, m) = "UNKNOWN")
    BY DEF Http!Request
  <1>2. /\ v9' = (v9 \/ (v4 # Http!None /\ v3[c] = Http!None)
                     \/ (v4 = Http!None /\ v3[c] # Http!None))
        /\ v3' = [v3 EXCEPT ![c] = Http!None]
    BY DEF Http!Request
  <1>3. v9' \in BOOLEAN
    BY <1>2, Zenon
  <1>4. v3' \in [Conns -> Http!Methods \cup {Http!None}]
    BY <1>2 DEF HttpTyped
  <1>5. v4' \in Http!Methods \cup {Http!None} /\ v10' \in BOOLEAN
    <2>1. CASE v1.ssl /\ c \notin Secure
      BY <1>1, <2>1 DEF HttpTyped
    <2>2. CASE ~ (v1.ssl /\ c \notin Secure)
      BY <1>1, <2>2, Zenon DEF HttpTyped
    <2> QED BY <2>1, <2>2
  <1>6. v3'[c] = Http!None /\ \A d \in Conns \ {c} : v3'[d] = v3[d]
    BY <1>2 DEF HttpTyped
  <1>7. ASSUME ~ v9'
        PROVE  /\ ~ v9 /\ (v4 # Http!None <=> v3[c] # Http!None)
    BY <1>2, <1>7, Zenon
  <1>8. ASSUME ~ v9' PROVE ~ v10' /\ \A d \in Conns : v3'[d] # Http!None => v4' = v3'[d]
    <2>1. /\ ~ v10 /\ \A d \in Conns : v3[d] # Http!None => v4 = v3[d]
          /\ \A d, e \in Conns : v3[d] # Http!None /\ v3[e] # Http!None => d = e
      BY <1>7, <1>8 DEF HttpLetters
    <2>2. CASE v1.ssl /\ c \notin Secure
      BY <1>1, <1>6, <2>1, <2>2
    <2>3. CASE ~ (v1.ssl /\ c \notin Secure)
      <3>1. Http!Method(c, m) = m
        BY <1>1, <1>7, <1>8, <2>1 DEF Http!Method
      <3>2. m # "UNKNOWN"
        BY DEF Http!Methods
      <3>3. ~ v10'
        BY <1>1, <2>1, <2>3, <3>1, <3>2, Zenon
      <3>4. \A d \in Conns : v3'[d] = Http!None
        BY <1>6, <1>7, <1>8, <2>1
      <3> QED BY <2>1, <3>3, <3>4
    <2> QED BY <2>2, <2>3
  <1>9. HttpLetters'
    BY <1>6, <1>7, <1>8 DEF HttpLetters
  <1> QED BY <1>3, <1>4, <1>5, <1>9


LEMMA HttpKeeps == ASSUME HttpInv, Http!Next \/ UNCHANGED Http!vars PROVE HttpInv'
  <1>0. HttpTyped /\ HttpPolls /\ HttpLetters
    BY DEF HttpInv
  <1>1. ASSUME NEW c \in Conns, Http!Connect(c) \/ Http!Break(c) PROVE HttpInv'
    <2>1. UNCHANGED <<v3, v4, v5, v6, v9, v10>>
      BY <1>1 DEF Http!Connect, Http!Break
    <2>2. v2' \in [Conns -> {"none", "open", "socket", "closed"}]
      BY <1>0, <1>1 DEF Http!Connect, Http!Break, HttpTyped
    <2>3. \A d \in Conns : \/ v2'[d] = v2[d]
                           \/ (v2'[d] = "closed" /\ v2[d] # "none")
                           \/ v2[d] \in {"none", "open"} /\ v2'[d] \in {"open", "socket"}
      BY <1>0, <1>1 DEF Http!Connect, Http!Break, HttpTyped
    <2>4. HttpPolls'
      BY <1>0, <2>1, <2>3, HttpSame
    <2>5. HttpTyped' /\ HttpLetters'
      BY <1>0, <2>1, <2>2 DEF HttpTyped, HttpLetters
    <2> QED BY <2>4, <2>5 DEF HttpInv
  <1>2. ASSUME NEW c \in Conns, Http!Discon(c) PROVE HttpInv'
    <2>1. /\ v5' = [v5 EXCEPT ![c] = [url \in Http!Waits |-> 0]]
          /\ v2' = [v2 EXCEPT ![c] = "none"]
          /\ v3' = [v3 EXCEPT ![c] = Http!None]
          /\ v6' = [v6 EXCEPT ![c] = 0]
          /\ UNCHANGED <<v4, v9, v10>>
      BY <1>2 DEF Http!Discon, Http!Clear
    <2>2. HttpTyped'
      BY <1>0, <2>1 DEF HttpTyped
    <2>3. HttpLetters'
      BY <1>0, <2>1 DEF HttpTyped, HttpLetters
    <2>4. \A d \in Conns \ {c} : v2'[d] = v2[d] /\ v6'[d] = v6[d] /\ Http!Count(d)' = Http!Count(d)
      BY <1>0, <2>1 DEF HttpTyped, Http!Count
    <2>5. v2'[c] = "none" /\ v6'[c] = 0 /\ Http!Count(c)' = 0
      BY <1>0, <2>1 DEF HttpTyped, Http!Count, Http!Waits
    <2>6. HttpPolls'
      BY <1>0, <2>4, <2>5 DEF HttpPolls, Http!OneAnswer, HttpGone
    <2> QED BY <2>2, <2>3, <2>6 DEF HttpInv
  <1>3. ASSUME NEW c \in Conns, Http!Letter(c) PROVE HttpInv'
    <2>1. UNCHANGED <<v2, v5, v6, v10>> /\ c \in Secure /\ v3[c] = Http!None
      BY <1>3 DEF Http!Letter
    <2>2. PICK m \in Http!Methods : v3' = [v3 EXCEPT ![c] = m] /\ v4' = m
      BY <1>3 DEF Http!Letter
    <2>3. v9' = (v9 \/ v4 # Http!None)
      BY <1>3 DEF Http!Letter
    <2>4. v9' \in BOOLEAN
      BY <2>3, Zenon
    <2>5. HttpTyped'
      BY <1>0, <2>1, <2>2, <2>4 DEF HttpTyped
    <2>6. v3'[c] = m /\ \A d \in Conns \ {c} : v3'[d] = v3[d]
      BY <1>0, <2>2 DEF HttpTyped
    <2>7. ASSUME ~ v9' PROVE ~ v9 /\ v4 = Http!None
      BY <2>3, <2>7, Zenon
    <2>8. HttpLetters'
      BY <1>0, <2>1, <2>2, <2>6, <2>7 DEF HttpLetters
    <2>9. HttpPolls'
      BY <1>0, <2>1, HttpSame
    <2> QED BY <2>5, <2>8, <2>9 DEF HttpInv
  <1>4. ASSUME NEW c \in Conns, Http!Request(c) PROVE HttpInv'
    <2>1. PICK m \in Http!Methods, url \in Http!Urls, creds \in BOOLEAN, content \in BOOLEAN,
               up \in BOOLEAN : Http!Dispatch(c, Http!Method(c, m), url, creds, content, up)
      BY <1>4 DEF Http!Request
    <2>2. v2[c] = "open"
      BY <1>4 DEF Http!Request
    <2>3. /\ v2' \in [Conns -> {"none", "open", "socket", "closed"}]
          /\ v5' \in [Conns -> [Http!Waits -> Nat]] /\ v6' \in [Conns -> Nat] /\ HttpPolls'
      BY <1>0, <2>1, <2>2, HttpDispatched
    <2>4. /\ HttpLetters' /\ v3' \in [Conns -> Http!Methods \cup {Http!None}]
          /\ v4' \in Http!Methods \cup {Http!None} /\ v9' \in BOOLEAN /\ v10' \in BOOLEAN
      BY <1>0, <1>4, HttpTaken
    <2> QED BY <2>3, <2>4 DEF HttpInv, HttpTyped
  <1>5. ASSUME Http!Event PROVE HttpInv'
    <2>1. PICK url \in {"plain", "later", Http!None} : Http!Raise(url)
      BY <1>5 DEF Http!Event
    <2>2. UNCHANGED <<v2, v3, v4, v9, v10>>
      BY <1>5 DEF Http!Event
    <2>3. v5' \in [Conns -> [Http!Waits -> Nat]] /\ v6' \in [Conns -> Nat] /\ HttpPolls'
      BY <1>0, <2>1, <2>2, HttpRaised
    <2>4. HttpTyped' /\ HttpLetters'
      BY <1>0, <2>2, <2>3 DEF HttpTyped, HttpLetters
    <2> QED BY <2>3, <2>4 DEF HttpInv
  <1>6. ASSUME Http!CloseAll PROVE HttpInv'
    <2>1. /\ v2' = [c \in Conns |-> IF Http!Count(c) > 0 THEN "closed" ELSE v2[c]]
          /\ UNCHANGED <<v3, v4, v5, v6, v9, v10>>
      BY <1>6 DEF Http!CloseAll
    <2>2. v2' \in [Conns -> {"none", "open", "socket", "closed"}]
      BY <1>0, <2>1 DEF HttpTyped
    <2>3. ASSUME NEW c \in Conns
          PROVE  v2'[c] = v2[c] \/ (v2'[c] = "closed" /\ v2[c] # "none")
      BY <1>0, <2>1 DEF HttpPolls, HttpGone
    <2>4. HttpPolls'
      BY <1>0, <2>1, <2>3, HttpSame
    <2>5. HttpTyped' /\ HttpLetters'
      BY <1>0, <2>1, <2>2 DEF HttpTyped, HttpLetters
    <2> QED BY <2>4, <2>5 DEF HttpInv
  <1>7. ASSUME UNCHANGED Http!vars PROVE HttpInv'
    <2>1. UNCHANGED <<v2, v3, v4, v5, v6, v9, v10>>
      BY <1>7 DEF Http!vars
    <2>2. HttpPolls'
      BY <1>0, <2>1, HttpSame
    <2>3. HttpTyped' /\ HttpLetters'
      BY <1>0, <2>1 DEF HttpTyped, HttpLetters
    <2> QED BY <2>2, <2>3 DEF HttpInv
  <1> QED BY <1>1, <1>2, <1>3, <1>4, <1>5, <1>6, <1>7 DEF Http!Next

\* Whoever waits is answered once, no poll is of a connection that is gone, and
\* what came letter by letter is understood.
LEMMA HttpTells ==
  ASSUME HttpInv PROVE Http!OneAnswer /\ Http!NoDeadPoll /\ Http!SplitUnderstood
  <1>1. HttpTyped /\ Http!OneAnswer /\ HttpGone /\ HttpLetters
    BY DEF HttpInv, HttpPolls
  <1>2. Http!NoDeadPoll
    BY <1>1 DEF HttpGone, Http!NoDeadPoll
  <1>3. Http!SplitUnderstood
    BY <1>1 DEF HttpLetters, Http!SplitUnderstood
  <1> QED BY <1>1, <1>2, <1>3
-----------------------------------------------------------------------------
(* Frames in packets: v1 are the sockets connected, v2 the frame each is   *)
(* sending; of the one being received v3 is what is missing, v4 counts its *)
(* packets, v5 is its socket, v6 its length, v7 what is unmasked, v8 what  *)
(* was handled; v9 tells that something else was, v10 that a packet was    *)
(* ignored or a socket went.                                               *)
FrameTyped ==
  /\ v2 \in [Sockets -> [len : Nat, at : Nat]]
  /\ v3 \in Nat /\ v6 \in Nat /\ v7 \in Nat /\ v8 \in [n : Nat, last : BOOLEAN]
  /\ v9 \in BOOLEAN /\ v10 \in BOOLEAN
  /\ \A s \in Sockets : v2[s].at \in 1..(1 + v2[s].len)

\* The frame being received is the one its socket sends, as far as it came.
FrameInStep ==
  /\ v3 # 0 => /\ v5 \in Sockets /\ v6 = v2[v5].len /\ v7 + 1 = v2[v5].at
               /\ v3 = 1 + v6 - v2[v5].at
  /\ v8.n + v3 = v6 /\ (v8.last <=> v3 = 0)

\* Unless something was lost, no other socket is in the middle of a frame.
FrameOne ==
  ~ v10 => /\ ~ v9 /\ FrameInStep
           /\ \A s \in Sockets : v2[s].at # 1 + v2[s].len => v3 # 0 /\ v5 = s

WsInv == FrameTyped /\ FrameOne

LEMMA WsStarts == ASSUME Ws!Init PROVE WsInv
  <1>1. /\ v2 = [s \in Sockets |-> [len |-> 0, at |-> 1]] /\ v3 = 0 /\ v6 = 0 /\ v7 = 0
        /\ v8 = [n |-> 0, last |-> TRUE] /\ v9 = FALSE /\ v10 = FALSE
    BY DEF Ws!Init
  <1>2. \A s \in Sockets : v2[s] = [len |-> 0, at |-> 1]
    BY <1>1
  <1>3. \A s \in Sockets : v2[s].at \in 1..(1 + v2[s].len) /\ v2[s].at = 1 + v2[s].len
    BY <1>2
  <1>4. v2 \in [Sockets -> [len : Nat, at : Nat]]
    BY <1>1
  <1>5. FrameTyped
    BY <1>1, <1>3, <1>4 DEF FrameTyped
  <1>6. FrameOne
    BY <1>1, <1>3 DEF FrameOne, FrameInStep
  <1> QED BY <1>5, <1>6 DEF WsInv

\* One part of a frame: it is the header's or the next of the frame that is being
\* received, or something is lost.
LEMMA FramePart ==
  ASSUME WsInv, NEW s \in Sockets, ~ v9, NEW len \in Nat, NEW at \in Nat, NEW n \in Nat \ {0},
         at + n <= 1 + len, v2' = [v2 EXCEPT ![s] = [len |-> len, at |-> at + n]],
         \/ at # 0 /\ len = v2[s].len /\ at = v2[s].at
         \/ at = 0 /\ v2[s].at = 1 + v2[s].len,
         Ws!Take(s, Ws!Part(len, at, n))
  PROVE  WsInv'
  <1> DEFINE p == Ws!Part(len, at, n)
  <1>0. FrameTyped /\ FrameOne
    BY DEF WsInv
  <1>1. p.len = len /\ p.at = at /\ p.n = n
    BY DEF Ws!Part
  <1>2. /\ v2'[s].len = len /\ v2'[s].at = at + n
        /\ \A t \in Sockets \ {s} : v2'[t] = v2[t]
        /\ v2' \in [Sockets -> [len : Nat, at : Nat]]
        /\ \A t \in Sockets : v2'[t].at <= 1 + v2'[t].len
    <2>1. v2 \in [Sockets -> [len : Nat, at : Nat]] /\ at + n \in Nat
      BY <1>0 DEF FrameTyped
    <2>2. v2'[s] = [len |-> len, at |-> at + n] /\ \A t \in Sockets \ {s} : v2'[t] = v2[t]
      BY <2>1
    <2>3. v2' \in [Sockets -> [len : Nat, at : Nat]]
      BY <2>1
    <2> QED BY <1>0, <2>2, <2>3 DEF FrameTyped
  <1> HIDE DEF p
  <1>3. CASE v3 = 0
    <2>1. CASE at # 0
      <3>1. v9' = TRUE /\ UNCHANGED <<v3, v5, v6, v7, v8, v10>>
        BY <1>1, <1>3, <2>1 DEF Ws!Take, p
      <3>2. v10
        BY <1>0, <1>3, <2>1 DEF FrameOne
      <3> QED BY <1>0, <1>2, <3>1, <3>2 DEF WsInv, FrameTyped, FrameOne
    <2>2. CASE at = 0
      <3>1. /\ v6' = len /\ v3' = Ws!Rest(p, Ws!Whole(len)) /\ v5' = s /\ v7' = n - 1
            /\ v8' = [n |-> n - 1, last |-> v3' = 0] /\ UNCHANGED <<v9, v10>>
        BY <1>1, <1>3, <2>2 DEF Ws!Take, p
      <3>2. v3' = 1 + len - n /\ v3' \in Nat /\ n - 1 \in Nat
        BY <1>1, <2>2, <3>1 DEF Ws!Rest, Ws!Whole
      <3>3. v8'.n = n - 1 /\ v8' \in [n : Nat, last : BOOLEAN] /\ (v8'.last <=> v3' = 0)
        <4>1. PICK b \in BOOLEAN : b = (v3' = 0)
          BY Zenon
        <4>2. v8' = [n |-> n - 1, last |-> b]
          BY <3>1, <4>1
        <4> QED BY <3>2, <4>1, <4>2
      <3>4. FrameTyped'
        BY <1>0, <1>2, <3>1, <3>2, <3>3 DEF FrameTyped
      <3>5. FrameInStep'
        BY <1>2, <2>2, <3>1, <3>2, <3>3 DEF FrameInStep
      <3>6. FrameOne'
        <4>1. ASSUME ~ v10', NEW t \in Sockets, v2'[t].at # 1 + v2'[t].len
              PROVE  v3' # 0 /\ v5' = t
          <5>1. t = s
            BY <1>0, <1>2, <1>3, <3>1, <4>1 DEF FrameOne
          <5> QED BY <1>2, <2>2, <3>1, <3>2, <4>1, <5>1
        <4> QED BY <1>0, <3>1, <3>5, <4>1 DEF FrameOne
      <3> QED BY <3>4, <3>6 DEF WsInv
    <2> QED BY <2>1, <2>2
  <1>4. CASE v3 # 0 /\ v5 # s
    <2>1. v10' = TRUE /\ UNCHANGED <<v3, v5, v6, v7, v8, v9>>
      BY <1>1, <1>4 DEF Ws!Take, p
    <2> QED BY <1>0, <1>2, <2>1 DEF WsInv, FrameTyped, FrameOne
  <1>5. CASE v3 # 0 /\ v5 = s
    <2>1. /\ v3' = Ws!Rest(p, v3) /\ v7' = v7 + n
          /\ v9' = (v9 \/ len # v6 \/ at # v7 + 1)
          /\ v8' = [n |-> v8.n + n, last |-> v3' = 0] /\ UNCHANGED <<v5, v6, v10>>
      BY <1>1, <1>5 DEF Ws!Take, p
    <2>2. v9' \in BOOLEAN
      BY <2>1, Zenon
    <2>3. /\ v3 \in Nat /\ v7 \in Nat /\ v6 \in Nat /\ v8.n \in Nat
          /\ v2[s].at \in Nat /\ v2[s].len \in Nat
      BY <1>0 DEF FrameTyped
    <2>4. v3' = (IF n > v3 THEN 0 ELSE v3 - n) /\ v3' \in Nat
      BY <1>1, <2>1, <2>3 DEF Ws!Rest
    <2>5. /\ v8' \in [n : Nat, last : BOOLEAN] /\ v8'.n = v8.n + n
          /\ (v8'.last <=> v3' = 0)
      <3>1. PICK b \in BOOLEAN : b = (v3' = 0)
        BY Zenon
      <3>2. PICK m \in Nat : m = v8.n + n
        BY <2>3
      <3>3. v8' = [n |-> m, last |-> b]
        BY <2>1, <3>1, <3>2
      <3>4. v8' \in [n : Nat, last : BOOLEAN] /\ v8'.n = m /\ v8'.last = b
        BY ONLY <3>3, m \in Nat, b \in BOOLEAN
      <3> QED BY <3>1, <3>2, <3>4
    <2>6. FrameTyped'
      BY <1>0, <1>2, <2>1, <2>2, <2>3, <2>4, <2>5 DEF FrameTyped
    <2>7. ASSUME ~ v10' PROVE ~ v9' /\ FrameInStep'
      <3>1. /\ ~ v9 /\ v6 = v2[s].len /\ v7 + 1 = v2[s].at /\ v3 = 1 + v6 - v2[s].at
            /\ v8.n + v3 = v6
        BY <1>0, <1>5, <2>1, <2>7 DEF FrameOne, FrameInStep
      <3>2. at = v2[s].at /\ len = v2[s].len
        BY <1>5, <2>3, <3>1
      <3>3. ~ v9'
        BY <2>1, <3>1, <3>2, Zenon
      <3>4. v3' = v3 - n
        BY <2>3, <2>4, <3>1, <3>2
      <3>5. FrameInStep'
        BY <1>2, <1>5, <2>1, <2>3, <2>5, <3>1, <3>2, <3>4 DEF FrameInStep
      <3> QED BY <3>3, <3>5
    <2>8. ASSUME ~ v10', NEW t \in Sockets, v2'[t].at # 1 + v2'[t].len
          PROVE  v3' # 0 /\ v5' = t
      <3>1. t = s
        BY <1>0, <1>2, <1>5, <2>1, <2>8 DEF FrameOne
      <3>2. v3' # 0 => v5' = s
        BY <1>5, <2>1
      <3>3. v3' # 0
        <4>1. /\ v6 = v2[s].len /\ v7 + 1 = v2[s].at /\ v3 = 1 + v6 - v2[s].at
          BY <1>0, <1>5, <2>1, <2>8 DEF FrameOne, FrameInStep
        <4>2. at = v2[s].at /\ len = v2[s].len
          BY <1>5, <2>3, <4>1
        <4>3. v3' = v3 - n
          BY <2>3, <2>4, <4>1, <4>2
        <4>4. at + n # 1 + len
          BY <1>2, <2>8, <3>1
        <4> QED BY <2>3, <4>1, <4>2, <4>3, <4>4
      <3> QED BY <3>1, <3>2, <3>3
    <2> QED BY <2>6, <2>7, <2>8 DEF WsInv, FrameOne
  <1> QED BY <1>3, <1>4, <1>5

LEMMA WsKeeps == ASSUME WsInv, Ws!Next \/ UNCHANGED Ws!vars PROVE WsInv'
  <1>0. FrameTyped /\ FrameOne
    BY DEF WsInv
  <1>1. ASSUME NEW s \in Sockets, Ws!Receive(s) PROVE WsInv'
    <2> DEFINE f == v2[s]
               left == Ws!Whole(f.len) - f.at
    <2>1. f \in [len : Nat, at : Nat] /\ f.at <= 1 + f.len /\ ~ v9
      BY <1>0, <1>1 DEF FrameTyped, Ws!Receive
    <2>2. CASE /\ left > 0
               /\ \E n \in 1..(IF left < MaxPart THEN left ELSE MaxPart) :
                    /\ v2' = [v2 EXCEPT ![s].at = @ + n]
                    /\ Ws!Take(s, Ws!Part(f.len, f.at, n))
      <3>1. PICK n \in 1..(IF left < MaxPart THEN left ELSE MaxPart) :
                    /\ v2' = [v2 EXCEPT ![s].at = @ + n]
                    /\ Ws!Take(s, Ws!Part(f.len, f.at, n))
        BY <2>2
      <3>2. n \in Nat \ {0} /\ f.at + n <= 1 + f.len
        BY <2>1, <2>2, FramesAssumption DEF Ws!Whole
      <3>3. v2' = [v2 EXCEPT ![s] = [len |-> f.len, at |-> f.at + n]]
        <4>1. v2 \in [Sockets -> [len : Nat, at : Nat]]
          BY <1>0 DEF FrameTyped
        <4>2. [v2[s] EXCEPT !.at = @ + n] = [len |-> f.len, at |-> f.at + n]
          BY <4>1
        <4>3. v2' = [v2 EXCEPT ![s] = [v2[s] EXCEPT !.at = @ + n]]
          BY <3>1
        <4> QED BY <4>2, <4>3
      <3>4. CASE f.at # 0
        BY <2>1, <3>1, <3>2, <3>3, <3>4, FramePart
      <3>5. f.at # 0
        BY <1>0 DEF FrameTyped
      <3> QED BY <3>4, <3>5
    <2>3. CASE /\ left = 0
               /\ \E len \in 0..MaxFrame, n \in 1..MaxPart :
                    /\ n <= Ws!Whole(len)
                    /\ v2' = [v2 EXCEPT ![s] = [len |-> len, at |-> n]]
                    /\ Ws!Take(s, Ws!Part(len, 0, n))
      <3>1. PICK len \in 0..MaxFrame, n \in 1..MaxPart :
                    /\ n <= Ws!Whole(len)
                    /\ v2' = [v2 EXCEPT ![s] = [len |-> len, at |-> n]]
                    /\ Ws!Take(s, Ws!Part(len, 0, n))
        BY <2>3
      <3>2. n \in Nat \ {0} /\ len \in Nat /\ 0 + n <= 1 + len /\ 0 + n = n
        BY <3>1, FramesAssumption DEF Ws!Whole
      <3>3. f.at = 1 + f.len
        BY <2>1, <2>3 DEF Ws!Whole
      <3> QED BY <2>1, <3>1, <3>2, <3>3, FramePart
    <2> QED BY <1>1, <2>2, <2>3 DEF Ws!Receive
  <1>2. ASSUME NEW s \in Sockets, Ws!Disconnect(s) PROVE WsInv'
    <2>1. /\ v2' = [v2 EXCEPT ![s] = [len |-> 0, at |-> 1]]
          /\ v10' = (v10 \/ (v3 # 0 /\ v5 = s)) /\ UNCHANGED <<v3, v5, v6, v7, v8, v9>>
      BY <1>2 DEF Ws!Disconnect
    <2>2. v10' \in BOOLEAN /\ (~ v10' => ~ v10 /\ ~ (v3 # 0 /\ v5 = s))
      BY <2>1, Zenon
    <2>3. /\ v2'[s].len = 0 /\ v2'[s].at = 1 /\ \A t \in Sockets \ {s} : v2'[t] = v2[t]
          /\ v2' \in [Sockets -> [len : Nat, at : Nat]]
      BY <1>0, <2>1 DEF FrameTyped
    <2>4. FrameTyped'
      BY <1>0, <2>1, <2>2, <2>3 DEF FrameTyped
    <2>5. FrameOne'
      BY <1>0, <2>1, <2>2, <2>3 DEF FrameOne, FrameInStep
    <2> QED BY <2>4, <2>5 DEF WsInv
  <1>3. ASSUME NEW s \in Sockets, Ws!NoData(s) PROVE WsInv'
    <2>1. /\ v3' = 0 /\ v10' = (v10 \/ v3 # 0) /\ UNCHANGED <<v2, v5, v6, v7, v8, v9>>
      BY <1>3 DEF Ws!NoData
    <2>2. v10' \in BOOLEAN /\ (~ v10' => ~ v10 /\ v3 = 0)
      BY <2>1, Zenon
    <2>3. FrameTyped'
      BY <1>0, <2>1, <2>2 DEF FrameTyped
    <2>4. FrameOne'
      BY <1>0, <2>1, <2>2 DEF FrameOne, FrameInStep
    <2> QED BY <2>3, <2>4 DEF WsInv
  <1>4. ASSUME (\E s \in Sockets : Ws!Connect(s)) \/ UNCHANGED Ws!vars PROVE WsInv'
    <2>1. UNCHANGED <<v2, v3, v5, v6, v7, v8, v9, v10>>
      BY <1>4 DEF Ws!Connect, Ws!vars
    <2> QED BY <1>0, <2>1 DEF WsInv, FrameTyped, FrameOne, FrameInStep
  <1> QED BY <1>1, <1>2, <1>3, <1>4 DEF Ws!Next

\* Unless something was lost, the parts of a frame are handled in order.
LEMMA WsTells == ASSUME WsInv PROVE Ws!FrameWhole /\ Ws!LastIsLast
  <1>1. FrameTyped /\ FrameOne
    BY DEF WsInv
  <1>2. Ws!FrameWhole
    BY <1>1 DEF FrameTyped, FrameOne, Ws!FrameWhole
  <1>3. Ws!LastIsLast
    <2>1. ASSUME ~ v10 PROVE v8.n + v3 = v6 /\ (v8.last <=> v3 = 0)
      BY <1>1, <2>1 DEF FrameOne, FrameInStep
    <2>2. v8.n \in Nat /\ v3 \in Nat /\ v6 \in Nat
      BY <1>1 DEF FrameTyped
    <2>3. ~ v10 => (v8.n = v6 <=> v3 = 0)
      BY <2>1, <2>2
    <2> QED BY <2>1, <2>3 DEF Ws!LastIsLast
  <1> QED BY <1>2, <1>3
-----------------------------------------------------------------------------
(* The serial ports: v1 is the part a behaviour follows; of the debug output *)
(* v2[0] is what was written, v3[0] what was sent, v6 the buffer, v7 tells   *)
(* that its timer is pending and v8 that it was just cut; of the receiver v9 *)
(* counts the bytes in the FIFO, v10 those that came, v11 those taken, v12   *)
(* those lost, v13 tells that it may interrupt, v14 counts the events.       *)
DebugInv ==
  /\ v2 \in [Serial!Ports -> Seq(Serial!Chars)] /\ v3 \in [Serial!Ports -> Seq(Serial!Chars)]
  /\ v6 \in Seq(Serial!Chars)
  /\ v2[0] = v3[0] \o v6
  /\ v6 # <<>> => v7 \/ v8

ReceiverInv ==
  /\ v9 \in Nat /\ v10 \in Nat /\ v11 \in Nat /\ v12 \in Nat /\ v14 \in Nat
  /\ v10 = v11 + v9 + v12
  /\ v13 \/ v14 > 0

SerialInv ==
  /\ v1 \in {"out", "debug", "in"}
  /\ v1 = "debug" => DebugInv
  /\ v1 # "debug" => ~ v7
  /\ v1 = "in" => ReceiverInv
  /\ v1 # "in" => v14 = 0

LEMMA SerialStarts == ASSUME Serial!Init PROVE SerialInv
  <1> DEFINE C == Serial!Chars
  <1>1. /\ v1 \in {"out", "debug", "in"}
        /\ v2 = [p \in Serial!Ports |-> <<>>] /\ v3 = [p \in Serial!Ports |-> <<>>]
        /\ v6 = <<>> /\ v7 = FALSE /\ v8 = FALSE
        /\ v9 = 0 /\ v10 = 0 /\ v11 = 0 /\ v12 = 0 /\ v13 = TRUE /\ v14 = 0
    BY DEF Serial!Init
  <1>2. <<>> \in Seq(C) /\ <<>> \o <<>> = <<>>
    BY EmptySeq, ConcatEmptySeq
  <1> HIDE DEF C
  <1>3. 0 \in Serial!Ports
    BY DEF Serial!Ports
  <1>4. /\ v2 \in [Serial!Ports -> Seq(C)] /\ v3 \in [Serial!Ports -> Seq(C)]
        /\ v2[0] = <<>> /\ v3[0] = <<>>
    BY <1>1, <1>2, <1>3
  <1>5. DebugInv
    BY <1>1, <1>2, <1>4 DEF DebugInv, C
  <1>6. ReceiverInv
    BY <1>1 DEF ReceiverInv
  <1> QED BY <1>1, <1>5, <1>6 DEF SerialInv

\* A set of naturals with a bound has a greatest member.
LEMMA NatMax ==
  ASSUME NEW T, NEW n \in Nat, T \subseteq 0..n, T # {}
  PROVE  \E x \in T : \A y \in T : y <= x
  <1> DEFINE R == {p \in Nat \X Nat : p[1] < p[2]}
             U == {u \in Nat : \E y \in T : u = n - y}
  <1>1. IsWellFoundedOn(R, Nat)
    BY NatLessThanWellFounded DEF OpToRel
  <1>2. \A x, y \in Nat : y < x => <<y, x>> \in R
    OBVIOUS
  <1>3. U \subseteq Nat /\ U # {}
    <2>1. PICK y \in T : TRUE
      OBVIOUS
    <2>2. n - y \in Nat
      OBVIOUS
    <2>3. n - y \in U
      BY <2>2
    <2> QED BY <2>3
  <1> HIDE DEF R
  <1>4. PICK u \in U : \A y \in U : ~ (<<y, u>> \in R)
    BY <1>1, <1>3, WFMin
  <1>5. PICK x \in T : u = n - x
    BY <1>4
  <1>6. ASSUME NEW y \in T PROVE y <= x
    <2>1. n - y \in U /\ n - y \in Nat /\ u \in Nat /\ x \in Nat /\ y \in Nat
      BY <1>3, <1>4
    <2>2. ~ (n - y < u)
      BY <1>2, <1>4, <2>1
    <2> QED BY <1>5, <2>1, <2>2
  <1> QED BY <1>6

\* The cut is at a place in the buffer.
LEMMA LastLineIn ==
  ASSUME NEW b, Len(b) \in Nat PROVE Serial!LastLine(b) \in 0..Len(b)
  <1> DEFINE at == {j \in 2..Len(b) : b[j] = "lf"}
             m == CHOOSE j \in at : \A k \in at : k <= j
  <1>1. Serial!LastLine(b) = IF at = {} THEN 0 ELSE m
    BY DEF Serial!LastLine
  <1>2. CASE at = {}
    BY <1>1, <1>2
  <1>3. CASE at # {}
    <2>1. at \subseteq 0..Len(b)
      OBVIOUS
    <2> HIDE DEF at
    <2>2. \E x \in at : \A y \in at : y <= x
      BY <1>3, <2>1, NatMax
    <2>3. m \in at
      BY <2>2
    <2> QED BY <1>1, <1>3, <2>1, <2>3
  <1> QED BY <1>2, <1>3

LEMMA Associates ==
  \A f, g, h \in Seq(Serial!Chars) : (f \o g) \o h = f \o (g \o h)
  <1> DEFINE C == Serial!Chars
  <1> HIDE DEF C
  <1>1. \A f, g, h \in Seq(C) : (f \o g) \o h = f \o (g \o h)
    <2> TAKE f, g, h \in Seq(C)
    <2> QED BY ONLY f \in Seq(C), g \in Seq(C), h \in Seq(C), ConcatAssociative
  <1> QED BY <1>1 DEF C

\* A full buffer loses nothing: what is sent of it and what is kept are all of it.
LEMMA CutKeeps ==
  ASSUME DebugInv, NEW b \in Seq(Serial!Chars), Serial!Cut(b)
  PROVE  /\ v3' \in [Serial!Ports -> Seq(Serial!Chars)] /\ v6' \in Seq(Serial!Chars)
         /\ v3'[0] \o v6' = v3[0] \o b
  <1> DEFINE C == Serial!Chars
             s == v3[0]
             k == Serial!LastLine(b)
  <1>1. 0 \in Serial!Ports /\ v3 \in [Serial!Ports -> Seq(C)] /\ s \in Seq(C) /\ b \in Seq(C)
    BY DEF DebugInv, Serial!Ports
  <1>2. Len(b) \in Nat /\ k \in 0..Len(b) /\ \A i \in 1..Len(b) : b[i] \in C
    BY <1>1, LastLineIn, LenProperties, ElementOfSeq
  <1> DEFINE keeps(x, y) ==
        /\ v3' \in [Serial!Ports -> Seq(C)] /\ v6' \in Seq(C) /\ v3'[0] = s \o x /\ v6' = y
  <1>3. CASE k = 0
    <2>1. v3' = [v3 EXCEPT ![0] = @ \o b] /\ v6' = <<>>
      BY <1>3 DEF Serial!Cut
    <2> HIDE DEF C
    <2>2. s \o b \in Seq(C) /\ <<>> \in Seq(C) /\ (s \o b) \o <<>> = s \o b
      <3>1. s \o b \in Seq(C)
        BY <1>1, ConcatProperties
      <3> QED BY <3>1, EmptySeq, ConcatEmptySeq
    <2>3. v3'[0] = s \o b /\ v3' \in [Serial!Ports -> Seq(C)]
      BY <1>1, <2>1, <2>2
    <2> QED BY <2>1, <2>2, <2>3 DEF C
  <1>4. CASE k # 0
    <2> DEFINE x == SubSeq(b, 1, k)
               y == SubSeq(b, k + 1, Len(b))
    <2>1. v3' = [v3 EXCEPT ![0] = @ \o x] /\ v6' = y
      BY <1>4 DEF Serial!Cut
    <2> HIDE DEF C
    <2>2. x \in Seq(C)
      <3>1. \A i \in 1..k : b[i] \in C
        BY <1>2
      <3> QED BY <1>2, <3>1, SubSeqProperties
    <2>3. y \in Seq(C)
      <3>1. k + 1 \in Int /\ Len(b) \in Int /\ \A i \in (k + 1)..Len(b) : b[i] \in C
        BY <1>2
      <3> QED BY <3>1, SubSeqProperties
    <2>4. x \o y = b
      <3>1. 1 \in 1..(Len(b) + 1) /\ k \in (1 - 1)..Len(b) /\ Len(b) \in k..Len(b)
        BY <1>2
      <3>2. x \o y = SubSeq(b, 1, Len(b))
        BY <1>1, <3>1, ConcatAdjacentSubSeq
      <3> QED BY <1>1, <3>2, SubSeqFull
    <2> HIDE DEF x, y, k
    <2>5. s \o x \in Seq(C) /\ (s \o x) \o y = s \o b
      <3>1. (s \o x) \o y = s \o (x \o y)
        <4> DEFINE cat(f, g) == f \o g
                   T == Seq(C)
        <4>1. \A f, g, h \in T : cat(cat(f, g), h) = cat(f, cat(g, h))
          BY ONLY Associates DEF C
        <4>2. s \in T /\ x \in T /\ y \in T
          BY <1>1, <2>2, <2>3
        <4>3. cat(cat(s, x), y) = cat(s, cat(x, y))
          <5> HIDE DEF cat, T
          <5> QED BY ONLY <4>1, <4>2
        <4> QED BY <4>3
      <3>2. s \o x \in Seq(C)
        BY <1>1, <2>2, ConcatProperties
      <3> QED BY <2>4, <3>1, <3>2
    <2>6. v3'[0] = s \o x /\ v3' \in [Serial!Ports -> Seq(C)]
      BY <1>1, <2>1, <2>5
    <2> QED BY <2>1, <2>3, <2>5, <2>6 DEF C
  <1> QED BY <1>3, <1>4

LEMMA SerialKeeps ==
  ASSUME SerialInv, Serial!Next \/ UNCHANGED Serial!vars PROVE SerialInv'
  <1>1. ASSUME NEW p \in Serial!Ports, NEW c \in Serial!Chars, Serial!uart_write_char(p, c)
        PROVE  SerialInv'
    <2>1. v1 = "out" /\ UNCHANGED <<v1, v7, v14>>
      BY <1>1 DEF Serial!uart_write_char, Serial!debugVars, Serial!inVars
    <2> QED BY <2>1 DEF SerialInv
  <1>2. ASSUME NEW c \in {"a", "lf"}, Serial!wifi_write_char(c) PROVE SerialInv'
    <2> DEFINE C == Serial!Chars
               b == Append(v6, c)
    <2>1. /\ v1 = "debug" /\ v2' = [v2 EXCEPT ![0] = Append(@, c)] /\ UNCHANGED <<v1, v14>>
          /\ \/ Serial!Cut(b) /\ v8' = TRUE
             \/ v6' = b /\ v7' = TRUE /\ UNCHANGED v3
      BY <1>2 DEF Serial!wifi_write_char, Serial!inVars
    <2>2. /\ DebugInv /\ 0 \in Serial!Ports /\ v2 \in [Serial!Ports -> Seq(C)]
          /\ v3 \in [Serial!Ports -> Seq(C)] /\ v6 \in Seq(C) /\ v2[0] = v3[0] \o v6
          /\ c \in C
      BY <1>2, <2>1 DEF SerialInv, DebugInv, Serial!Ports, Serial!Chars
    <2> HIDE DEF C
    <2>3. b \in Seq(C) /\ v2[0] \in Seq(C) /\ v3[0] \in Seq(C)
      BY <2>2, AppendProperties
    <2>4. Append(v2[0], c) = v3[0] \o b /\ Append(v2[0], c) \in Seq(C)
      <3>1. <<c>> \in Seq(C)
        BY <2>2
      <3>2. Append(v2[0], c) = v2[0] \o <<c>> /\ b = v6 \o <<c>>
        BY <2>2, <2>3, AppendIsConcat
      <3>3. (v3[0] \o v6) \o <<c>> = v3[0] \o (v6 \o <<c>>)
        <4> DEFINE cat(f, g) == f \o g
                   T == Seq(C)
        <4>1. \A f, g, h \in T : cat(cat(f, g), h) = cat(f, cat(g, h))
          BY ONLY Associates DEF C
        <4>2. v3[0] \in T /\ v6 \in T /\ <<c>> \in T
          BY <2>2, <2>3, <3>1
        <4>3. cat(cat(v3[0], v6), <<c>>) = cat(v3[0], cat(v6, <<c>>))
          <5> HIDE DEF cat, T
          <5> QED BY ONLY <4>1, <4>2
        <4> QED BY <4>3
      <3> QED BY <2>2, <2>3, <3>2, <3>3, AppendProperties
    <2> HIDE DEF b
    <2>5. v2' \in [Serial!Ports -> Seq(C)] /\ v2'[0] = v3[0] \o b
      BY <2>1, <2>2, <2>4
    <2>6. CASE Serial!Cut(b) /\ v8' = TRUE
      <3>1. /\ v3' \in [Serial!Ports -> Seq(C)] /\ v6' \in Seq(C)
            /\ v3'[0] \o v6' = v3[0] \o b
        BY <2>2, <2>3, <2>6, CutKeeps DEF C
      <3>2. DebugInv'
        BY <2>5, <2>6, <3>1 DEF DebugInv, C
      <3> QED BY <2>1, <3>2 DEF SerialInv
    <2>7. CASE v6' = b /\ v7' = TRUE /\ UNCHANGED v3
      <3>1. DebugInv'
        BY <2>2, <2>3, <2>5, <2>7 DEF DebugInv, C
      <3> QED BY <2>1, <3>1 DEF SerialInv
    <2> QED BY <2>1, <2>6, <2>7
  <1>3. ASSUME Serial!wifi_debug_flush PROVE SerialInv'
    <2> DEFINE C == Serial!Chars
    <2>1. /\ v1 = "debug" /\ v3' = [v3 EXCEPT ![0] = @ \o v6] /\ v6' = <<>>
          /\ UNCHANGED <<v1, v2, v14>>
      BY <1>3 DEF SerialInv, Serial!wifi_debug_flush, Serial!inVars
    <2>2. /\ 0 \in Serial!Ports /\ v2 \in [Serial!Ports -> Seq(C)]
          /\ v3 \in [Serial!Ports -> Seq(C)] /\ v6 \in Seq(C) /\ v2[0] = v3[0] \o v6
      BY <2>1 DEF SerialInv, DebugInv, Serial!Ports
    <2> HIDE DEF C
    <2>3. /\ v3[0] \o v6 \in Seq(C) /\ <<>> \in Seq(C)
          /\ (v3[0] \o v6) \o <<>> = v3[0] \o v6
      <3>1. v3[0] \o v6 \in Seq(C)
        BY <2>2, ConcatProperties
      <3> QED BY <3>1, EmptySeq, ConcatEmptySeq
    <2>4. v3' \in [Serial!Ports -> Seq(C)] /\ v3'[0] = v3[0] \o v6
      BY <2>1, <2>2, <2>3
    <2>5. DebugInv'
      BY <2>1, <2>2, <2>3, <2>4 DEF DebugInv, C
    <2> QED BY <2>1, <2>5 DEF SerialInv
  <1>4. ASSUME Serial!Receive PROVE SerialInv'
    <2>1. /\ v1 = "in" /\ v10' = v10 + 1 /\ UNCHANGED <<v1, v7, v11, v13, v14>>
          /\ \/ v9' = v9 + 1 /\ v9 \in Nat /\ UNCHANGED v12
             \/ v12' = v12 + 1 /\ UNCHANGED v9
      BY <1>4 DEF SerialInv, ReceiverInv, Serial!Receive, Serial!debugVars
    <2>2. ReceiverInv
      BY <2>1 DEF SerialInv
    <2>3. ReceiverInv'
      BY <2>1, <2>2 DEF ReceiverInv
    <2> QED BY <2>1, <2>3 DEF SerialInv
  <1>5. ASSUME Serial!uart_rx_intr_handler PROVE SerialInv'
    <2>1. /\ v1 = "in" /\ v14' = v14 + 1 /\ UNCHANGED <<v1, v7, v9, v10, v11, v12>>
      BY <1>5 DEF Serial!uart_rx_intr_handler, Serial!debugVars
    <2>2. ReceiverInv'
      BY <2>1 DEF SerialInv, ReceiverInv
    <2> QED BY <2>1, <2>2 DEF SerialInv
  <1>6. ASSUME Serial!uart_recv PROVE SerialInv'
    <2>1. v1 = "in" /\ v14 > 0 /\ ReceiverInv
      BY <1>6 DEF SerialInv, Serial!uart_recv
    <2>2. PICK new \in 0..(IF v15 THEN SerialFifo - v9 ELSE 0) :
            /\ v10' = v10 + new
            /\ v9' = (IF v15 THEN new ELSE v9)
            /\ v11' = (IF v15 THEN v11 + v9 ELSE v11)
      BY <1>6 DEF Serial!uart_recv
    <2>3. v14' = v14 - 1 /\ v13' = TRUE /\ UNCHANGED <<v1, v7, v12>>
      BY <1>6 DEF Serial!uart_recv, Serial!debugVars
    <2>4. new \in Nat /\ (~ v15 => new = 0)
      BY <2>2
    <2>5. ReceiverInv'
      BY <2>1, <2>2, <2>3, <2>4 DEF ReceiverInv
    <2> QED BY <2>1, <2>3, <2>5 DEF SerialInv
  <1>7. ASSUME Serial!uart_char_in_set \/ UNCHANGED Serial!vars PROVE SerialInv'
    <2>1. UNCHANGED <<v1, v2, v3, v6, v7, v8, v9, v10, v11, v12, v13, v14>>
      BY <1>7 DEF Serial!uart_char_in_set, Serial!debugVars, Serial!vars
    <2> QED BY <2>1 DEF SerialInv, DebugInv, ReceiverInv
  <1> QED BY <1>1, <1>2, <1>3, <1>4, <1>5, <1>6, <1>7 DEF Serial!Next

\* The debug output is kept, and every byte that comes in is taken.
LEMMA SerialTells == ASSUME SerialInv PROVE Serial!DebugKept /\ Serial!BytesTaken
  <1>1. Serial!DebugKept
    BY DEF SerialInv, DebugInv, Serial!DebugKept
  <1>2. Serial!BytesTaken
    BY DEF SerialInv, ReceiverInv, Serial!BytesTaken
  <1> QED BY <1>1, <1>2

-----------------------------------------------------------------------------
(* The stored settings.  v1 and v2 are those in use and their sector, v3 .. *)
(* v6 the measurements' settings, v7 the flash operations that are left, v8 *)
(* what was asked for, v9, v10 and v11 the error, what went untold, and the *)
(* answer.                                                                  *)

\* What the next start will use is in use, or a failure went untold.
StoreSame == v10 \/ v1 = (IF Store!Loads THEN v2 ELSE "defaults")

\* A request is under way for settings x, and has not failed so far unless it was told.
StoreAsks(x) == v11 = "none" /\ v8 \in Store!Settings /\ (v9 \/ v10 \/ x = v8)

\* The defaults are in use, for they are about to be stored.
StoreDefaults == v1 = "defaults" /\ StoreSame

StoreBoots == v11 = "none" /\ v8 = "nothing"

\* The measurements' settings v3 are on their way.
StoreApp == v11 = "none" /\ v8 = v3 /\ v3 \in StoredValues /\ StoreSame

\* Nothing is to be done, and what was answered with OK is stored.
StoreIdle == v7 = <<>> /\ StoreSame /\ Store!OkIsStored

\* A configuration request, by what it still has to do; the last load makes what is in
\* use what the next start will use.
StoreRequest ==
  \/ v7 = <<"erase", "write", "load">> /\ StoreAsks(v1) /\ v1 \in Store!Settings
  \/ v7 = <<"write", "load">> /\ StoreAsks(v1) /\ v1 \in Store!Settings
  \/ v7 = <<"load">> /\ StoreAsks(v2)
  \/ v7 = <<"erase0", "write0">> /\ StoreDefaults /\ StoreAsks("none")
  \/ v7 = <<"write0">> /\ StoreDefaults /\ StoreAsks("none")

\* One that loads, or restores the defaults, before it stores.
StoreReload ==
  \/ v7 = <<"load", "erase", "write", "load">>
     /\ StoreAsks(IF Store!Loads THEN v2 ELSE "defaults")
  \/ v7 = <<"erase0", "write0", "load", "erase", "write", "load">>
     /\ v1 = "defaults" /\ StoreAsks("defaults")
  \/ v7 = <<"write0", "load", "erase", "write", "load">> /\ v1 = "defaults" /\ StoreAsks("defaults")
  \/ v7 = <<"erase0", "write0", "erase", "write", "load">>
     /\ v1 = "defaults" /\ StoreAsks("defaults")
  \/ v7 = <<"write0", "erase", "write", "load">> /\ v1 = "defaults" /\ StoreAsks("defaults")

StoreStart ==
  \/ v7 = <<"load", "app_load">> /\ StoreBoots
  \/ v7 = <<"erase0", "write0", "app_load">> /\ StoreBoots /\ StoreDefaults
  \/ v7 = <<"write0", "app_load">> /\ StoreBoots /\ StoreDefaults
  \/ v7 = <<"app_load">> /\ StoreBoots /\ StoreSame

StoreAppSave ==
  \/ v7 = <<"app_erase", "app_data", "app_head", "app_test">> /\ StoreApp
  \/ v7 = <<"app_data", "app_head", "app_test">> /\ StoreApp
  \/ v7 = <<"app_head", "app_test">> /\ StoreApp /\ v5 = v3
  \/ v7 = <<"app_test">> /\ StoreApp /\ v5 = v3 /\ v6 = v3
  \/ v7 = <<"app_erase">> /\ v11 = "none" /\ v8 = "blank" /\ StoreSame

StoreTyped ==
  /\ v1 \in Store!Settings \cup {"off"} /\ v2 \in Store!Settings \cup {"blank", "torn"}
  /\ v3 \in StoredValues \cup {"zeros"}
  /\ v9 \in BOOLEAN /\ v10 \in BOOLEAN

StoreInv == StoreTyped /\ (StoreIdle \/ StoreRequest \/ StoreReload \/ StoreStart \/ StoreAppSave)

USE StoreAssumption

\* What the operations that are left begin with, and what is left of them then.
LEMMA StoreTails ==
  /\ Tail(<<"erase", "write", "load">>) = <<"write", "load">>
  /\ Tail(<<"write", "load">>) = <<"load">>
  /\ Tail(<<"load">>) = <<>>
  /\ Tail(<<"erase0", "write0">>) = <<"write0">>
  /\ Tail(<<"write0">>) = <<>>
  /\ Tail(<<"load", "erase", "write", "load">>) = <<"erase", "write", "load">>
  /\ Tail(<<"erase0", "write0", "load", "erase", "write", "load">>)
       = <<"write0", "load", "erase", "write", "load">>
  /\ Tail(<<"write0", "load", "erase", "write", "load">>) = <<"load", "erase", "write", "load">>
  /\ Tail(<<"erase0", "write0", "erase", "write", "load">>) = <<"write0", "erase", "write", "load">>
  /\ Tail(<<"write0", "erase", "write", "load">>) = <<"erase", "write", "load">>
  /\ Tail(<<"load", "app_load">>) = <<"app_load">>
  /\ Tail(<<"erase0", "write0", "app_load">>) = <<"write0", "app_load">>
  /\ Tail(<<"write0", "app_load">>) = <<"app_load">>
  /\ Tail(<<"app_load">>) = <<>>
  /\ Tail(<<"app_erase", "app_data", "app_head", "app_test">>) = <<"app_data", "app_head", "app_test">>
  /\ Tail(<<"app_data", "app_head", "app_test">>) = <<"app_head", "app_test">>
  /\ Tail(<<"app_head", "app_test">>) = <<"app_test">>
  /\ Tail(<<"app_test">>) = <<>>
  /\ Tail(<<"app_erase">>) = <<>>
  OBVIOUS

\* A sequence of two in front of another.
LEMMA PairThen ==
  ASSUME NEW S, NEW p \in Seq(S), NEW s \in Seq(S), NEW u \in Seq(S),
         Len(p) = 2, Len(u) = 2 + Len(s), u[1] = p[1], u[2] = p[2],
         \A i \in 1 .. Len(s) : u[i + 2] = s[i]
  PROVE  p \o s = u
  <1>1. /\ p \o s \in Seq(S)
        /\ Len(p \o s) = Len(p) + Len(s)
        /\ \A i \in 1 .. Len(p) + Len(s) : (p \o s)[i] = IF i <= Len(p) THEN p[i] ELSE s[i - Len(p)]
    BY ONLY ConcatProperties, p \in Seq(S), s \in Seq(S)
  <1>2. Len(s) \in Nat
    OBVIOUS
  <1>3. ASSUME NEW i \in 1 .. Len(p \o s) PROVE (p \o s)[i] = u[i]
    <2>1. CASE i = 1
      BY <1>1, <1>2, <2>1
    <2>2. CASE i = 2
      BY <1>1, <1>2, <2>2
    <2>3. CASE i > 2
      <3>1. (p \o s)[i] = s[i - 2]
        BY <1>1, <1>2, <2>3
      <3>2. i - 2 \in 1 .. Len(s) /\ (i - 2) + 2 = i
        BY <1>1, <1>2, <2>3
      <3>3. u[(i - 2) + 2] = s[i - 2]
        BY <3>2
      <3> QED BY ONLY <3>1, <3>2, <3>3
    <2> QED BY <1>1, <1>2, <2>1, <2>2, <2>3
  <1> QED
    <2>1. Len(p \o s) = Len(u)
      BY <1>1
    <2> QED BY ONLY <1>1, <1>3, <2>1, u \in Seq(S), SeqEqual

LEMMA Restores ==
  /\ <<"erase0", "write0">> \o <<>> = <<"erase0", "write0">>
  /\ <<"erase0", "write0">> \o <<"app_load">> = <<"erase0", "write0", "app_load">>
  /\ <<"erase0", "write0">> \o <<"erase", "write", "load">> = <<"erase0", "write0", "erase", "write", "load">>
  <1> DEFINE S == {"erase0", "write0", "erase", "write", "load", "app_load"}
  <1>1. PICK p : p = <<"erase0", "write0">>
    OBVIOUS
  <1>2. p \in Seq(S) /\ Len(p) = 2 /\ p[1] = "erase0" /\ p[2] = "write0"
    BY <1>1
  <1>3. p \o <<>> = p
    BY <1>2, ConcatEmptySeq
  <1>4. p \o <<"app_load">> = <<"erase0", "write0", "app_load">>
    <2>1. PICK s, u : s = <<"app_load">> /\ u = <<"erase0", "write0", "app_load">>
      OBVIOUS
    <2>2. s \in Seq(S) /\ Len(s) = 1 /\ s[1] = "app_load"
      BY <2>1
    <2>3. u \in Seq(S) /\ Len(u) = 3 /\ u[1] = "erase0" /\ u[2] = "write0" /\ u[3] = "app_load"
      BY <2>1
    <2>4. \A i \in 1 .. Len(s) : u[i + 2] = s[i]
      BY <2>2, <2>3
    <2>5. Len(u) = 2 + Len(s)
      BY <2>2, <2>3
    <2>6. p \o s = u
      <3> HIDE DEF S
      <3>1. p \in Seq(S) /\ s \in Seq(S) /\ u \in Seq(S) /\ Len(p) = 2 /\ u[1] = p[1] /\ u[2] = p[2]
        BY <1>2, <2>2, <2>3
      <3> QED BY ONLY <2>4, <2>5, <3>1, PairThen
    <2> QED BY ONLY <2>1, <2>6
  <1>5. p \o <<"erase", "write", "load">> = <<"erase0", "write0", "erase", "write", "load">>
    <2>1. PICK s, u : s = <<"erase", "write", "load">> /\ u = <<"erase0", "write0", "erase", "write", "load">>
      OBVIOUS
    <2>2. s \in Seq(S) /\ Len(s) = 3 /\ s[1] = "erase" /\ s[2] = "write" /\ s[3] = "load"
      BY <2>1
    <2>3. /\ u \in Seq(S) /\ Len(u) = 5 /\ u[1] = "erase0" /\ u[2] = "write0"
          /\ u[3] = "erase" /\ u[4] = "write" /\ u[5] = "load"
      BY <2>1
    <2>4. ASSUME NEW i \in 1 .. Len(s) PROVE u[i + 2] = s[i]
      <3>1. i = 1 \/ i = 2 \/ i = 3
        BY <2>2
      <3> QED BY <2>2, <2>3, <3>1
    <2>5. Len(u) = 2 + Len(s)
      BY <2>2, <2>3
    <2>6. p \o s = u
      <3> HIDE DEF S
      <3>1. p \in Seq(S) /\ s \in Seq(S) /\ u \in Seq(S) /\ Len(p) = 2 /\ u[1] = p[1] /\ u[2] = p[2]
        BY <1>2, <2>2, <2>3
      <3> QED BY ONLY <2>4, <2>5, <3>1, PairThen
    <2> QED BY ONLY <2>1, <2>6
  <1> QED BY ONLY <1>1, <1>3, <1>4, <1>5

\* The stages at which a sector is erased.
LEMMA StoreErasing ==
  ASSUME StoreInv, v7 # <<>>, v7[1] \in {"erase", "erase0"}
  PROVE  \/ v7 = <<"erase", "write", "load">> /\ StoreAsks(v1) /\ v1 \in Store!Settings
         \/ v7 = <<"erase0", "write0">> /\ StoreDefaults /\ StoreAsks("none")
         \/ v7 = <<"erase0", "write0", "load", "erase", "write", "load">>
            /\ v1 = "defaults" /\ StoreAsks("defaults")
         \/ v7 = <<"erase0", "write0", "erase", "write", "load">>
            /\ v1 = "defaults" /\ StoreAsks("defaults")
         \/ v7 = <<"erase0", "write0", "app_load">> /\ StoreBoots /\ StoreDefaults
  BY DEF StoreInv, StoreIdle, StoreRequest, StoreReload, StoreStart, StoreAppSave

\* ... and written.
LEMMA StoreWriting ==
  ASSUME StoreInv, v7 # <<>>, v7[1] \in {"write", "write0"}
  PROVE  \/ v7 = <<"write", "load">> /\ StoreAsks(v1) /\ v1 \in Store!Settings
         \/ v7 = <<"write0">> /\ StoreDefaults /\ StoreAsks("none")
         \/ v7 = <<"write0", "load", "erase", "write", "load">>
            /\ v1 = "defaults" /\ StoreAsks("defaults")
         \/ v7 = <<"write0", "erase", "write", "load">>
            /\ v1 = "defaults" /\ StoreAsks("defaults")
         \/ v7 = <<"write0", "app_load">> /\ StoreBoots /\ StoreDefaults
  BY DEF StoreInv, StoreIdle, StoreRequest, StoreReload, StoreStart, StoreAppSave

\* ... and read.
LEMMA StoreLoading ==
  ASSUME StoreInv, v7 # <<>>, v7[1] = "load"
  PROVE  \/ v7 = <<"load">> /\ StoreAsks(v2)
         \/ v7 = <<"load", "erase", "write", "load">>
            /\ StoreAsks(IF Store!Loads THEN v2 ELSE "defaults")
         \/ v7 = <<"load", "app_load">> /\ StoreBoots
  BY DEF StoreInv, StoreIdle, StoreRequest, StoreReload, StoreStart, StoreAppSave

\* ... and those of the measurements' settings.
LEMMA StoreSaving ==
  ASSUME StoreInv, v7 # <<>>, v7[1] \in {"app_erase", "app_data", "app_head", "app_test"}
  PROVE  \/ v7 = <<"app_erase", "app_data", "app_head", "app_test">> /\ StoreApp
         \/ v7 = <<"app_data", "app_head", "app_test">> /\ StoreApp
         \/ v7 = <<"app_head", "app_test">> /\ StoreApp /\ v5 = v3
         \/ v7 = <<"app_test">> /\ StoreApp /\ v5 = v3 /\ v6 = v3
         \/ v7 = <<"app_erase">> /\ v11 = "none" /\ v8 = "blank" /\ StoreSame
  BY DEF StoreInv, StoreIdle, StoreRequest, StoreReload, StoreStart, StoreAppSave

LEMMA StoreStarting ==
  ASSUME StoreInv, v7 # <<>>, v7[1] = "app_load"
  PROVE  v7 = <<"app_load">> /\ StoreBoots /\ StoreSame
  BY DEF StoreInv, StoreIdle, StoreRequest, StoreReload, StoreStart, StoreAppSave

LEMMA StoreResting ==
  ASSUME StoreInv, v7 = <<>>
  PROVE  StoreIdle
  BY DEF StoreInv, StoreIdle, StoreRequest, StoreReload, StoreStart, StoreAppSave

\* Only the request's last step answers it.
LEMMA StoreDone ==
  ASSUME Store!Done
  PROVE  /\ v7' # <<>> => v11' = v11
         /\ v8 = "nothing" => v11' = v11
         /\ v7' = <<>> /\ v8 # "nothing" => v11' = IF v9' THEN "error" ELSE "ok"
  BY DEF Store!Done

\* A step of a request that leaves it some operations does not answer it; one that leaves
\* none does.
LEMMA StoreEraseKeeps ==
  ASSUME StoreInv, Store!Erase
  PROVE  StoreInv'
  <1>1. /\ v7 # <<>> /\ v7[1] \in {"erase", "erase0"}
        /\ v1' = v1 /\ v3' = v3 /\ v8' = v8
    BY DEF Store!Erase, Store!AppSide
  <1>2. /\ v7' # <<>> => v11' = v11
        /\ v8 = "nothing" => v11' = v11
    BY StoreDone DEF Store!Erase
  <1>3. \/ v2' = "blank" /\ v7' = Tail(v7) /\ v9' = v9 /\ v10' = v10
        \/ /\ v2' = v2 /\ v7' = Tail(Tail(v7))
           /\ v9' = (v9 \/ v7[1] = "erase") /\ v10' = (v10 \/ v7[1] = "erase0")
    BY DEF Store!Erase
  <1>4. StoreTyped'
    BY <1>1, <1>3 DEF StoreInv, StoreTyped, Store!Settings
  <1>5. ASSUME v2' = "blank", v7' = Tail(v7), v9' = v9, v10' = v10
        PROVE  StoreRequest' \/ StoreReload' \/ StoreStart'
    <2>1. CASE v7 = <<"erase", "write", "load">> /\ StoreAsks(v1) /\ v1 \in Store!Settings
      <3>1. v7' = <<"write", "load">> /\ v11' = v11
        BY <1>2, <1>5, <2>1, StoreTails
      <3>2. StoreAsks(v1)' /\ v1' \in Store!Settings
        BY <1>1, <1>5, <2>1, <3>1 DEF StoreAsks, Store!Settings
      <3> QED BY ONLY <3>1, <3>2 DEF StoreRequest
    <2>2. CASE v7 = <<"erase0", "write0">> /\ StoreDefaults /\ StoreAsks("none")
      <3>1. v7' = <<"write0">> /\ v11' = v11
        BY <1>2, <1>5, <2>2, StoreTails
      <3>2. StoreAsks("none")' /\ StoreDefaults'
        BY <1>1, <1>5, <2>2, <3>1 DEF StoreAsks, StoreDefaults, StoreSame, Store!Settings, Store!Loads
      <3> QED BY ONLY <3>1, <3>2 DEF StoreRequest
    <2>3. CASE v7 = <<"erase0", "write0", "load", "erase", "write", "load">>
               /\ v1 = "defaults" /\ StoreAsks("defaults")
      <3>1. v7' = <<"write0", "load", "erase", "write", "load">> /\ v11' = v11
        BY <1>2, <1>5, <2>3, StoreTails
      <3>2. StoreAsks("defaults")' /\ v1' = "defaults"
        BY <1>1, <1>5, <2>3, <3>1 DEF StoreAsks, Store!Settings
      <3> QED BY ONLY <3>1, <3>2 DEF StoreReload
    <2>4. CASE v7 = <<"erase0", "write0", "erase", "write", "load">>
               /\ v1 = "defaults" /\ StoreAsks("defaults")
      <3>1. v7' = <<"write0", "erase", "write", "load">> /\ v11' = v11
        BY <1>2, <1>5, <2>4, StoreTails
      <3>2. StoreAsks("defaults")' /\ v1' = "defaults"
        BY <1>1, <1>5, <2>4, <3>1 DEF StoreAsks, Store!Settings
      <3> QED BY ONLY <3>1, <3>2 DEF StoreReload
    <2>5. CASE v7 = <<"erase0", "write0", "app_load">> /\ StoreBoots /\ StoreDefaults
      <3>1. v7' = <<"write0", "app_load">> /\ v11' = v11
        BY <1>2, <1>5, <2>5, StoreTails
      <3>2. StoreBoots' /\ StoreDefaults'
        BY <1>1, <1>5, <2>5, <3>1 DEF StoreBoots, StoreDefaults, StoreSame, Store!Settings, Store!Loads
      <3> QED BY ONLY <3>1, <3>2 DEF StoreStart
    <2> QED BY <1>1, <2>1, <2>2, <2>3, <2>4, <2>5, StoreErasing
  <1>6. ASSUME v2' = v2, v7' = Tail(Tail(v7)),
               v7[1] = "erase" \/ v9 => v9', v7[1] = "erase0" \/ v10 => v10'
        PROVE  StoreRequest' \/ StoreReload' \/ StoreStart' \/ StoreIdle'
    <2>1. CASE v7 = <<"erase", "write", "load">> /\ StoreAsks(v1) /\ v1 \in Store!Settings
      <3>1. v7' = <<"load">> /\ v11' = v11 /\ v9'
        <4>1. Tail(Tail(v7)) = <<"load">>
          <5>1. Tail(v7) = <<"write", "load">>
            BY <2>1, StoreTails
          <5>2. Tail(<<"write", "load">>) = <<"load">>
            BY StoreTails
          <5> QED BY ONLY <5>1, <5>2, Zenon
        <4>2. v7' = <<"load">> /\ v11' = v11
          BY ONLY <1>2, v7' = Tail(Tail(v7)), <4>1
        <4>3. v7[1] = "erase"
          BY <2>1
        <4> QED BY <1>6, <4>2, <4>3
      <3>2. StoreAsks(v2)'
        BY <1>1, <1>6, <2>1, <3>1 DEF StoreAsks, Store!Settings
      <3> QED BY ONLY <3>1, <3>2 DEF StoreRequest
    <2>2. CASE v7 = <<"erase0", "write0">> /\ StoreDefaults /\ StoreAsks("none")
      <3>1. v7' = <<>> /\ v10'
        BY <1>6, <2>2, StoreTails
      <3> QED BY ONLY <3>1 DEF StoreIdle, StoreSame, Store!OkIsStored
    <2>3. CASE v7 = <<"erase0", "write0", "load", "erase", "write", "load">>
               /\ v1 = "defaults" /\ StoreAsks("defaults")
      <3>1. v7' = <<"load", "erase", "write", "load">> /\ v11' = v11 /\ v10'
        <4>1. Tail(Tail(v7)) = <<"load", "erase", "write", "load">>
          <5>1. Tail(v7) = <<"write0", "load", "erase", "write", "load">>
            BY <2>3, StoreTails
          <5>2. Tail(<<"write0", "load", "erase", "write", "load">>) = <<"load", "erase", "write", "load">>
            BY StoreTails
          <5> QED BY ONLY <5>1, <5>2, Zenon
        <4>2. v7' = <<"load", "erase", "write", "load">> /\ v11' = v11
          BY ONLY <1>2, v7' = Tail(Tail(v7)), <4>1
        <4>3. v7[1] = "erase0"
          BY <2>3
        <4> QED BY <1>6, <4>2, <4>3
      <3>2. StoreAsks(IF Store!Loads THEN v2 ELSE "defaults")'
        BY <1>1, <2>3, <3>1 DEF StoreAsks, Store!Settings
      <3> QED BY ONLY <3>1, <3>2 DEF StoreReload
    <2>4. CASE v7 = <<"erase0", "write0", "erase", "write", "load">>
               /\ v1 = "defaults" /\ StoreAsks("defaults")
      <3>1. v7' = <<"erase", "write", "load">> /\ v11' = v11 /\ v10'
        <4>1. Tail(Tail(v7)) = <<"erase", "write", "load">>
          <5>1. Tail(v7) = <<"write0", "erase", "write", "load">>
            BY <2>4, StoreTails
          <5>2. Tail(<<"write0", "erase", "write", "load">>) = <<"erase", "write", "load">>
            BY StoreTails
          <5> QED BY ONLY <5>1, <5>2, Zenon
        <4>2. v7' = <<"erase", "write", "load">> /\ v11' = v11
          BY ONLY <1>2, v7' = Tail(Tail(v7)), <4>1
        <4>3. v7[1] = "erase0"
          BY <2>4
        <4> QED BY <1>6, <4>2, <4>3
      <3>2. StoreAsks(v1)' /\ v1' \in Store!Settings
        BY <1>1, <2>4, <3>1 DEF StoreAsks, Store!Settings
      <3> QED BY ONLY <3>1, <3>2 DEF StoreRequest
    <2>5. CASE v7 = <<"erase0", "write0", "app_load">> /\ StoreBoots /\ StoreDefaults
      <3>1. v7' = <<"app_load">> /\ v11' = v11 /\ v10'
        <4>1. Tail(Tail(v7)) = <<"app_load">>
          <5>1. Tail(v7) = <<"write0", "app_load">>
            BY <2>5, StoreTails
          <5>2. Tail(<<"write0", "app_load">>) = <<"app_load">>
            BY StoreTails
          <5> QED BY ONLY <5>1, <5>2, Zenon
        <4>2. v7' = <<"app_load">> /\ v11' = v11
          BY ONLY <1>2, v7' = Tail(Tail(v7)), <4>1
        <4>3. v7[1] = "erase0"
          BY <2>5
        <4> QED BY <1>6, <4>2, <4>3
      <3>2. StoreBoots' /\ StoreSame'
        BY <1>1, <2>5, <3>1 DEF StoreBoots, StoreSame
      <3> QED BY ONLY <3>1, <3>2 DEF StoreStart
    <2> QED BY <1>1, <2>1, <2>2, <2>3, <2>4, <2>5, StoreErasing
  <1> QED BY <1>3, <1>4, <1>5, <1>6 DEF StoreInv

LEMMA StoreWriteKeeps ==
  ASSUME StoreInv, Store!Write
  PROVE  StoreInv'
  <1>1. /\ v7 # <<>> /\ v7[1] \in {"write", "write0"}
        /\ v1' = v1 /\ v3' = v3 /\ v8' = v8 /\ v7' = Tail(v7)
    BY DEF Store!Write, Store!AppSide
  <1>2. /\ v7' # <<>> => v11' = v11
        /\ v8 = "nothing" => v11' = v11
    BY StoreDone DEF Store!Write
  <1>3. \/ v2' = v1 /\ v9' = v9 /\ v10' = v10
        \/ /\ v2' = "torn"
           /\ v9' = (v9 \/ v7[1] = "write") /\ v10' = (v10 \/ v7[1] = "write0")
    BY DEF Store!Write
  <1>4. v1 \in Store!Settings
    BY <1>1, StoreWriting DEF StoreDefaults, Store!Settings
  <1>5. StoreTyped'
    BY <1>1, <1>3, <1>4 DEF StoreInv, StoreTyped, Store!Settings
  <1>6. /\ v2' = v1 \/ (v2' = "torn" /\ (v7[1] = "write" => v9') /\ (v7[1] = "write0" => v10'))
        /\ v9 => v9'
        /\ v10 => v10'
    <2>1. CASE v2' = v1 /\ v9' = v9 /\ v10' = v10
      BY <2>1
    <2>2. CASE /\ v2' = "torn"
               /\ v9' = (v9 \/ v7[1] = "write") /\ v10' = (v10 \/ v7[1] = "write0")
      BY ONLY <2>2, Zenon
    <2> QED BY <1>3, <2>1, <2>2
  <1>7. StoreRequest' \/ StoreReload' \/ StoreStart' \/ StoreIdle'
    <2>1. CASE v7 = <<"write", "load">> /\ StoreAsks(v1) /\ v1 \in Store!Settings
      <3>1. v7' = <<"load">> /\ v11' = v11
        BY <1>1, <1>2, <2>1, StoreTails
      <3>2. v7[1] = "write"
        BY <2>1
      <3>3. StoreAsks(v2)'
        BY ONLY <1>1, <1>6, <2>1, <3>1, <3>2 DEF StoreAsks, Store!Settings
      <3> QED BY ONLY <3>1, <3>3 DEF StoreRequest
    <2>2. CASE v7 = <<"write0">> /\ StoreDefaults /\ StoreAsks("none")
      <3>1. v7' = <<>> /\ Tail(v7) = <<>> /\ v8 # "nothing" /\ (v9 \/ v10)
        BY <1>1, <2>2, StoreTails DEF StoreAsks, Store!Settings
      <3>2. v11' = IF v9' THEN "error" ELSE "ok"
        BY <3>1, StoreDone DEF Store!Write
      <3>3. v7[1] = "write0"
        BY <2>2
      <3>4. StoreSame'
        BY ONLY <1>1, <1>4, <1>6, <2>2, <3>3 DEF StoreDefaults, StoreSame, Store!Loads
      <3>5. Store!OkIsStored'
        BY ONLY <1>6, <3>1, <3>2 DEF Store!OkIsStored
      <3> QED BY ONLY <3>1, <3>4, <3>5 DEF StoreIdle
    <2>3. CASE v7 = <<"write0", "load", "erase", "write", "load">>
               /\ v1 = "defaults" /\ StoreAsks("defaults")
      <3>1. v7' = <<"load", "erase", "write", "load">> /\ v11' = v11
        BY <1>1, <1>2, <2>3, StoreTails
      <3>2. v7[1] = "write0"
        BY <2>3
      <3>3. StoreAsks(IF Store!Loads THEN v2 ELSE "defaults")'
        BY ONLY <1>1, <1>4, <1>6, <2>3, <3>1, <3>2 DEF StoreAsks, Store!Loads
      <3> QED BY ONLY <3>1, <3>3 DEF StoreReload
    <2>4. CASE v7 = <<"write0", "erase", "write", "load">>
               /\ v1 = "defaults" /\ StoreAsks("defaults")
      <3>1. v7' = <<"erase", "write", "load">> /\ v11' = v11
        BY <1>1, <1>2, <2>4, StoreTails
      <3>2. StoreAsks(v1)' /\ v1' \in Store!Settings
        BY <1>1, <1>4, <1>6, <2>4, <3>1 DEF StoreAsks, Store!Settings
      <3> QED BY ONLY <3>1, <3>2 DEF StoreRequest
    <2>5. CASE v7 = <<"write0", "app_load">> /\ StoreBoots /\ StoreDefaults
      <3>1. v7' = <<"app_load">> /\ v11' = v11
        BY <1>1, <1>2, <2>5, StoreTails
      <3>2. v7[1] = "write0"
        BY <2>5
      <3>3. StoreSame'
        BY ONLY <1>1, <1>4, <1>6, <2>5, <3>2 DEF StoreDefaults, StoreSame, Store!Loads
      <3>4. StoreBoots'
        BY <1>1, <2>5, <3>1 DEF StoreBoots
      <3> QED BY ONLY <3>1, <3>3, <3>4 DEF StoreStart
    <2> QED BY <1>1, <2>1, <2>2, <2>3, <2>4, <2>5, StoreWriting
  <1> QED BY <1>5, <1>7 DEF StoreInv

LEMMA StoreLoadKeeps ==
  ASSUME StoreInv, Store!Load
  PROVE  StoreInv'
  <1>1. /\ v7 # <<>> /\ v7[1] = "load"
        /\ v2' = v2 /\ v3' = v3 /\ v8' = v8 /\ v9' = v9
    BY DEF Store!Load, Store!AppSide
  <1>2. /\ v7' # <<>> => v11' = v11
        /\ v8 = "nothing" => v11' = v11
    BY StoreDone DEF Store!Load
  <1>3. \/ Store!Loads /\ v1' = v2 /\ v7' = Tail(v7) /\ v10' = v10
        \/ /\ v1' = "defaults" /\ v7' = <<"erase0", "write0">> \o Tail(v7)
           /\ v10' = (v10 \/ Store!Loads)
    BY DEF Store!Load
  <1>4. StoreTyped'
    BY <1>1, <1>3 DEF StoreInv, StoreTyped, Store!Settings, Store!Loads
  <1>5. ASSUME Store!Loads, v1' = v2, v7' = Tail(v7), v10' = v10
        PROVE  StoreRequest' \/ StoreReload' \/ StoreStart' \/ StoreIdle'
    <2>1. StoreSame'
      BY <1>1, <1>5 DEF StoreSame, Store!Loads
    <2>2. CASE v7 = <<"load">> /\ StoreAsks(v2)
      <3>1. v7' = <<>> /\ Tail(v7) = <<>> /\ v8 # "nothing"
        BY <1>5, <2>2, StoreTails DEF StoreAsks, Store!Settings
      <3>2. v11' = IF v9' THEN "error" ELSE "ok"
        BY <3>1, StoreDone DEF Store!Load
      <3>3. Store!OkIsStored'
        BY ONLY <1>1, <1>5, <2>2, <3>2 DEF Store!OkIsStored, StoreAsks
      <3> QED BY ONLY <2>1, <3>1, <3>3 DEF StoreIdle
    <2>3. CASE v7 = <<"load", "erase", "write", "load">>
               /\ StoreAsks(IF Store!Loads THEN v2 ELSE "defaults")
      <3>1. v7' = <<"erase", "write", "load">> /\ v11' = v11
        BY <1>2, <1>5, <2>3, StoreTails
      <3>2. StoreAsks(v1)' /\ v1' \in Store!Settings
        BY ONLY <1>1, <1>5, <2>3, <3>1 DEF StoreAsks, Store!Loads
      <3> QED BY ONLY <3>1, <3>2 DEF StoreRequest
    <2>4. CASE v7 = <<"load", "app_load">> /\ StoreBoots
      <3>1. v7' = <<"app_load">> /\ v11' = v11
        BY <1>2, <1>5, <2>4, StoreTails
      <3>2. StoreBoots'
        BY <1>1, <2>4, <3>1 DEF StoreBoots
      <3> QED BY ONLY <2>1, <3>1, <3>2 DEF StoreStart
    <2> QED BY <1>1, <2>2, <2>3, <2>4, StoreLoading
  <1>6. ASSUME v1' = "defaults", v7' = <<"erase0", "write0">> \o Tail(v7),
               Store!Loads \/ v10 => v10'
        PROVE  StoreRequest' \/ StoreReload' \/ StoreStart' \/ StoreIdle'
    <2>1. StoreDefaults'
      BY <1>1, <1>6 DEF StoreDefaults, StoreSame, Store!Loads
    <2>2. CASE v7 = <<"load">> /\ StoreAsks(v2)
      <3>1. v7' = <<"erase0", "write0">> /\ v11' = v11
        <4>1. Tail(v7) = <<>>
          BY <2>2, StoreTails
        <4>2. v7' = <<"erase0", "write0">>
          BY ONLY <4>1, <1>6, Restores, Zenon
        <4> QED BY ONLY <1>2, <4>2
      <3>2. StoreAsks("none")'
        BY ONLY <1>1, <1>6, <2>2, <3>1 DEF StoreAsks, Store!Loads
      <3> QED BY ONLY <2>1, <3>1, <3>2 DEF StoreRequest
    <2>3. CASE v7 = <<"load", "erase", "write", "load">>
               /\ StoreAsks(IF Store!Loads THEN v2 ELSE "defaults")
      <3>1. v7' = <<"erase0", "write0", "erase", "write", "load">> /\ v11' = v11
        <4>1. Tail(v7) = <<"erase", "write", "load">>
          BY <2>3, StoreTails
        <4>2. v7' = <<"erase0", "write0", "erase", "write", "load">>
          BY ONLY <4>1, <1>6, Restores, Zenon
        <4> QED BY ONLY <1>2, <4>2
      <3>2. StoreAsks("defaults")'
        BY ONLY <1>1, <1>6, <2>3, <3>1 DEF StoreAsks
      <3> QED BY ONLY <1>6, <3>1, <3>2 DEF StoreReload
    <2>4. CASE v7 = <<"load", "app_load">> /\ StoreBoots
      <3>1. v7' = <<"erase0", "write0", "app_load">> /\ v11' = v11
        <4>1. Tail(v7) = <<"app_load">>
          BY <2>4, StoreTails
        <4>2. v7' = <<"erase0", "write0", "app_load">>
          BY ONLY <4>1, <1>6, Restores, Zenon
        <4> QED BY ONLY <1>2, <4>2
      <3>2. StoreBoots'
        BY <1>1, <2>4, <3>1 DEF StoreBoots
      <3> QED BY ONLY <2>1, <3>1, <3>2 DEF StoreStart
    <2> QED BY <1>1, <2>2, <2>3, <2>4, StoreLoading
  <1> QED BY <1>3, <1>4, <1>5, <1>6 DEF StoreInv

\* What a start reads of the measurements' settings.
LEMMA StoreAppLoadKeeps ==
  ASSUME StoreInv, Store!AppLoad
  PROVE  StoreInv'
  <1>1. /\ v7 # <<>> /\ v7[1] = "app_load" /\ v7' = Tail(v7)
        /\ UNCHANGED <<v1, v2, v8, v9, v10, v11>>
        /\ v3' = v3 \/ (Store!AppLoads /\ v3' = v5)
    BY DEF Store!AppLoad
  <1>2. v7 = <<"app_load">> /\ StoreBoots /\ StoreSame
    BY <1>1, StoreStarting
  <1>3. v7' = <<>>
    BY <1>1, <1>2, StoreTails
  <1>4. StoreSame' /\ Store!OkIsStored' /\ StoreTyped'
    BY <1>1, <1>2 DEF StoreInv, StoreSame, StoreBoots, StoreTyped, Store!OkIsStored, Store!Loads, Store!AppLoads, Store!Settings
  <1> QED BY <1>3, <1>4 DEF StoreInv, StoreIdle

\* What stores them.
LEMMA StoreAppStoreKeeps ==
  ASSUME StoreInv, Store!AppStore
  PROVE  StoreInv'
  <1>1. /\ v7 # <<>> /\ v7[1] \in {"app_erase", "app_data", "app_head"}
        /\ UNCHANGED <<v1, v2, v3, v8, v10>>
    BY DEF Store!AppStore, Store!UserSide
  <1>2. /\ v7' # <<>> => v11' = v11
        /\ v7' = <<>> /\ v8 # "nothing" => v11' = IF v9' THEN "error" ELSE "ok"
    BY StoreDone DEF Store!AppStore
  <1>3. StoreTyped' /\ (StoreSame => StoreSame')
    <2>1. v9' = v9 \/ v9' = TRUE
      BY DEF Store!AppStore, Store!Fails
    <2> QED BY <1>1, <2>1 DEF StoreInv, StoreTyped, StoreSame, Store!Settings, Store!Loads
  <1>4. CASE Store!Fails
    <2>1. v7' = <<>> /\ v9' = TRUE
      BY <1>4 DEF Store!Fails
    <2>2. StoreSame /\ v8 # "nothing"
      BY <1>1, StoreSaving DEF StoreApp
    <2>3. v11' = "error"
      BY <1>2, <2>1, <2>2
    <2>4. Store!OkIsStored'
      BY <2>3 DEF Store!OkIsStored
    <2> QED BY <1>3, <2>1, <2>2, <2>4 DEF StoreInv, StoreIdle
  <1>5. CASE ~ Store!Fails
    <2>1. /\ v7' = Tail(v7)
          /\ v7[1] = "app_data" => v5' = v3
          /\ v7[1] = "app_head" => v6' = v3 /\ v5' = v5
      BY <1>5 DEF Store!AppStore
    <2>2. CASE v7 = <<"app_erase", "app_data", "app_head", "app_test">> /\ StoreApp
      <3>1. v7' = <<"app_data", "app_head", "app_test">> /\ v11' = v11
        BY <1>2, <2>1, <2>2, StoreTails
      <3>2. StoreApp'
        BY <1>1, <1>3, <2>2, <3>1 DEF StoreApp
      <3> QED BY ONLY <1>3, <3>1, <3>2 DEF StoreInv, StoreAppSave
    <2>3. CASE v7 = <<"app_data", "app_head", "app_test">> /\ StoreApp
      <3>1. v7' = <<"app_head", "app_test">> /\ v11' = v11
        BY <1>2, <2>1, <2>3, StoreTails
      <3>2. StoreApp' /\ v5' = v3'
        BY <1>1, <1>3, <2>1, <2>3, <3>1 DEF StoreApp
      <3> QED BY ONLY <1>3, <3>1, <3>2 DEF StoreInv, StoreAppSave
    <2>4. CASE v7 = <<"app_head", "app_test">> /\ StoreApp /\ v5 = v3
      <3>1. v7' = <<"app_test">> /\ v11' = v11
        BY <1>2, <2>1, <2>4, StoreTails
      <3>2. StoreApp' /\ v5' = v3' /\ v6' = v3'
        BY <1>1, <1>3, <2>1, <2>4, <3>1 DEF StoreApp
      <3> QED BY ONLY <1>3, <3>1, <3>2 DEF StoreInv, StoreAppSave
    <2>5. CASE v7 = <<"app_erase">> /\ v11 = "none" /\ v8 = "blank" /\ StoreSame
      <3>1. v7' = <<>>
        BY <2>1, <2>5, StoreTails
      <3>2. Store!OkIsStored'
        BY <1>1, <2>5 DEF Store!OkIsStored
      <3> QED BY ONLY <1>3, <2>5, <3>1, <3>2 DEF StoreInv, StoreIdle
    <2> QED
      <3>1. v7 # <<"app_test">>
        BY <1>1
      <3> QED BY <1>1, <2>2, <2>3, <2>4, <2>5, <3>1, StoreSaving
  <1> QED BY <1>4, <1>5

LEMMA StoreAppTestKeeps ==
  ASSUME StoreInv, Store!AppTest
  PROVE  StoreInv'
  <1>1. /\ v7 # <<>> /\ v7[1] = "app_test" /\ v7' = <<>>
        /\ UNCHANGED <<v1, v2, v5, v6, v8, v10>>
        /\ \/ Store!AppLoads /\ v3' = v5 /\ v4' = TRUE /\ v9' = v9
           \/ v3' = v3 /\ v4' = v4 /\ v9' = TRUE
    BY DEF Store!AppTest, Store!UserSide
  <1>2. v7 = <<"app_test">> /\ StoreApp /\ v5 = v3 /\ v6 = v3
    BY <1>1, StoreSaving
  <1>3. v11' = IF v9' THEN "error" ELSE "ok"
    BY <1>1, <1>2, StoreDone DEF Store!AppTest, StoreApp
  <1>4. Store!OkIsStored' /\ StoreSame'
    BY <1>1, <1>2, <1>3 DEF Store!OkIsStored, StoreApp, StoreSame, Store!Loads
  <1>5. StoreTyped'
    BY <1>1, <1>2 DEF StoreInv, StoreTyped, Store!Settings
  <1> QED BY <1>1, <1>4, <1>5 DEF StoreInv, StoreIdle

\* Requests begin when nothing is left of the one before.
LEMMA StoreAskKeeps ==
  ASSUME StoreInv, NEW v \in StoredValues,
         \/ Store!config_handler(v) \/ Store!config_iot_handler(v)
         \/ Store!config_ap_handler(v) \/ Store!config_station_handler(v)
         \/ Store!AppSave(v)
  PROVE  StoreInv'
  <1>1. v7 = <<>> /\ v11' = "none" /\ v9' \in BOOLEAN
    BY DEF Store!config_handler, Store!config_iot_handler, Store!config_ap_handler,
           Store!config_station_handler, Store!Post, Store!AppSave
  <1>2. StoreSame /\ StoreTyped
    BY <1>1, StoreResting DEF StoreIdle, StoreInv
  <1>3. CASE \E refused \in BOOLEAN : Store!Post(v, refused)
    <2>1. /\ v1' = v /\ v8' = v /\ v7' = <<"erase", "write", "load">>
          /\ v2' = v2 /\ v3' = v3 /\ v10' = FALSE
      BY <1>3 DEF Store!Post, Store!AppSide
    <2>2. StoreTyped' /\ StoreAsks(v1)' /\ v1' \in Store!Settings
      BY <1>1, <1>2, <2>1 DEF StoreTyped, StoreAsks, Store!Settings
    <2> QED BY ONLY <2>1, <2>2 DEF StoreInv, StoreRequest
  <1>4. CASE /\ v1' = v1 /\ v8' = IF Store!Loads THEN v2 ELSE "defaults"
             /\ v7' = <<"load", "erase", "write", "load">>
             /\ v10' = FALSE /\ UNCHANGED <<v2, v3>>
    <2>1. StoreTyped'
      BY <1>1, <1>2, <1>4 DEF StoreTyped, Store!Settings
    <2>2. StoreAsks(IF Store!Loads THEN v2 ELSE "defaults")'
      BY <1>1, <1>4 DEF StoreAsks, Store!Loads, Store!Settings
    <2> QED BY ONLY <1>4, <2>1, <2>2 DEF StoreInv, StoreReload
  <1>5. CASE /\ v1' = "defaults" /\ v8' = "defaults"
             /\ v7' = <<"erase0", "write0", "load", "erase", "write", "load">>
             /\ v10' = FALSE /\ UNCHANGED <<v2, v3>>
    <2>1. StoreTyped'
      BY <1>1, <1>2, <1>5 DEF StoreTyped, Store!Settings
    <2>2. StoreAsks("defaults")'
      BY <1>1, <1>5 DEF StoreAsks, Store!Settings
    <2> QED BY ONLY <1>5, <2>1, <2>2 DEF StoreInv, StoreReload
  <1>6. CASE Store!AppSave(v)
    <2>1. /\ v3' = v /\ v8' = v /\ UNCHANGED <<v1, v2, v10>>
          /\ v7' = <<"app_erase", "app_data", "app_head", "app_test">>
      BY <1>6 DEF Store!AppSave
    <2>2. StoreTyped' /\ StoreApp'
      BY <1>1, <1>2, <2>1 DEF StoreTyped, StoreApp, StoreSame, Store!Settings, Store!Loads
    <2> QED BY ONLY <2>1, <2>2 DEF StoreInv, StoreAppSave
  <1> QED
    <2>1. CASE Store!config_handler(v)
      <3>1. \/ Store!Post(v, FALSE)
            \/ /\ v1' = v1 /\ v8' = IF Store!Loads THEN v2 ELSE "defaults"
               /\ v7' = <<"load", "erase", "write", "load">>
               /\ v10' = FALSE /\ UNCHANGED <<v2, v3>>
            \/ /\ v1' = "defaults" /\ v8' = "defaults"
               /\ v7' = <<"erase0", "write0", "load", "erase", "write", "load">>
               /\ v10' = FALSE /\ UNCHANGED <<v2, v3>>
        BY <2>1 DEF Store!config_handler, Store!AppSide
      <3> QED BY <1>3, <1>4, <1>5, <3>1
    <2>2. CASE Store!config_iot_handler(v) \/ Store!config_ap_handler(v) \/ Store!config_station_handler(v)
      BY <1>3, <2>2 DEF Store!config_iot_handler, Store!config_ap_handler, Store!config_station_handler
    <2> QED BY <1>6, <2>1, <2>2

LEMMA StoreAppEraseKeeps ==
  ASSUME StoreInv, Store!AppErase
  PROVE  StoreInv'
  <1>1. v7 = <<>> /\ v11' = "none" /\ v9' = FALSE
    BY DEF Store!AppErase
  <1>2. StoreSame /\ StoreTyped
    BY <1>1, StoreResting DEF StoreIdle, StoreInv
  <1>3. v7' = <<"app_erase">> /\ v8' = "blank" /\ UNCHANGED <<v1, v2, v3, v10>>
    BY DEF Store!AppErase, Store!UserSide, Store!AppSide
  <1>4. StoreTyped' /\ StoreSame'
    BY <1>1, <1>2, <1>3 DEF StoreTyped, StoreSame, Store!Settings, Store!Loads
  <1> QED BY ONLY <1>1, <1>3, <1>4 DEF StoreInv, StoreAppSave

LEMMA StorePowerKeeps ==
  ASSUME StoreInv, Store!PowerLoss
  PROVE  StoreInv'
  <1>1. /\ v1' = "off" /\ v3' = "zeros" /\ v7' = <<"load", "app_load">>
        /\ v8' = "nothing" /\ v9' = FALSE /\ v10' = FALSE /\ v11' = "none"
        /\ v2' = v2 \/ v2' = "torn"
    BY DEF Store!PowerLoss, Store!Boots
  <1>2. StoreTyped' /\ StoreBoots'
    BY <1>1 DEF StoreInv, StoreTyped, StoreBoots, Store!Settings
  <1> QED BY <1>1, <1>2 DEF StoreInv, StoreStart

LEMMA StoreStarts == ASSUME Store!Init PROVE StoreInv
  <1>1. StoreTyped /\ StoreBoots /\ v7 = <<"load", "app_load">>
    BY DEF Store!Init, StoreTyped, StoreBoots, Store!Settings, Store!Boots
  <1> QED BY <1>1 DEF StoreInv, StoreStart

\* What is in use, what is stored and what was answered agree after every request, and
\* a power loss anywhere leaves settings that load or are replaced (user_config_store,
\* user_config_load, user_app_config_store_l).
LEMMA StoreKeeps == ASSUME StoreInv, Store!Next \/ UNCHANGED Store!vars PROVE StoreInv'
  <1>1. CASE UNCHANGED Store!vars
    <2>1. UNCHANGED <<v1, v2, v3, v4, v5, v6, v7, v8, v9, v10, v11>>
      BY <1>1 DEF Store!vars
    <2>2. /\ StoreTyped' /\ (StoreSame' <=> StoreSame) /\ (StoreDefaults' <=> StoreDefaults)
          /\ (StoreBoots' <=> StoreBoots) /\ (StoreApp' <=> StoreApp)
      BY <2>1 DEF StoreInv, StoreTyped, StoreSame, StoreDefaults, StoreBoots, StoreApp, Store!Loads, Store!Settings
    <2>3. StoreIdle => StoreIdle'
      BY <2>1, <2>2 DEF StoreIdle, Store!OkIsStored
    <2>4. StoreRequest => StoreRequest'
      BY <2>1, <2>2 DEF StoreRequest, StoreAsks
    <2>5. StoreReload => StoreReload'
      BY <2>1, <2>2 DEF StoreReload, StoreAsks, Store!Loads
    <2>6. StoreStart => StoreStart'
      BY <2>1, <2>2 DEF StoreStart
    <2>7. StoreAppSave => StoreAppSave'
      BY <2>1, <2>2 DEF StoreAppSave
    <2> QED BY <2>2, <2>3, <2>4, <2>5, <2>6, <2>7 DEF StoreInv
  <1>2. CASE Store!Erase \/ Store!Write \/ Store!Load
    BY <1>2, StoreEraseKeeps, StoreWriteKeeps, StoreLoadKeeps
  <1>3. CASE Store!AppLoad \/ Store!AppStore \/ Store!AppTest
    BY <1>3, StoreAppLoadKeeps, StoreAppStoreKeeps, StoreAppTestKeeps
  <1>4. CASE Store!PowerLoss
    BY <1>4, StorePowerKeeps
  <1>5. CASE Store!AppErase
    BY <1>5, StoreAppEraseKeeps
  <1>6. CASE \E v \in StoredValues :
               \/ Store!config_handler(v) \/ Store!config_iot_handler(v)
               \/ Store!config_ap_handler(v) \/ Store!config_station_handler(v) \/ Store!AppSave(v)
    BY <1>6, StoreAskKeeps
  <1> QED BY <1>1, <1>2, <1>3, <1>4, <1>5, <1>6 DEF Store!Next

LEMMA StoreTells ==
  ASSUME StoreInv
  PROVE  Store!NeverTorn /\ Store!SurvivesRestart /\ Store!OkIsStored
  <1>1. Store!NeverTorn
    BY DEF StoreInv, StoreTyped, Store!NeverTorn, Store!Settings
  <1>2. CASE v7 = <<>>
    BY <1>1, <1>2, StoreResting DEF StoreIdle, StoreSame, Store!SurvivesRestart
  <1>3. CASE v7 # <<>>
    <2>1. v11 = "none"
      BY <1>3 DEF StoreInv, StoreIdle, StoreRequest, StoreReload, StoreStart, StoreAppSave, StoreAsks, StoreBoots, StoreApp
    <2> QED BY <1>1, <1>3, <2>1 DEF Store!SurvivesRestart, Store!OkIsStored
  <1> QED BY <1>2, <1>3

HIDE StoreAssumption

-----------------------------------------------------------------------------
(* Types.  Each module has, beside its invariant, what its variables are; a *)
(* step keeps it where the invariant holds.                                 *)
LEMMA PlugTypes == ASSUME PlugInv PROVE Plug!TypeOK
  BY DEF PlugInv

LEMMA OneTypes == ASSUME OneInv PROVE One!TypeOK
  BY DEF OneInv

LEMMA TwoTypes == ASSUME TwoInv PROVE Two!TypeOK
  BY DEF TwoInv

LEMMA DioTypes == ASSUME DioInv PROVE Dio!TypeOK
  <1>1. DioTyped
    BY DEF DioInv
  <1>2. {v2, v3, v4, v5, v6, v8, v10, v11, v12, v13} \subseteq BOOLEAN
    BY <1>1 DEF DioTyped
  <1>3. /\ v1 \in Dio!Types /\ v7 \in Dio!Inputs \cup {"none"}
        /\ v9 \in {"none", "filter", "pulse", "send"}
        /\ v14 \subseteq {"unset", "stray", "driven", "edge"}
    BY <1>1 DEF DioTyped, Dio!Types, Dio!Inputs
  <1> QED BY <1>2, <1>3 DEF Dio!TypeOK

\* The trigger and the state of a button are among those there are.
KeysFits ==
  /\ v2 \in {"NEG", "POS", "OFF"} /\ v11 \in BOOLEAN /\ v12 \in BOOLEAN
  /\ v10 \in {"none", "Press", "Long Press", "Short Release", "Long Release"}

LEMMA KeysFitsFirst == ASSUME Keys!Init PROVE KeysFits
  BY DEF Keys!Init, KeysFits

LEMMA KeysFitsOn == ASSUME KeysFits, Keys!Next \/ UNCHANGED Keys!vars PROVE KeysFits'
  BY DEF KeysFits, Keys!Next, Keys!vars, Keys!Edge, Keys!Interrupt, Keys!Press, Keys!Long,
         Keys!Sample, Keys!Release, Keys!CloseConnections, Keys!RestoreDefaults

LEMMA KeysTypes == ASSUME KeysInv, KeysFits PROVE Keys!TypeOK
  BY DEF KeysInv, KeysTyped, KeysFits, Keys!TypeOK

\* Readings are approached, never passed, so that they stay among themselves.
TempFits ==
  /\ v1 \in -MaxTemp..MaxTemp /\ v3 \in -MaxTemp..MaxTemp /\ v4 \in -MaxTemp..MaxTemp
  /\ v5 \in 0..(TempCount - 1) /\ v2 \in BOOLEAN /\ v7 \in BOOLEAN /\ v8 \in BOOLEAN

LEMMA TempFitsFirst == ASSUME Temp!Init PROVE TempFits
  <1>1. v1 \in -MaxTemp..MaxTemp /\ v3 = 0 /\ v4 = 0 /\ v5 = 0 /\ v2 = TRUE /\ v7 \in BOOLEAN /\ v8 = FALSE
    BY DEF Temp!Init
  <1>2. 0 \in -MaxTemp..MaxTemp /\ 0 \in 0..(TempCount - 1)
    BY ThermoAssumption
  <1> QED BY <1>1, <1>2 DEF TempFits

LEMMA TempFitsOn ==
  ASSUME TempInv, TempFits, Temp!Next \/ UNCHANGED Temp!vars PROVE TempFits'
  <1>1. ASSUME Temp!Read PROVE v3' \in -MaxTemp..MaxTemp /\ v2' = FALSE
    <2>1. /\ v3' \in Int
          /\ ~ v2 => \E q \in Int : /\ v3' = v3 + q
                                    /\ (v1 - v3 >= 0 => q \in 0..(v1 - v3))
                                    /\ (v1 - v3 <= 0 => q \in (v1 - v3)..0)
      BY <1>1, ReadTowards
    <2>2. v2 => v3' = v1
      BY <1>1 DEF Temp!Read
    <2>3. v2' = FALSE
      BY <1>1 DEF Temp!Read
    <2>4. /\ v1 \in -MaxTemp..MaxTemp /\ v3 \in -MaxTemp..MaxTemp
      BY DEF TempFits
    <2>5. CASE v2
      BY <2>2, <2>3, <2>4, <2>5
    <2>6. CASE ~ v2
      BY <2>1, <2>3, <2>4, <2>6, ThermoAssumption
    <2> QED BY <2>5, <2>6
  <1>2. CASE Temp!mod_tc_mk2_event
    <2>1. /\ UNCHANGED <<v1, v7>>
          /\ (Temp!Read /\ v8' = TRUE) \/ (UNCHANGED <<v2, v3, v8>>)
          /\ (v5' = 0 /\ v4' = v3') \/ (v5' = (v5 + 1) % TempCount /\ v4' = v4)
      BY <1>2 DEF Temp!mod_tc_mk2_event, Temp!ReadFails
    <2>2. v3' \in -MaxTemp..MaxTemp /\ v2' \in BOOLEAN /\ v8' \in BOOLEAN
      BY <1>1, <2>1 DEF TempFits
    <2>3. v5' \in 0..(TempCount - 1)
      BY <2>1, ThermoAssumption DEF TempFits
    <2>4. v4' \in -MaxTemp..MaxTemp
      BY <2>1, <2>2 DEF TempFits
    <2> QED BY <2>1, <2>2, <2>3, <2>4 DEF TempFits
  <1>3. CASE Temp!Request
    <2>1. /\ UNCHANGED <<v1, v4, v5>> /\ v7' \in BOOLEAN
          /\ \/ Temp!Read /\ v8' = (v8 /\ v3' = v3)
             \/ UNCHANGED <<v2, v3, v8>>
      BY <1>3 DEF Temp!Request, Temp!ReadFails
    <2>2. v3' \in -MaxTemp..MaxTemp /\ v2' \in BOOLEAN
      BY <1>1, <2>1 DEF TempFits
    <2>3. v8' \in BOOLEAN
      BY <2>1 DEF TempFits
    <2> QED BY <2>1, <2>2, <2>3 DEF TempFits
  <1>4. CASE Temp!Warm
    BY <1>4 DEF Temp!Warm, TempFits
  <1>5. CASE UNCHANGED Temp!vars
    BY <1>5 DEF Temp!vars, TempFits
  <1> QED BY <1>2, <1>3, <1>4, <1>5 DEF Temp!Next

LEMMA TempTypes == ASSUME TempFits PROVE Temp!TypeOK
  BY DEF TempFits, Temp!TypeOK

WifiFits == v5 \subseteq {"station", "detect", "connect", "disconnect"}

LEMMA WifiFitsFirst == ASSUME Wifi!Init PROVE WifiFits
  BY DEF Wifi!Init, WifiFits

LEMMA WifiFitsOn == ASSUME WifiFits, Wifi!Next \/ UNCHANGED Wifi!vars PROVE WifiFits'
  <1>1. CASE Wifi!StationConnect
    BY <1>1 DEF WifiFits, Wifi!StationConnect
  <1>2. CASE \E a, n \in BOOLEAN : Wifi!ConfigLoad(a, n)
    BY <1>2 DEF WifiFits, Wifi!ConfigLoad
  <1>3. CASE Wifi!Done
    BY <1>3 DEF WifiFits, Wifi!Done
  <1>4. CASE UNCHANGED v5 \/ \E x \in v5 : v5' = v5 \ {x}
    BY <1>4 DEF WifiFits
  <1> QED BY <1>1, <1>2, <1>3, <1>4
          DEF Wifi!Next, Wifi!vars, Wifi!DetectTimer, Wifi!Ask, Wifi!Clean, Wifi!Connect,
              Wifi!Disconnect, Wifi!GotIp, Wifi!Disconnected

LEMMA WifiTypes == ASSUME WifiInv, WifiFits PROVE Wifi!TypeOK
  BY DEF WifiInv, WifiTyped, WifiFits, Wifi!TypeOK

ScanFits == v5 \in 1..(LastAddress + 1) /\ v8 \in 0..ScanAsks

LEMMA ScanFitsFirst == ASSUME Scan!Init PROVE ScanFits
  BY ScanAssumption DEF Scan!Init, ScanFits

LEMMA ScanFitsOn ==
  ASSUME ScanInv, ScanFits, Scan!Next \/ UNCHANGED Scan!vars PROVE ScanFits'
  <1>1. CASE Scan!devices_handler
    BY <1>1, ScanAssumption DEF ScanFits, Scan!devices_handler, Scan!i2c_scan_start
  <1>2. CASE Scan!i2c_scan
    <2>1. v6 > 0 /\ v5' = v5 + 1 /\ (v8' = v8 \/ v8' = 0)
      BY <1>2 DEF Scan!i2c_scan
    <2>2. v5 \in 1..LastAddress
      BY <2>1 DEF ScanInv, ScanTyped, ScanRuns
    <2> QED BY <2>1, <2>2, ScanAssumption DEF ScanFits
  <1>3. CASE UNCHANGED <<v5, v8>>
    BY <1>3 DEF ScanFits
  <1> QED BY <1>1, <1>2, <1>3
          DEF Scan!Next, Scan!vars, Scan!Register, Scan!device_set_uart, Scan!Replug

LEMMA ScanTypes == ASSUME ScanInv, ScanFits PROVE Scan!TypeOK
  BY DEF ScanInv, ScanTyped, ScanFits, Scan!TypeOK

\* A packet that comes has fewer bytes than it will have, and between packets
\* there is none.
EmtrFits ==
  /\ v1 \in {"IDLE", "ERROR", "LEN", "DATA"}
  /\ IF v1 = "DATA"
     THEN v2 \in [of : Emtr!Commands \cup {"none"}, got : 0..3, len : {3, 4}] /\ v2.got < v2.len
     ELSE v2 = Emtr!Empty
  /\ v5 \in [Emtr!Commands -> 0..MeterHeld]
  /\ v3 \in Emtr!Commands \cup {"none"}
  /\ v6 \in BOOLEAN /\ v7 \in BOOLEAN /\ v8 \in BOOLEAN

LEMMA EmtrFitsFirst == ASSUME Emtr!Init PROVE EmtrFits
  <1>1. v5 = [c \in Emtr!Commands |-> IF c = "address" THEN 1 ELSE 0]
    BY DEF Emtr!Init
  <1>2. v5 \in [Emtr!Commands -> 0..MeterHeld]
    BY <1>1, LinesAssumption
  <1> QED BY <1>2 DEF Emtr!Init, EmtrFits

\* The rows of commands that are sent.
LEMMA EmtrRows ==
  /\ <<>> \in Seq(Emtr!Commands) /\ <<"get">> \in Seq(Emtr!Commands)
  /\ <<"set">> \in Seq(Emtr!Commands) /\ <<"set", "set">> \in Seq(Emtr!Commands)
  /\ <<"output">> \in Seq(Emtr!Commands)
  <1>1. {"get", "set", "output"} \subseteq Emtr!Commands
    BY DEF Emtr!Commands, Emtr!Writes
  <1> QED BY <1>1

LEMMA WaitFits ==
  ASSUME MeterTyped, NEW cs \in Seq(Emtr!Commands), Emtr!Wait(cs)
  PROVE  v5' \in [Emtr!Commands -> 0..MeterHeld]
  <1>1. v5' \in [Emtr!Commands -> Nat]
    BY WaitCounts
  <1>2. v5'["address"] + v5'["output"] + v5'["get"] + v5'["set"] <= MeterHeld
    BY DEF Emtr!Wait, Emtr!Bounded
  <1>3. Emtr!Commands = {"address", "output", "get", "set"}
    BY DEF Emtr!Commands, Emtr!Writes
  <1>4. /\ v5'["address"] \in Nat /\ v5'["output"] \in Nat /\ v5'["get"] \in Nat
        /\ v5'["set"] \in Nat
    BY <1>1, <1>3
  <1>5. \A c \in Emtr!Commands : v5'[c] \in 0..MeterHeld
    BY <1>2, <1>3, <1>4, LinesAssumption
  <1> QED BY <1>1, <1>5

LEMMA SendFits ==
  ASSUME MeterTyped, EmtrFits, NEW cs \in Seq(Emtr!Commands), NEW later \in Seq(Emtr!Commands),
         NEW line, Emtr!Send(cs, later, line)
  PROVE  v5' \in [Emtr!Commands -> 0..MeterHeld] /\ v3' \in Emtr!Commands \cup {"none"}
  <1>1. CASE v4 \/ cs = <<>>
    <2>1. Emtr!Wait(cs \o later) /\ v3' = v3 /\ cs \o later \in Seq(Emtr!Commands)
      BY <1>1 DEF Emtr!Send
    <2> QED BY <2>1, WaitFits DEF EmtrFits
  <1>2. CASE ~ (v4 \/ cs = <<>>)
    <2>1. Emtr!Wait(Tail(cs) \o later) /\ v3' = cs[1]
      BY <1>2 DEF Emtr!Send
    <2>2. cs[1] \in Emtr!Commands /\ Tail(cs) \o later \in Seq(Emtr!Commands)
      BY <1>2
    <2> QED BY <2>1, <2>2, WaitFits
  <1> QED BY <1>1, <1>2

\* What a packet's end leaves of commands and polling.
EmtrEnded ==
  /\ v5' \in [Emtr!Commands -> 0..MeterHeld] /\ v3' \in Emtr!Commands \cup {"none"}
  /\ v6' \in BOOLEAN /\ v8' \in BOOLEAN

LEMMA CharFits == ASSUME EmtrInv, EmtrFits, Emtr!emtr_char_in PROVE EmtrFits'
  <1>0. MeterTyped /\ v9 # <<>> /\ v9 \in Seq(MeterByte)
    BY DEF EmtrInv, MeterLine, MeterPart, MeterTyped, Emtr!emtr_char_in
  <1> DEFINE b == Head(v9)
  <1>1. b \in MeterByte /\ v7' = v7 /\ v7 \in BOOLEAN
    BY <1>0 DEF Emtr!emtr_char_in, EmtrFits
  <1>2. b # Emtr!Nak => b[1] \in Emtr!Commands
    BY <1>1 DEF MeterByte
  <1>3. ASSUME NEW c, Emtr!Accept(c, Tail(v9)) PROVE EmtrEnded
    <2>1. PICK cs \in Emtr!Replies : Emtr!Send(cs, <<>>, Tail(v9))
      BY <1>3 DEF Emtr!Accept
    <2>2. cs \in Seq(Emtr!Commands) /\ <<>> \in Seq(Emtr!Commands)
      BY <2>1, EmtrRows DEF Emtr!Replies
    <2>3. v5' \in [Emtr!Commands -> 0..MeterHeld] /\ v3' \in Emtr!Commands \cup {"none"}
      BY <1>0, <2>1, <2>2, SendFits
    <2>4. v8' = TRUE /\ v6' \in BOOLEAN
      BY <1>3 DEF Emtr!Accept, Emtr!emtr_start_read, EmtrFits
    <2> QED BY <2>3, <2>4 DEF EmtrEnded
  <1>4. Emtr!Reject(Tail(v9)) => EmtrEnded
    BY DEF Emtr!Reject, EmtrEnded, EmtrFits
  <1>5. Emtr!Quiet(Tail(v9)) => EmtrEnded
    BY DEF Emtr!Quiet, EmtrEnded, EmtrFits
  <1>6. CASE Emtr!FirstChar(b, Tail(v9))
    <2>1. v2' = Emtr!Empty /\ v1' \in {"IDLE", "ERROR", "LEN"}
      BY <1>6 DEF Emtr!FirstChar
    <2>2. EmtrEnded
      BY <1>3, <1>4, <1>5, <1>6 DEF Emtr!FirstChar
    <2> QED BY <1>1, <2>1, <2>2 DEF EmtrFits, EmtrEnded
  <1>7. CASE Emtr!NextChar(b, Tail(v9))
    <2> DEFINE p == Emtr!Longer(b)
    <2>1. v1 \in {"LEN", "DATA"}
      BY <1>7 DEF Emtr!NextChar
    <2>2. v2.got \in 0..3 /\ v2.got < (IF v1 = "DATA" THEN v2.len ELSE 1)
          /\ (v1 = "DATA" => v2.len \in {3, 4})
      BY <2>1 DEF EmtrFits, Emtr!Empty
    <2>3. /\ p = [of |-> p.of, got |-> v2.got + 1, len |-> p.len] /\ p.len \in {3, 4}
          /\ v2.got + 1 <= p.len
      BY <2>1, <2>2 DEF Emtr!Longer
    <2>4. p.of \in Emtr!Commands \cup {"none"}
      <3>1. p.of = "none" \/ (p.of = b[1] /\ b[2] = v2.got + 2)
        BY DEF Emtr!Longer
      <3>2. Emtr!Nak[2] = 1
        BY DEF Emtr!Nak
      <3> QED BY <1>2, <2>2, <3>1, <3>2
    <2>5. EmtrEnded
      BY <1>3, <1>4, <1>5, <1>7 DEF Emtr!NextChar
    <2>6. CASE p.got = p.len
      <3>1. v1' = "IDLE" /\ v2' = Emtr!Empty
        BY <1>7, <2>6 DEF Emtr!NextChar
      <3> QED BY <1>1, <2>5, <3>1 DEF EmtrFits, EmtrEnded
    <2>7. CASE p.got # p.len
      <3>1. v1' = "DATA" /\ v2' = p
        BY <1>7, <2>7 DEF Emtr!NextChar
      <3> HIDE DEF p
      <3>2. p.got = v2.got + 1 /\ p.got < p.len /\ p.got \in 0..3
        BY <2>2, <2>3, <2>7
      <3>3. p \in [of : Emtr!Commands \cup {"none"}, got : 0..3, len : {3, 4}]
        BY <2>3, <2>4, <3>2
      <3> QED BY <1>1, <2>5, <3>1, <3>2, <3>3 DEF EmtrFits, EmtrEnded
    <2> QED BY <2>6, <2>7
  <1> QED BY <1>6, <1>7 DEF Emtr!emtr_char_in

LEMMA EmtrFitsOn ==
  ASSUME EmtrInv, EmtrFits, Emtr!Next \/ UNCHANGED Emtr!vars PROVE EmtrFits'
  <1>0. MeterTyped
    BY DEF EmtrInv, MeterLine, MeterPart
  <1>1. ASSUME NEW c \in Emtr!Commands, Emtr!emtr_send(c) PROVE EmtrFits'
    <2>1. v5' = [v5 EXCEPT ![c] = @ - 1] /\ v5[c] > 0 /\ v3' = c /\ UNCHANGED <<v1, v2, v6, v7, v8>>
      BY <1>1 DEF Emtr!emtr_send
    <2>2. v5' \in [Emtr!Commands -> 0..MeterHeld]
      <3>1. v5 \in [Emtr!Commands -> 0..MeterHeld] /\ MeterHeld \in Nat
        BY LinesAssumption DEF EmtrFits
      <3>2. v5[c] - 1 \in 0..MeterHeld
        BY <2>1, <3>1
      <3> QED BY <2>1, <3>1, <3>2
    <2> QED BY <2>1, <2>2 DEF EmtrFits
  <1>2. CASE Emtr!emtr_get_output
    <2>1. /\ Emtr!Send(<<"output">>, <<>>, v9) /\ v6' = FALSE /\ UNCHANGED <<v1, v2, v7, v8>>
      BY <1>2 DEF Emtr!emtr_get_output
    <2> QED BY <1>0, <2>1, EmtrRows, SendFits DEF EmtrFits
  <1>3. CASE Emtr!Boot
    <2>1. PICK cs \in {<<"get">>, <<>>} : Emtr!Wait(cs)
      BY <1>3 DEF Emtr!Boot
    <2>2. cs \in Seq(Emtr!Commands)
      BY <2>1, EmtrRows
    <2>3. v5' \in [Emtr!Commands -> 0..MeterHeld]
      BY <1>0, <2>1, <2>2, WaitFits
    <2>4. v6' \in BOOLEAN /\ v7' = FALSE /\ UNCHANGED <<v1, v2, v3, v8>>
      BY <1>3 DEF Emtr!Boot, Emtr!emtr_start_read, EmtrFits
    <2> QED BY <2>3, <2>4 DEF EmtrFits
  <1>4. CASE Emtr!emtr_timed_out
    BY <1>4 DEF Emtr!emtr_timed_out, Emtr!emtr_start_read, EmtrFits
  <1>5. CASE Emtr!emtr_char_in
    BY <1>5, CharFits
  <1>6. CASE Emtr!Lose \/ UNCHANGED Emtr!vars
    BY <1>6 DEF Emtr!Lose, Emtr!vars, EmtrFits
  <1>7. ASSUME NEW sets \in {<<>>, <<"set">>}, NEW asks \in BOOLEAN, Emtr!emtr_handler(sets, asks)
        PROVE  EmtrFits'
    <2>1. PICK later \in {<<"get">>, <<>>} : Emtr!Send(sets, later, v9)
      BY <1>7 DEF Emtr!emtr_handler
    <2>2. sets \in Seq(Emtr!Commands) /\ later \in Seq(Emtr!Commands)
      BY <2>1, EmtrRows
    <2>3. v6' \in BOOLEAN /\ UNCHANGED <<v1, v2, v7, v8>>
      BY <1>7 DEF Emtr!emtr_handler, Emtr!emtr_start_read, EmtrFits
    <2> QED BY <1>0, <2>1, <2>2, <2>3, SendFits DEF EmtrFits
  <1> QED BY <1>1, <1>2, <1>3, <1>4, <1>5, <1>6, <1>7 DEF Emtr!Next

LEMMA EmtrTypes == ASSUME EmtrInv, EmtrFits PROVE Emtr!TypeOK
  <1>1. v2 \in [of : Emtr!Commands \cup {"none"}, got : 0..3, len : {0, 3, 4}]
    BY DEF EmtrFits, Emtr!Empty
  <1>2. v4 \in BOOLEAN /\ v10 \in BOOLEAN /\ v11 \in BOOLEAN /\ v12 \in BOOLEAN
    BY DEF EmtrInv, MeterLine, MeterPart, MeterTyped
  <1> QED BY <1>1, <1>2 DEF EmtrFits, Emtr!TypeOK

FingerFits ==
  /\ v3 \in Finger!Commands \cup {"none"} /\ v2 \in 0..FingerSends
  /\ v9 \in 0..2 /\ v8 \in Finger!Modes
  /\ v5 \in BOOLEAN /\ v7 \in BOOLEAN /\ v10 \in BOOLEAN

LEMMA FingerFitsFirst == ASSUME Finger!Init PROVE FingerFits
  <1>1. 0 \in 0..FingerSends /\ 0 \in 0..2 /\ "READ" \in Finger!Modes
    BY LinesAssumption DEF Finger!Modes
  <1>2. /\ v3 = "none" /\ v2 = 0 /\ v9 = 0 /\ v8 = "READ" /\ v5 = FALSE /\ v7 = FALSE
        /\ v10 = TRUE
    BY DEF Finger!Init
  <1> QED BY <1>1, <1>2 DEF FingerFits

LEMMA ExecuteFits ==
  ASSUME FingerFits, NEW c \in Finger!Commands, NEW line, NEW free,
         Finger!finger_execute(c, line, free)
  PROVE  v3' \in Finger!Commands \cup {"none"} /\ v2' \in 0..FingerSends
  <1>1. CASE v4
    BY <1>1, LinesAssumption DEF Finger!finger_execute, FingerFits
  <1>2. CASE ~ v4
    BY <1>2 DEF Finger!finger_execute, FingerFits
  <1> QED BY <1>1, <1>2

LEMMA FingerReads ==
  ASSUME FingerFits, Finger!finger_start_read PROVE v5' \in BOOLEAN /\ v9' \in 0..2
  BY DEF Finger!finger_start_read, FingerFits

LEMMA ReceiveFits == ASSUME FingerFits, Finger!finger_receive PROVE FingerFits'
  <1>1. PICK ok \in BOOLEAN : ok = (Head(v11)[2] = "ok")
    BY Zenon
  <1> DEFINE line == Tail(v11)
  <1>5. IF v3 \in Finger!Polling THEN Finger!Polled(ok, line) ELSE Finger!Told(ok, line)
    BY <1>1 DEF Finger!finger_receive
  <1> HIDE DEF line
  <1>2. v7' = TRUE
    BY DEF Finger!finger_receive
  <1>3. CASE Finger!Told(ok, line)
    BY <1>2, <1>3 DEF Finger!Told, Finger!NoCommand, FingerFits
  <1>4. CASE Finger!Polled(ok, line)
    <2> DEFINE b == IF v3 = "gen_img" /\ ok THEN (IF v9 = 1 THEN 2 ELSE 1) ELSE v9
               c == IF ok THEN Finger!NextOf(b) ELSE "start"
    <2>1. b \in 0..2
      BY <1>1 DEF FingerFits
    <2>2. v8' \in Finger!Modes /\ v10' \in BOOLEAN
      BY <1>1, <1>4 DEF Finger!Polled, Finger!Modes, FingerFits
    <2>3. CASE c = "start"
      <3>1. Finger!NoCommand(line) /\ Finger!finger_start_read
        BY <1>4, <2>3 DEF Finger!Polled
      <3> QED BY <1>2, <2>2, <3>1, FingerReads DEF Finger!NoCommand, FingerFits
    <2>4. CASE c = "nothing"
      <3>1. Finger!NoCommand(line) /\ v9' = b /\ v5' = v5
        BY <1>4, <2>4 DEF Finger!Polled
      <3> QED BY <1>2, <2>1, <2>2, <3>1 DEF Finger!NoCommand, FingerFits
    <2>5. CASE c \notin {"start", "nothing"}
      <3>1. Finger!finger_execute(c, line, TRUE) /\ v9' = b /\ v5' = v5
        BY <1>4, <2>5 DEF Finger!Polled
      <3>2. c \in Finger!Commands
        BY <2>5 DEF Finger!NextOf, Finger!Commands, Finger!Polling
      <3>3. v3' \in Finger!Commands \cup {"none"} /\ v2' \in 0..FingerSends
        BY <3>1, <3>2, ExecuteFits
      <3> QED BY <1>2, <2>1, <2>2, <3>1, <3>3 DEF FingerFits
    <2> QED BY <2>3, <2>4, <2>5
  <1> QED BY <1>3, <1>4, <1>5

LEMMA FingerFitsOn ==
  ASSUME FingerInv, FingerFits, Finger!Next \/ UNCHANGED Finger!vars PROVE FingerFits'
  <1>0. v1 \in Finger!Commands \cup {"none"}
    BY DEF FingerInv, FingerTyped
  <1>1. CASE Finger!finger_send
    <2>1. /\ v2 > 0 /\ v2' = v2 - 1 /\ v3' = v1
          /\ UNCHANGED <<v5, v7, v8, v9, v10>>
      BY <1>1 DEF Finger!finger_send
    <2>2. v2' \in 0..FingerSends
      BY <2>1, LinesAssumption DEF FingerFits
    <2> QED BY <1>0, <2>1, <2>2 DEF FingerFits
  <1>2. CASE Finger!finger_gen_img
    <2>1. "gen_img" \in Finger!Commands
      BY DEF Finger!Commands, Finger!Polling
    <2> QED BY <1>2, <2>1, ExecuteFits DEF Finger!finger_gen_img, FingerFits
  <1>3. ASSUME NEW c \in {"password", "params"}, Finger!Row(c) PROVE FingerFits'
    <2>1. c \in Finger!Commands
      BY DEF Finger!Commands
    <2> QED BY <1>3, <2>1, ExecuteFits DEF Finger!Row, FingerFits
  <1>4. CASE Finger!Start \/ Finger!finger_timed_out
    <2>1. UNCHANGED <<v2, v3, v7, v8, v10>> /\ Finger!finger_start_read
      BY <1>4 DEF Finger!Start, Finger!finger_timed_out
    <2> QED BY <2>1, FingerReads DEF FingerFits
  <1>5. CASE Finger!finger_receive
    BY <1>5, ReceiveFits
  <1>6. CASE Finger!WrongAddress
    BY <1>6, LinesAssumption DEF Finger!WrongAddress, FingerFits
  <1>7. CASE Finger!finger_handler
    <2>1. v8' \in Finger!Modes /\ UNCHANGED <<v7, v10>> /\ Finger!finger_start_read
      BY <1>7 DEF Finger!finger_handler, Finger!Modes
    <2>2. Finger!finger_execute("set", v11, FALSE) \/ UNCHANGED <<v2, v3>>
      BY <1>7 DEF Finger!finger_handler
    <2>3. v3' \in Finger!Commands \cup {"none"} /\ v2' \in 0..FingerSends
      <3>1. "set" \in Finger!Commands
        BY DEF Finger!Commands
      <3> QED BY <2>2, <3>1, ExecuteFits DEF FingerFits
    <2> QED BY <2>1, <2>3, FingerReads DEF FingerFits
  <1>8. CASE UNCHANGED Finger!vars
    BY <1>8 DEF Finger!vars, FingerFits
  <1> QED BY <1>1, <1>2, <1>3, <1>4, <1>5, <1>6, <1>7, <1>8 DEF Finger!Next

LEMMA FingerTypes == ASSUME FingerInv, FingerFits PROVE Finger!TypeOK
  BY DEF FingerInv, FingerTyped, FingerFits, Finger!TypeOK

\* A reading that is counted is not the last a byte counts: that one is told.
SensFits ==
  /\ v2 \in SensorRefresh /\ v3 \in BOOLEAN /\ v4 \in BOOLEAN /\ v5 \in BOOLEAN
  /\ v8 \in BOOLEAN /\ v14 \in BOOLEAN
  /\ v6 \in 0..(SensorByte - 1) /\ v7 \in 0..(SensorByte - 2) /\ v15 \in {2, 3, 6, -9, -5}

LEMMA SensCounts ==
  /\ 0 \in 0..(SensorByte - 1) /\ 0 \in 0..(SensorByte - 2)
  /\ \A c \in 0..(SensorByte - 1) : c # SensorByte - 1 => c \in 0..(SensorByte - 2)
  /\ \A c \in 0..(SensorByte - 2) : c \in 0..(SensorByte - 1) /\ c + 1 \in 0..(SensorByte - 1)
  BY SensorAssumption

LEMMA SensFitsFirst == ASSUME Sens!Init PROVE SensFits
  <1>1. /\ v2 \in SensorRefresh /\ v3 = FALSE /\ v4 = FALSE /\ v5 = FALSE /\ v8 = FALSE
        /\ v14 = FALSE /\ v6 = 0 /\ v7 = 0 /\ v15 = -9
    BY DEF Sens!Init, Sens!Unset
  <1> QED BY <1>1, SensCounts DEF SensFits

LEMMA UseFits ==
  ASSUME SensInv, SensFits, v1' = v1, NEW v \in {2, 3, 6}, NEW c \in 0..(SensorByte - 1), NEW n,
         Sens!Use(v, c, n)
  PROVE  v7' \in 0..(SensorByte - 2) /\ v15' \in {2, 3, 6, -9, -5} /\ v8' \in BOOLEAN
  <1>1. v9' = v /\ v8' = FALSE /\ Sens!Change(c)
    BY DEF Sens!Use
  <1>2. \/ v7' = 0 /\ Sens!Tell(FALSE)
        \/ c # SensorByte - 1 /\ v15' = v15 /\ v7' = c
    BY <1>1 DEF Sens!Change
  <1>3. CASE v7' = 0 /\ Sens!Tell(FALSE)
    <2>1. v15' = v9'
      BY <1>3 DEF Sens!Tell, Sens!mb_dht_set_response, Sens!mb_ping_set_response,
         Sens!mb_ain_set_response, SensInv, SensTyped
    <2> QED BY <1>1, <1>3, <2>1, SensCounts
  <1>4. CASE c # SensorByte - 1 /\ v15' = v15 /\ v7' = c
    <2>1. v7' \in 0..(SensorByte - 2)
      BY <1>4, SensCounts
    <2> QED BY <1>1, <1>4, <2>1 DEF SensFits
  <1> QED BY <1>2, <1>3, <1>4

LEMMA FailsFits ==
  ASSUME SensInv, SensFits, v1' = v1, v1 # "ain", NEW current, NEW n, Sens!ReadFails(current, n)
  PROVE  /\ v7' \in 0..(SensorByte - 2) /\ v15' \in {2, 3, 6, -9, -5} /\ v8' \in BOOLEAN
         /\ v6' \in 0..(SensorByte - 1)
  <1> DEFINE errors == (v6 + 1) % SensorByte
  <1>1. errors \in 0..(SensorByte - 1) /\ 0 \in 0..(SensorByte - 1)
    BY SensorAssumption DEF SensFits
  <1>2. /\ SensTyped /\ v7 \in 0..(SensorByte - 2) /\ v15 \in {2, 3, 6, -9, -5} /\ v8 \in BOOLEAN
        /\ v6 \in 0..(SensorByte - 1)
    BY DEF SensInv, SensFits
  <1>3. ASSUME Sens!Tell(TRUE) PROVE v15' = -5
    BY <1>2, <1>3 DEF Sens!Tell, Sens!mb_dht_set_response, Sens!mb_ping_set_response,
       Sens!Fault, SensTyped
  <1>4. \/ v9 # -1 /\ Sens!Use(v9, v7, n) /\ v6' = errors
        \/ v8' = TRUE /\ Sens!Tell(TRUE) /\ v7' = v7 /\ v6' = 0
        \/ /\ (v6' = 0 /\ Sens!Tell(TRUE)) \/ (v6' = errors /\ v15' = v15)
           /\ v7' = v7 /\ v8' = v8
    BY DEF Sens!ReadFails, Sens!NoValue
  <1> HIDE DEF errors
  <1>5. CASE v9 # -1 /\ Sens!Use(v9, v7, n) /\ v6' = errors
    <2>1. v9 \in {2, 3, 6}
      BY <1>2, <1>5 DEF SensTyped
    <2>2. PICK v, c : v = v9 /\ c = v7
      OBVIOUS
    <2>3. v \in {2, 3, 6} /\ c \in 0..(SensorByte - 1) /\ Sens!Use(v, c, n)
      BY <1>2, <1>5, <2>1, <2>2, SensCounts
    <2> QED BY <1>1, <1>5, <2>3, UseFits
  <1>6. CASE v8' = TRUE /\ Sens!Tell(TRUE) /\ v7' = v7 /\ v6' = 0
    BY <1>1, <1>2, <1>3, <1>6
  <1>7. CASE /\ (v6' = 0 /\ Sens!Tell(TRUE)) \/ (v6' = errors /\ v15' = v15)
             /\ v7' = v7 /\ v8' = v8
    BY <1>1, <1>2, <1>3, <1>7
  <1> QED BY <1>4, <1>5, <1>6, <1>7

LEMMA UpdateFits ==
  ASSUME SensInv, SensFits, v1' = v1, NEW n, Sens!Update(n)
  PROVE  /\ v7' \in 0..(SensorByte - 2) /\ v15' \in {2, 3, 6, -9, -5} /\ v8' \in BOOLEAN
         /\ v6' \in 0..(SensorByte - 1) /\ v14' \in BOOLEAN
  <1>1. v14' \in BOOLEAN
    BY DEF Sens!Update
  <1>2. ASSUME Sens!ReadOk({2, 3, 6}, n)
        PROVE  /\ v7' \in 0..(SensorByte - 2) /\ v15' \in {2, 3, 6, -9, -5} /\ v8' \in BOOLEAN
               /\ v6' \in 0..(SensorByte - 1)
    <2>1. PICK v \in {2, 3, 6} : Sens!Use(v, v7 + 1, n)
      BY <1>2 DEF Sens!ReadOk
    <2>2. PICK c : c = v7 + 1
      OBVIOUS
    <2>3. c \in 0..(SensorByte - 1) /\ Sens!Use(v, c, n)
      BY <2>1, <2>2, SensCounts DEF SensFits
    <2>4. v6' = 0
      BY <1>2 DEF Sens!ReadOk
    <2> QED BY <2>3, <2>4, UseFits, SensCounts
  <1>3. \/ Sens!ReadOk({2, 3, 6}, n)
        \/ v1 # "ain" /\ \E current : Sens!ReadFails(current, n)
    BY DEF Sens!Update, Sens!dht_timer_update, Sens!ping_timer_update, Sens!mb_ain_update,
           Sens!dht_read_from_sensor, Sens!ping_read_from_sensor, Sens!mb_ain_read, Sens!Readings
  <1> QED BY <1>1, <1>2, <1>3, FailsFits

LEMMA SensFitsOn ==
  ASSUME SensInv, SensFits, Sens!Next \/ UNCHANGED Sens!vars PROVE SensFits'
  <1>1. /\ v2' \in SensorRefresh /\ v3' \in BOOLEAN /\ v4' \in BOOLEAN /\ v5' \in BOOLEAN
        /\ v1' = v1
    BY DEF SensFits, Sens!Next, Sens!vars, Sens!Tick, Sens!mb_dht_handler, Sens!mb_ping_handler,
       Sens!mb_ain_handler, Sens!Settings, Sens!NoCommand, Sens!mb_dht_timer_init,
       Sens!mb_ping_timer_init, Sens!mb_ain_timer_init, Sens!Started, Sens!Stopped,
       Sens!mb_dht_init, Sens!mb_ping_init, Sens!mb_ain_init, Sens!AtStart
  <1>2. Sens!Quiet \/ \E n : Sens!Update(n)
    BY DEF Sens!Next, Sens!vars, Sens!Tick, Sens!mb_dht_handler, Sens!mb_ping_handler,
       Sens!mb_ain_handler, Sens!NoCommand, Sens!mb_dht_timer_init,
       Sens!mb_ping_timer_init, Sens!mb_ain_timer_init, Sens!Started, Sens!Stopped,
       Sens!mb_dht_init, Sens!mb_ping_init, Sens!mb_ain_init, Sens!Quiet
  <1>3. CASE Sens!Quiet
    BY <1>1, <1>3 DEF Sens!Quiet, SensFits
  <1>4. CASE \E n : Sens!Update(n)
    <2>1. PICK n : Sens!Update(n)
      BY <1>4
    <2> QED BY <1>1, <2>1, UpdateFits DEF SensFits
  <1> QED BY <1>2, <1>3, <1>4

LEMMA SensTypes == ASSUME SensInv, SensFits PROVE Sens!TypeOK
  BY SensCounts DEF SensInv, SensTyped, SensFits, Sens!TypeOK, Sens!Readings,
     Sens!NoValue, Sens!Unset, Sens!Fault

ModsAnswers == {<<"none">>, <<"error">>} \cup {<<"ok", v>> : v \in Mods!Values}

ModsFits ==
  /\ v1 \in Mods!Kinds /\ v3 \in BOOLEAN /\ v8 \in BOOLEAN
  /\ v4 \in Mods!Values /\ v5 \in Mods!Values /\ v7 \in Mods!Values /\ v6 \in ModsAnswers

LEMMA ModsFitsFirst == ASSUME Mods!Init PROVE ModsFits
  BY DEF Mods!Init, Mods!Zero, Mods!Values, ModsAnswers, ModsFits

\* What is read into values, or moved between them, are values.
LEMMA ModsMoves ==
  ASSUME NEW s \in Mods!Values, NEW r \in Mods!Values
  PROVE  /\ \A n : Mods!ReadInto(s, r, n) \in Mods!Values
         /\ \A n, way : Mods!Moved(s, r, n, way) \in Mods!Values
  <1>2. ASSUME NEW n PROVE Mods!ReadInto(s, r, n) \in Mods!Values
    BY DEF Mods!ReadInto, Mods!Values
  <1>3. ASSUME NEW n, NEW way PROVE Mods!Moved(s, r, n, way) \in Mods!Values
    BY DEF Mods!Moved, Mods!Values
  <1> QED BY <1>2, <1>3

LEMMA ModsFinish ==
  ASSUME ModsFits, NEW s \in Mods!Values, NEW n, NEW raise \in BOOLEAN, Mods!Finish(s, n, raise)
  PROVE  v4' \in Mods!Values /\ v5' \in Mods!Values /\ v7' \in Mods!Values /\ v6' \in ModsAnswers
  <1>1. v4' \in Mods!Values /\ v5' \in Mods!Values
    <2>1. v4' = Mods!Moved(s, v5, n, "read") /\ v5' = Mods!Moved(s, v5, n, "write")
      BY DEF Mods!Finish
    <2> QED BY <2>1, ModsMoves DEF ModsFits
  <1>2. \/ v6' = <<"ok", v4'>> /\ (v7' = v4' \/ v7' = v7)
        \/ v6' = <<"error">> /\ v7' = v7
    BY DEF Mods!Finish
  <1> QED BY <1>1, <1>2 DEF ModsFits, ModsAnswers

LEMMA ModsFitsOn ==
  ASSUME ModsFits, Mods!Next \/ UNCHANGED Mods!vars PROVE ModsFits'
  <1>0. \A n : Mods!ReadInto(v4, v5, n) \in Mods!Values
    BY ModsMoves DEF ModsFits
  <1>1. CASE Mods!Post
    <2>1. PICK v, n :
            /\ v \in [Mods!Handler.posts -> {0, 1}]
            /\ Mods!Finish([f \in Mods!Fields |->
                              IF f \in Mods!Handler.posts THEN v[f]
                              ELSE Mods!ReadInto(v4, v5, Len(Mods!Reads(v1)))[f]], n, TRUE)
      BY <1>1 DEF Mods!Post
    <2>2. PICK s : s = [f \in Mods!Fields |->
                          IF f \in Mods!Handler.posts THEN v[f]
                          ELSE Mods!ReadInto(v4, v5, Len(Mods!Reads(v1)))[f]]
      OBVIOUS
    <2>3. s \in Mods!Values
      BY <1>0, <2>1, <2>2 DEF Mods!Values
    <2>4. Mods!Finish(s, n, TRUE)
      BY <2>1, <2>2
    <2>5. /\ v1' = v1 /\ v3' = TRUE /\ v8' \in Mods!Handler.polls
      BY <1>1 DEF Mods!Post
    <2>6. v8' \in BOOLEAN
      <3>1. /\ v1 = "rgb" => Mods!Handler = Mods!mod_rgb_handler
            /\ v1 = "io2" => Mods!Handler = Mods!mod_io2_handler
            /\ v1 = "irda" => Mods!Handler = Mods!mod_irda_handler
            /\ v1 = "dimmer" => Mods!Handler = Mods!dimmer_handler
        BY DEF Mods!Handler
      <3>2. v1 \in {"rgb", "io2", "irda", "dimmer"}
        BY DEF ModsFits, Mods!Kinds
      <3>3. /\ Mods!mod_rgb_handler.polls = {FALSE} /\ Mods!mod_io2_handler.polls = {FALSE}
            /\ Mods!mod_irda_handler.polls = {FALSE} /\ Mods!dimmer_handler.polls = BOOLEAN
        BY DEF Mods!mod_rgb_handler, Mods!mod_io2_handler, Mods!mod_irda_handler,
           Mods!dimmer_handler
      <3> QED BY <2>5, <3>1, <3>2, <3>3, Zenon
    <2> QED BY <2>3, <2>4, <2>5, <2>6, ModsFinish DEF ModsFits
  <1>2. CASE Mods!Get
    <2>1. v1' = v1 /\ v3' = TRUE /\ v8' = v8
      BY <1>2 DEF Mods!Get
    <2>2. CASE \E n : Mods!Finish(v4, n, FALSE)
      <3>1. PICK n : Mods!Finish(v4, n, FALSE)
        BY <2>2
      <3>2. PICK s : s = v4
        OBVIOUS
      <3>3. s \in Mods!Values /\ Mods!Finish(s, n, FALSE)
        BY <3>1, <3>2 DEF ModsFits
      <3> QED BY <2>1, <3>3, ModsFinish DEF ModsFits
    <2>3. CASE /\ v4' = Mods!ReadInto(v4, v5, Len(Mods!Reads(v1)))
               /\ v6' = <<"ok", v4'>> /\ UNCHANGED <<v5, v7>>
      <3>1. v4' \in Mods!Values
        BY <1>0, <2>3
      <3>2. v6' \in ModsAnswers
        BY <2>3, <3>1 DEF ModsAnswers
      <3> QED BY <2>1, <2>3, <3>1, <3>2 DEF ModsFits
    <2> QED BY <1>2, <2>2, <2>3 DEF Mods!Get
  <1>3. ASSUME NEW n, Mods!Found(n) PROVE v3' \in BOOLEAN /\ v4' \in Mods!Values
    BY <1>0, <1>3 DEF Mods!Found
  <1>4. ASSUME Mods!NotFound PROVE v3' \in BOOLEAN /\ v4' \in Mods!Values
    BY <1>4 DEF Mods!NotFound, ModsFits
  <1>5. CASE Mods!Refuse
    <2>1. v3' \in BOOLEAN /\ v4' \in Mods!Values
      BY <1>3, <1>4, <1>5 DEF Mods!Refuse, Mods!Failed
    <2>2. v6' = <<"error">> /\ UNCHANGED <<v1, v5, v7, v8>>
      BY <1>5 DEF Mods!Refuse, Mods!Failed
    <2> QED BY <2>1, <2>2 DEF ModsFits, ModsAnswers
  <1>6. CASE Mods!dimmer_event
    <2>1. v3' \in BOOLEAN /\ v4' \in Mods!Values
      BY <1>3, <1>4, <1>6 DEF Mods!dimmer_event
    <2>2. UNCHANGED <<v1, v5, v6, v8>> /\ (v7' = v7 \/ v7' = v4')
      BY <1>6 DEF Mods!dimmer_event
    <2> QED BY <2>1, <2>2 DEF ModsFits
  <1>7. CASE Mods!user_dimmer_init
    <2>1. v3' \in BOOLEAN /\ v4' \in Mods!Values
      BY <1>3, <1>7 DEF Mods!user_dimmer_init
    <2>2. UNCHANGED <<v1, v5, v6>> /\ v7' = v4' /\ v8' = TRUE
      BY <1>7 DEF Mods!user_dimmer_init
    <2> QED BY <2>1, <2>2 DEF ModsFits
  <1>8. CASE Mods!Replug
    BY <1>8 DEF Mods!Replug, ModsFits, Mods!Zero, Mods!Values
  <1>9. CASE Mods!Turn
    <2>1. UNCHANGED <<v1, v3, v4, v6, v7, v8>>
      BY <1>9 DEF Mods!Turn
    <2>2. v5' \in Mods!Values
      <3>1. PICK f : v5' = [v5 EXCEPT ![f] = 1 - @]
        BY <1>9 DEF Mods!Turn
      <3>2. v5 \in [Mods!Fields -> {0, 1}]
        BY DEF ModsFits, Mods!Values
      <3>3. \A e \in {0, 1} : 1 - e \in {0, 1}
        OBVIOUS
      <3>4. ASSUME NEW e \in Mods!Fields PROVE v5'[e] \in {0, 1}
        <4>1. v5'[e] = IF e = f THEN 1 - v5[e] ELSE v5[e]
          BY <3>1, <3>2
        <4> QED BY <3>2, <3>3, <4>1
      <3> QED BY <3>1, <3>2, <3>4 DEF Mods!Values
    <2> QED BY <2>1, <2>2 DEF ModsFits
  <1>10. CASE UNCHANGED Mods!vars
    BY <1>10 DEF Mods!vars, ModsFits
  <1> QED BY <1>1, <1>2, <1>5, <1>6, <1>7, <1>8, <1>9, <1>10 DEF Mods!Next

LEMMA ModsTypes == ASSUME ModsInv, ModsFits PROVE Mods!TypeOK
  BY DEF ModsInv, ModsFits, ModsAnswers, Mods!TypeOK

SerialFits ==
  /\ v4 \in Serial!Chars \cup {"none"} /\ v5 \in BOOLEAN
  /\ v6 \in Seq(Serial!Chars) /\ Len(v6) <= DebugBuffer - 2
  /\ v7 \in BOOLEAN /\ v8 \in BOOLEAN /\ v13 \in BOOLEAN /\ v15 \in BOOLEAN
  /\ v9 \in 0..SerialFifo /\ v14 \in 0..1 /\ (v13 => v14 = 0)

LEMMA SerialFitsFirst == ASSUME Serial!Init PROVE SerialFits
  <1>1. /\ v4 = "none" /\ v5 = FALSE /\ v6 = <<>> /\ v7 = FALSE /\ v8 = FALSE /\ v13 = TRUE
        /\ v15 = TRUE /\ v9 = 0 /\ v14 = 0
    BY DEF Serial!Init
  <1>2. v6 \in Seq(Serial!Chars) /\ Len(v6) <= DebugBuffer - 2
    <2>1. Len(<<>>) = 0
      OBVIOUS
    <2> QED BY <1>1, <2>1, SerialAssumption
  <1>3. 0 \in 0..SerialFifo /\ 0 \in 0..1
    BY SerialAssumption
  <1> QED BY <1>1, <1>2, <1>3 DEF SerialFits

LEMMA CutFits ==
  ASSUME NEW b \in Seq(Serial!Chars), Serial!Cut(b), Len(b) <= DebugBuffer - 1
  PROVE  v6' \in Seq(Serial!Chars) /\ Len(v6') <= DebugBuffer - 2
  <1> DEFINE C == Serial!Chars
             k == Serial!LastLine(b)
  <1>1. Len(b) \in Nat /\ k \in 0..Len(b) /\ \A i \in 1..Len(b) : b[i] \in C
    BY LastLineIn, LenProperties, ElementOfSeq
  <1>2. CASE k = 0
    <2>1. v6' = <<>>
      BY <1>2 DEF Serial!Cut
    <2>2. Len(<<>>) = 0
      OBVIOUS
    <2> QED BY <2>1, <2>2, SerialAssumption
  <1>3. CASE k # 0
    <2>1. v6' = SubSeq(b, k + 1, Len(b))
      BY <1>3 DEF Serial!Cut
    <2> HIDE DEF C, k
    <2>2. k + 1 \in Int /\ Len(b) \in Int /\ \A i \in (k + 1)..Len(b) : b[i] \in C
      BY <1>1
    <2>3. /\ SubSeq(b, k + 1, Len(b)) \in Seq(C)
          /\ Len(SubSeq(b, k + 1, Len(b))) = IF k + 1 <= Len(b) THEN Len(b) - (k + 1) + 1 ELSE 0
      BY <2>2, SubSeqProperties
    <2> QED BY <1>1, <1>3, <2>1, <2>3, SerialAssumption DEF C
  <1> QED BY <1>2, <1>3

LEMMA SerialFitsOn ==
  ASSUME SerialInv, SerialFits, Serial!Next \/ UNCHANGED Serial!vars PROVE SerialFits'
  <1>1. ASSUME NEW p \in Serial!Ports, NEW c \in Serial!Chars, Serial!uart_write_char(p, c)
        PROVE  SerialFits'
    BY <1>1 DEF SerialFits, Serial!uart_write_char, Serial!debugVars, Serial!inVars
  <1>2. ASSUME NEW c \in {"a", "lf"}, Serial!wifi_write_char(c) PROVE SerialFits'
    <2>1. UNCHANGED <<v4, v5, v9, v13, v14, v15>> /\ v7' \in BOOLEAN /\ v8' \in BOOLEAN
      BY <1>2 DEF Serial!wifi_write_char, Serial!outVars, Serial!inVars
    <2>2. c \in Serial!Chars /\ v6 \in Seq(Serial!Chars) /\ Len(v6) <= DebugBuffer - 2
      BY DEF SerialFits, Serial!Chars
    <2>3. PICK b : b = Append(v6, c)
      OBVIOUS
    <2>4. b \in Seq(Serial!Chars) /\ Len(b) = Len(v6) + 1 /\ Len(v6) \in Nat
      BY <2>2, <2>3
    <2>5. (Len(v6) + 1 # DebugBuffer - 1 /\ v6' = b) \/ Serial!Cut(b)
      BY <1>2, <2>3 DEF Serial!wifi_write_char
    <2>6. v6' \in Seq(Serial!Chars) /\ Len(v6') <= DebugBuffer - 2
      <3>1. CASE Serial!Cut(b)
        BY <2>2, <2>4, <3>1, CutFits, SerialAssumption
      <3>2. CASE Len(v6) + 1 # DebugBuffer - 1 /\ v6' = b
        BY <2>2, <2>4, <3>2, SerialAssumption
      <3> QED BY <2>5, <3>1, <3>2
    <2> QED BY <2>1, <2>6 DEF SerialFits
  <1>3. CASE Serial!wifi_debug_flush
    <2>1. /\ UNCHANGED <<v4, v5, v9, v13, v14, v15>> /\ v7' = FALSE /\ v8' = FALSE /\ v6' = <<>>
      BY <1>3 DEF Serial!wifi_debug_flush, Serial!outVars, Serial!inVars
    <2>2. v6' \in Seq(Serial!Chars) /\ Len(v6') <= DebugBuffer - 2
      <3>1. Len(<<>>) = 0
        OBVIOUS
      <3> QED BY <2>1, <3>1, SerialAssumption
    <2> QED BY <2>1, <2>2 DEF SerialFits
  <1>4. CASE Serial!Receive
    <2>1. UNCHANGED <<v4, v5, v6, v7, v8, v13, v14, v15>>
      BY <1>4 DEF Serial!Receive, Serial!outVars, Serial!debugVars
    <2>2. v9' = v9 \/ (v9 < SerialFifo /\ v9' = v9 + 1)
      BY <1>4 DEF Serial!Receive
    <2>3. v9' \in 0..SerialFifo
      BY <2>2, SerialAssumption DEF SerialFits
    <2> QED BY <2>1, <2>3 DEF SerialFits
  <1>5. CASE Serial!uart_rx_intr_handler
    <2>1. UNCHANGED <<v4, v5, v6, v7, v8, v9, v15>> /\ v13 /\ v13' = FALSE /\ v14' = v14 + 1
      BY <1>5 DEF Serial!uart_rx_intr_handler, Serial!outVars, Serial!debugVars
    <2>2. v14' \in 0..1
      BY <2>1 DEF SerialFits
    <2>3. v13' \in BOOLEAN /\ (v13' => v14' = 0)
      BY <2>1
    <2> QED BY <2>1, <2>2, <2>3 DEF SerialFits
  <1>6. CASE Serial!uart_recv
    <2>1. UNCHANGED <<v4, v5, v6, v7, v8, v15>> /\ v13' = TRUE /\ v14' = v14 - 1 /\ v14 > 0
      BY <1>6 DEF Serial!uart_recv, Serial!outVars, Serial!debugVars
    <2>2. v14' = 0
      BY <2>1 DEF SerialFits
    <2>3. v9' \in 0..SerialFifo
      <3>1. v9' = v9 \/ v9' \in 0..(SerialFifo - v9)
        BY <1>6 DEF Serial!uart_recv
      <3> QED BY <3>1, SerialAssumption DEF SerialFits
    <2> QED BY <2>1, <2>2, <2>3 DEF SerialFits
  <1>7. CASE Serial!uart_char_in_set
    BY <1>7 DEF SerialFits, Serial!uart_char_in_set, Serial!outVars, Serial!debugVars
  <1>8. CASE UNCHANGED Serial!vars
    BY <1>8 DEF SerialFits, Serial!vars
  <1> QED BY <1>1, <1>2, <1>3, <1>4, <1>5, <1>6, <1>7, <1>8 DEF Serial!Next

LEMMA SerialTypes == ASSUME SerialFits PROVE Serial!TypeOK
  BY DEF SerialFits, Serial!TypeOK

GaugeFits ==
  /\ v2 \in 0..MaxAdc /\ v3 \in BOOLEAN /\ v4 \in -1..MaxAdc /\ v6 \in 0..MaxAdc
  /\ IF v1 = "battery" THEN v5 \in [state : BOOLEAN, percent : 0..Percent] ELSE v5 \in 0..MaxAdc

LEMMA GaugeFitsFirst == ASSUME Gauge!Init PROVE GaugeFits
  <1>1. /\ v2 \in 0..MaxAdc /\ v3 = FALSE /\ v4 = -1 /\ v6 = 0
        /\ v1 = "battery" => v5 = [state |-> FALSE, percent |-> 0]
        /\ v1 # "battery" => v5 = 0
    BY DEF Gauge!Init
  <1>2. 0 \in 0..MaxAdc /\ -1 \in -1..MaxAdc /\ 0 \in 0..Percent
    BY GaugeAssumption
  <1>3. IF v1 = "battery" THEN v5 \in [state : BOOLEAN, percent : 0..Percent] ELSE v5 \in 0..MaxAdc
    <2>1. CASE v1 = "battery"
      <3>1. v5 = [state |-> FALSE, percent |-> 0]
        BY <1>1, <2>1
      <3>2. v5 \in [state : BOOLEAN, percent : 0..Percent]
        BY ONLY <1>2, <3>1
      <3> QED BY <2>1, <3>2
    <2>2. CASE v1 # "battery"
      BY <1>1, <1>2, <2>2
    <2> QED BY <2>1, <2>2
  <1> QED BY ONLY <1>1, <1>2, <1>3 DEF GaugeFits

\* A filter's step stays among what is read.
LEMMA FiltersFit ==
  ASSUME NEW m \in Nat \ {0}, NEW top \in Nat, NEW w \in 0..top, NEW r \in 0..top
  PROVE  w - w \div m + r \div m \in 0..top
  <1>1. PICK a, b, c : a = w \div m /\ b = r \div m /\ c = top \div m
    OBVIOUS
  <1>2. a \in Int /\ b \in Int /\ c \in Int
    BY <1>1
  <1>3. m * a <= w /\ w < m * a + m /\ m * b <= r /\ r < m * b + m /\ m * c <= top /\ top < m * c + m
    BY <1>1
  <1>4. a <= w /\ 0 <= b
    <2>1. 0 <= a /\ 0 <= b
      <3>1. \A q \in Int : q <= -1 => m * q + m <= 0
        <4> TAKE q \in Int
        <4>1. q <= -1 => m * (q + 1) <= 0
          OBVIOUS
        <4>2. m * (q + 1) = m * q + m
          OBVIOUS
        <4> QED BY <4>1, <4>2
      <3> QED BY <1>2, <1>3, <3>1
    <2>2. a <= m * a
      BY <1>2, <2>1
    <2> QED BY <1>2, <1>3, <2>1, <2>2
  <1>5. b <= c
    <2>1. SUFFICES ASSUME c + 1 <= b PROVE FALSE
      BY <1>2
    <2>2. m * (c + 1) <= m * b
      BY <1>2, <2>1
    <2>3. m * (c + 1) = m * c + m
      BY <1>2
    <2> QED BY <1>2, <1>3, <2>2, <2>3
  <1>6. c - a <= top - w
    <2>1. SUFFICES ASSUME top - w < c - a PROVE FALSE
      BY <1>2
    <2>2. PICK d \in Int : d = c - a - 1
      BY <1>2
    <2>3. d >= 0 /\ m * d >= d
      BY <1>2, <2>1, <2>2
    <2>4. m * d = m * c - m * a - m
      BY <1>2, <2>2
    <2> QED BY <1>2, <1>3, <2>1, <2>2, <2>3, <2>4
  <1> QED BY <1>1, <1>2, <1>4, <1>5, <1>6

\* A part of a whole is at most all of it.
LEMMA PartOfWhole ==
  ASSUME NEW s \in Nat, NEW d \in Nat \ {0}, NEW a \in 0..d
  PROVE  (s * a) \div d \in 0..s
  <1>1. PICK q : q = (s * a) \div d
    OBVIOUS
  <1>2. PICK p \in Int : p = s * a
    OBVIOUS
  <1>3. q \in Int /\ d * q <= p /\ p < d * q + d
    BY <1>1, <1>2
  <1>4. 0 <= p /\ p <= d * s
    BY <1>2
  <1>5. 0 <= q
    <2>1. SUFFICES ASSUME q + 1 <= 0 PROVE FALSE
      BY <1>3
    <2>2. d * (q + 1) <= 0 /\ d * (q + 1) = d * q + d
      BY <1>3, <2>1
    <2> QED BY <1>3, <1>4, <2>2
  <1>6. q <= s
    <2>1. SUFFICES ASSUME s + 1 <= q PROVE FALSE
      BY <1>3
    <2>2. d * (s + 1) <= d * q /\ d * (s + 1) = d * s + d
      BY <1>3, <2>1
    <2> QED BY <1>3, <1>4, <2>2
  <1> QED BY <1>1, <1>3, <1>5, <1>6

LEMMA AdcFits == ASSUME GaugeFits, Gauge!battery_adc_filter PROVE v4' \in 0..MaxAdc
  <1>1. PICK m : m = 2^AdcShift
    OBVIOUS
  <1>2. PICK w : w = IF v4 = -1 THEN v2 ELSE v4
    OBVIOUS
  <1>3. v4' = w - w \div m + v2 \div m
    BY <1>1, <1>2 DEF Gauge!battery_adc_filter, Gauge!Filter, Gauge!Shifted
  <1>4. /\ m \in Nat \ {0} /\ MaxAdc \in Nat /\ v2 \in 0..MaxAdc
        /\ w \in 0..MaxAdc
    BY <1>1, <1>2, GaugeAssumption DEF GaugeFits
  <1> QED BY ONLY <1>3, <1>4, FiltersFit

LEMMA PercentFits ==
  ASSUME v4' \in Int PROVE Gauge!battery_percent_get \in 0..Percent
  <1>0. EmptyAt \in Nat /\ FullAt \in Nat /\ Percent \in Nat
    BY GaugeAssumption
  <1>1. CASE v4' <= EmptyAt
    BY <1>0, <1>1 DEF Gauge!battery_percent_get
  <1>2. CASE ~ (v4' <= EmptyAt) /\ v4' >= FullAt
    BY <1>0, <1>2 DEF Gauge!battery_percent_get
  <1>3. CASE ~ (v4' <= EmptyAt) /\ ~ (v4' >= FullAt)
    <2>1. Gauge!battery_percent_get = (Percent * (v4' - EmptyAt)) \div (FullAt - EmptyAt)
      BY <1>3 DEF Gauge!battery_percent_get
    <2>2. PICK a, d : a = v4' - EmptyAt /\ d = FullAt - EmptyAt
      OBVIOUS
    <2>3. d \in Nat \ {0} /\ a \in 0..d
      <3>1. PICK x \in Int : x = v4'
        OBVIOUS
      <3>2. x > EmptyAt /\ x < FullAt
        BY <1>0, <1>3, <3>1
      <3>3. a = x - EmptyAt /\ d = FullAt - EmptyAt
        BY <2>2, <3>1
      <3> QED BY ONLY <1>0, <3>2, <3>3, x \in Int
    <2>4. (Percent * a) \div d \in 0..Percent
      BY ONLY <1>0, <2>3, PartOfWhole
    <2> QED BY <2>1, <2>2, <2>4
  <1> QED BY <1>1, <1>2, <1>3

LEMMA GaugeFitsOn ==
  ASSUME GaugeInv, GaugeFits, Gauge!Next \/ UNCHANGED Gauge!vars PROVE GaugeFits'
  <1>0. MaxAdc \in Nat
    BY GaugeAssumption
  <1>1. CASE Gauge!World
    <2>1. v2' \in 0..MaxAdc /\ v3' \in BOOLEAN /\ UNCHANGED <<v1, v4, v5, v6>>
      BY <1>1 DEF Gauge!World
    <2> QED BY <2>1 DEF GaugeFits
  <1>2. ASSUME Gauge!battery_adc_filter, v1 = "battery", UNCHANGED <<v1, v2, v3, v6>>,
               \/ v5' = v5
               \/ v5' = [state |-> v3, percent |-> Gauge!battery_percent_get]
        PROVE  GaugeFits'
    <2>1. v4' \in 0..MaxAdc
      BY <1>2, AdcFits
    <2>2. Gauge!battery_percent_get \in 0..Percent
      BY <1>0, <2>1, PercentFits
    <2>3. v4' \in -1..MaxAdc
      BY <1>0, <2>1
    <2>4. v5' \in [state : BOOLEAN, percent : 0..Percent]
      BY <1>2, <2>2 DEF GaugeFits
    <2> QED BY <1>2, <2>3, <2>4 DEF GaugeFits
  <1>3. CASE Gauge!battery_state_get
    <2>1. \/ v5' = v5
          \/ v5' = [state |-> v3, percent |-> Gauge!battery_percent_get]
      BY <1>3 DEF Gauge!battery_state_get
    <2> QED BY <1>2, <1>3, <2>1 DEF Gauge!battery_state_get
  <1>4. CASE Gauge!battery_handler
    BY <1>2, <1>4 DEF Gauge!battery_handler
  <1>5. CASE Gauge!adc_update
    <2>1. /\ v1 = "adc" /\ UNCHANGED <<v1, v2, v3, v4>> /\ v5' = v2 /\ (v6' = v5' \/ v6' = v6)
      BY <1>5 DEF Gauge!adc_update
    <2> QED BY <2>1 DEF GaugeFits
  <1>6. CASE Gauge!adc_handler
    <2>1. /\ v1 = "adc" /\ UNCHANGED <<v1, v2, v3, v4, v6>> /\ v5' = v2
      BY <1>6 DEF Gauge!adc_handler
    <2> QED BY <2>1 DEF GaugeFits
  <1>7. CASE UNCHANGED Gauge!vars
    BY <1>7 DEF Gauge!vars, GaugeFits
  <1> QED BY <1>1, <1>3, <1>4, <1>5, <1>6, <1>7 DEF Gauge!Next

LEMMA GaugeTypes == ASSUME GaugeInv, GaugeFits PROVE Gauge!TypeOK
  <1>1. v7 \in 0..(2^GaugeBits - 1)
    <2>1. PICK w : w = 2^GaugeBits
      OBVIOUS
    <2>2. w \in Nat /\ v7 \in Nat /\ v7 < w
      BY <2>1, GaugeAssumption DEF GaugeInv, GaugeTyped
    <2>3. v7 \in 0..(w - 1)
      BY <2>2
    <2> QED BY <2>1, <2>3
  <1> QED BY <1>1 DEF GaugeFits, Gauge!TypeOK

RegsFits ==
  /\ v1 \in {"event", "calibration", "count"} /\ v2 \in {"log", "configure", "calibration"}
  /\ v6 \subseteq {"block", "address", "counter"} /\ v8 \subseteq Registers \cup {"counter"}
  /\ v5 \in BOOLEAN /\ v9 \in BOOLEAN /\ v10 \in -1..MaxPower /\ v11 \in -1..MaxPower
  /\ v1 = "count" => v3 \in 0..MaxCount /\ v4 \in 0..MaxCount /\ v7 \subseteq 0..MaxCount

LEMMA RegsFitsFirst == ASSUME Regs!Init PROVE RegsFits
  <1>1. /\ v1 \in {"event", "calibration", "count"} /\ v2 = "log" /\ v8 = {} /\ v7 = {}
        /\ v5 = FALSE /\ v9 = FALSE /\ v10 = -1 /\ v11 = -1
        /\ v6 = {"address"} \/ v6 = {"block"}
        /\ v1 = "count" => v3 = 2 /\ v4 = 0
    BY DEF Regs!Init, Regs!Blocks, Regs!FirstCount
  <1>2. -1 \in -1..MaxPower /\ 2 \in 0..MaxCount /\ 0 \in 0..MaxCount
    BY RegistersAssumption
  <1>3. v6 \subseteq {"block", "address", "counter"}
    BY <1>1
  <1> QED BY ONLY <1>1, <1>2, <1>3 DEF RegsFits

\* The answer of a block, and what is written, are the blocks'.
LEMMA RegsFitsOn ==
  ASSUME RegsFits, Regs!Next \/ UNCHANGED Regs!vars PROVE RegsFits'
  <1>1. ASSUME NEW new, Regs!Answered(new), v1 # "count" PROVE RegsFits'
    <2>1. /\ UNCHANGED <<v1, v2, v8, v9, v10, v11>> /\ v6' \subseteq v6
          /\ v5' \in {TRUE, FALSE, v5}
      BY <1>1 DEF Regs!Answered
    <2> QED BY <1>1, <2>1 DEF RegsFits
  <1>2. CASE Regs!emtr_event_done \/ Regs!emtr_calibration_done
    BY <1>1, <1>2 DEF Regs!emtr_event_done, Regs!emtr_calibration_done
  <1>3. CASE Regs!emtr_set_event \/ Regs!emtr_set_calibration \/ Regs!emtr_set_counter
    <2>1. PICK w \in v7 : /\ v7' = v7 \ {w} /\ v3' \in {w, v3}
                          /\ UNCHANGED <<v1, v2, v4, v5, v6, v8, v9, v10, v11>>
      BY <1>3 DEF Regs!emtr_set_event, Regs!emtr_set_calibration, Regs!emtr_set_counter, Regs!Write
    <2> QED BY <2>1 DEF RegsFits
  <1>4. CASE Regs!Post
    <2>1. PICK f, v : Regs!PostEvent(f, v) \/ Regs!PostCalibration(f, v)
      BY <1>4 DEF Regs!Post
    <2>2. /\ v2' \in {"log", "configure", "calibration"} /\ UNCHANGED <<v1, v5, v10, v11>>
          /\ v6' = v6 \cup {"block"} \/ v6' = v6
      BY <1>4 DEF Regs!Post, Regs!AskLater
    <2>3. v1 # "count" /\ v9' \in BOOLEAN
      BY <2>1 DEF Regs!PostEvent, Regs!PostCalibration, Regs!SendAll, RegsFits
    <2>4. v8' = v8 \/ (f \in Registers /\ v8' = v8 \cup {f})
      BY <2>1 DEF Regs!PostEvent, Regs!PostCalibration, Regs!SetField
    <2>5. v8' \subseteq Registers \cup {"counter"} /\ v6' \subseteq {"block", "address", "counter"}
      BY <2>2, <2>4 DEF RegsFits
    <2> QED BY <2>2, <2>3, <2>5 DEF RegsFits
  <1>5. CASE Regs!Get
    <2>1. /\ v1 # "count" /\ UNCHANGED <<v1, v2, v5, v8, v9, v10, v11>>
          /\ v6' = v6 \cup {"block"} \/ v6' = v6
      BY <1>5 DEF Regs!Get, Regs!AskLater, Regs!Blocks
    <2>2. v6' \subseteq {"block", "address", "counter"}
      BY <2>1 DEF RegsFits
    <2> QED BY <2>1, <2>2 DEF RegsFits
  <1>6. CASE Regs!emtr_address_receive
    <2>1. /\ UNCHANGED <<v1, v2, v3, v4, v5, v7, v8, v9, v10, v11>>
          /\ v6' \subseteq v6 \cup {"counter"}
      BY <1>6 DEF Regs!emtr_address_receive
    <2>2. v6' \subseteq {"block", "address", "counter"}
      BY <2>1 DEF RegsFits
    <2> QED BY <2>1, <2>2 DEF RegsFits
  <1>7. CASE Regs!emtr_counter_receive
    <2>1. /\ UNCHANGED <<v1, v2, v3, v7, v8, v9, v10, v11>> /\ v6' \subseteq v6
          /\ v5' \in {TRUE, FALSE, v5} /\ v4' \in {v3, 0, v4}
      BY <1>7 DEF Regs!emtr_counter_receive
    <2>2. v1 = "count" => v4' \in 0..MaxCount
      BY <2>1, RegistersAssumption DEF RegsFits
    <2> QED BY <2>1, <2>2 DEF RegsFits
  <1>8. CASE Regs!PostCounter
    <2>1. /\ UNCHANGED <<v1, v2, v3, v5, v6, v9, v10, v11>> /\ v4' \in 0..1
          /\ v7' = v7 \cup {v4'} /\ v8' = {"counter"} /\ v1 = "count"
      BY <1>8 DEF Regs!PostCounter
    <2>2. v4' \in 0..MaxCount
      BY <2>1, RegistersAssumption
    <2>3. v7' \subseteq 0..MaxCount
      BY <2>1, <2>2 DEF RegsFits
    <2> QED BY <2>1, <2>2, <2>3 DEF RegsFits
  <1>9. CASE Regs!emtr_read_done
    <2>1. /\ UNCHANGED <<v1, v2, v3, v5, v6, v8>> /\ v10' \in 0..MaxPower /\ v4' = v4 + v10'
          /\ v4 + v10' <= MaxCount /\ v7' = v7 \cup {v4'} /\ v1 = "count"
          /\ v11' \in {v10', v11} /\ v9' = (v9 \/ ~ v5)
      BY <1>9 DEF Regs!emtr_read_done, Regs!emtr_counter_add, Regs!emtr_read_event
    <2>2. v4' \in 0..MaxCount
      BY <2>1, RegistersAssumption DEF RegsFits
    <2>3. v7' \subseteq 0..MaxCount
      BY <2>1, <2>2 DEF RegsFits
    <2>4. v10' \in -1..MaxPower /\ v11' \in -1..MaxPower
      BY <2>1, RegistersAssumption DEF RegsFits
    <2>5. v9' \in BOOLEAN
      BY <2>1
    <2> QED BY <2>1, <2>2, <2>3, <2>4, <2>5 DEF RegsFits
  <1>10. CASE UNCHANGED Regs!vars
    BY <1>10 DEF Regs!vars, RegsFits
  <1> QED BY <1>2, <1>3, <1>4, <1>5, <1>6, <1>7, <1>8, <1>9, <1>10 DEF Regs!Next

LEMMA RegsTypes == ASSUME RegsFits PROVE Regs!TypeOK
  BY DEF RegsFits, Regs!TypeOK

\* The frame being received has packets left for the bytes that are missing.
WsFits ==
  /\ v3 \in 0..MaxFrame /\ v4 \in 0..MaxFrame /\ v5 \in Sockets /\ v6 \in 0..MaxFrame
  /\ v3 # 0 => v4 + v3 <= MaxFrame

LEMMA WsFitsFirst == ASSUME Ws!Init PROVE WsFits
  BY FramesAssumption DEF Ws!Init, WsFits

LEMMA WsTakeFits ==
  ASSUME WsFits, NEW s \in Sockets, NEW p, p.n \in Nat \ {0}, p.at \in Nat,
         p.at = 0 => p.len \in 0..MaxFrame, Ws!Take(s, p)
  PROVE  WsFits'
  <1>0. MaxFrame \in Nat
    BY FramesAssumption
  <1>1. CASE v3 = 0 /\ p.at = 0
    <2>1. v6' = p.len /\ v3' = Ws!Rest(p, Ws!Whole(p.len)) /\ v4' = 0 /\ v5' = s
      BY <1>1 DEF Ws!Take
    <2>2. v3' = (IF p.n > 1 + p.len THEN 0 ELSE 1 + p.len - p.n)
      BY <1>0, <1>1, <2>1 DEF Ws!Rest, Ws!Whole
    <2>3. v3' \in 0..MaxFrame
      BY <1>0, <1>1, <2>2
    <2> QED BY <1>0, <1>1, <2>1, <2>3 DEF WsFits
  <1>2. CASE v3 # 0 /\ v5 = s
    <2>1. v3' = Ws!Rest(p, v3) /\ v4' = v4 + 1 /\ UNCHANGED <<v5, v6>>
      BY <1>2 DEF Ws!Take
    <2>2. v3' = (IF p.n > v3 THEN 0 ELSE v3 - p.n)
      BY <2>1 DEF Ws!Rest
    <2> QED BY <1>0, <1>2, <2>1, <2>2 DEF WsFits
  <1>3. CASE (v3 = 0 /\ p.at # 0) \/ (v3 # 0 /\ v5 # s)
    <2>1. UNCHANGED <<v3, v4, v5, v6>>
      BY <1>3 DEF Ws!Take
    <2> QED BY <2>1 DEF WsFits
  <1> QED BY <1>1, <1>2, <1>3

LEMMA WsFitsOn ==
  ASSUME WsInv, WsFits, Ws!Next \/ UNCHANGED Ws!vars PROVE WsFits'
  <1>1. ASSUME NEW s \in Sockets, Ws!Receive(s) PROVE WsFits'
    <2> DEFINE f == v2[s]
               left == Ws!Whole(f.len) - f.at
    <2>1. f.len \in Nat /\ f.at \in Nat \ {0}
      BY DEF WsInv, FrameTyped
    <2>2. CASE /\ left > 0
               /\ \E n \in 1..(IF left < MaxPart THEN left ELSE MaxPart) :
                    Ws!Take(s, Ws!Part(f.len, f.at, n))
      <3>1. PICK n \in 1..(IF left < MaxPart THEN left ELSE MaxPart) :
                    Ws!Take(s, Ws!Part(f.len, f.at, n))
        BY <2>2
      <3>2. PICK p : p = Ws!Part(f.len, f.at, n)
        OBVIOUS
      <3>3. p.n = n /\ p.at = f.at /\ p.at # 0
        BY <2>1, <3>2 DEF Ws!Part
      <3> QED BY <2>1, <3>1, <3>2, <3>3, WsTakeFits
    <2>3. CASE \E len \in 0..MaxFrame, n \in 1..MaxPart : Ws!Take(s, Ws!Part(len, 0, n))
      <3>1. PICK len \in 0..MaxFrame, n \in 1..MaxPart : Ws!Take(s, Ws!Part(len, 0, n))
        BY <2>3
      <3>2. PICK p : p = Ws!Part(len, 0, n)
        OBVIOUS
      <3>3. p.n = n /\ p.at = 0 /\ p.len = len
        BY <3>2 DEF Ws!Part
      <3> QED BY <3>1, <3>2, <3>3, WsTakeFits
    <2> QED BY <1>1, <2>2, <2>3 DEF Ws!Receive
  <1>2. ASSUME NEW s \in Sockets, Ws!NoData(s) PROVE WsFits'
    BY <1>2, FramesAssumption DEF Ws!NoData, WsFits
  <1>3. CASE (\E s \in Sockets : Ws!Disconnect(s) \/ Ws!Connect(s)) \/ UNCHANGED Ws!vars
    <2>1. UNCHANGED <<v3, v4, v5, v6>>
      BY <1>3 DEF Ws!Disconnect, Ws!Connect, Ws!vars
    <2> QED BY <2>1 DEF WsFits
  <1> QED BY <1>1, <1>2, <1>3 DEF Ws!Next

LEMMA WsTypes == ASSUME WsFits PROVE Ws!TypeOK
  BY DEF WsFits, Ws!TypeOK

\* A connection waits for no more than it asked for.
HttpFits == \A c \in Conns : v6[c] \in 0..MaxOwed /\ Http!Count(c) <= MaxOwed

LEMMA HttpFitsFirst == ASSUME Http!Init PROVE HttpFits
  <1>1. /\ v6 = [c \in Conns |-> 0] /\ v5 = [c \in Conns |-> [url \in Http!Waits |-> 0]]
    BY DEF Http!Init
  <1>2. \A c \in Conns : v6[c] = 0 /\ Http!Count(c) = 0
    BY <1>1 DEF Http!Count, Http!Waits
  <1> QED BY <1>2, DispatchAssumption DEF HttpFits

\* What an event answers was owed, and is waited for no more.
LEMMA HttpRaiseFits ==
  ASSUME HttpInv, HttpFits, NEW url, Http!Raise(url) PROVE HttpFits'
  <1> SUFFICES ASSUME NEW c \in Conns
               PROVE  v6'[c] \in 0..MaxOwed /\ Http!Count(c)' <= MaxOwed
    BY DEF HttpFits
  <1>1. /\ v5' = [d \in Conns |-> [w \in Http!Waits |-> IF Http!Hears(w, url) THEN 0 ELSE v5[d][w]]]
        /\ v6' = [d \in Conns |-> v6[d] - IF v2[d] = "closed" THEN 0 ELSE Http!Heard(d, url)]
    BY DEF Http!Raise
  <1>2. HttpTyped /\ HttpPolls /\ v6[c] \in 0..MaxOwed /\ Http!Count(c) <= MaxOwed
    BY DEF HttpInv, HttpFits
  <1>3. v5[c]["later"] \in Nat /\ v5[c]["events"] \in Nat
    BY <1>2 DEF HttpTyped, Http!Waits
  <1>4. v5'[c]["later"] \in {0, v5[c]["later"]} /\ v5'[c]["events"] \in {0, v5[c]["events"]}
    BY <1>1 DEF Http!Waits
  <1>5. Http!Count(c)' <= MaxOwed
    BY <1>2, <1>3, <1>4, DispatchAssumption DEF Http!Count
  <1>6. Http!Heard(c, url) \in Nat /\ Http!Heard(c, url) <= Http!Count(c) /\ Http!Count(c) \in Nat
    BY <1>2, HttpCounts
  <1>7. v2[c] = "closed" \/ Http!Heard(c, url) <= v6[c]
    <2>1. v2[c] \in {"none", "open", "socket", "closed"}
      BY <1>2 DEF HttpTyped
    <2>2. v2[c] # "closed" => v6[c] = Http!Count(c)
      BY <1>2, <2>1 DEF HttpPolls, Http!OneAnswer, HttpGone
    <2> QED BY <1>6, <2>2
  <1>8. v6'[c] \in 0..MaxOwed
    <2>1. v6'[c] = v6[c] - IF v2[c] = "closed" THEN 0 ELSE Http!Heard(c, url)
      BY <1>1
    <2> QED BY <1>2, <1>6, <1>7, <2>1, DispatchAssumption
  <1> QED BY <1>5, <1>8

LEMMA HttpPollFits ==
  ASSUME HttpInv, HttpFits, NEW c \in Conns, v2[c] = "open", v6[c] < MaxOwed,
         NEW url \in Http!Waits, Http!long_poll_register(c, url)
  PROVE  HttpFits'
  <1>0. HttpTyped /\ HttpPolls
    BY DEF HttpInv
  <1>1. /\ v5' = [v5 EXCEPT ![c][url] = @ + 1] /\ v6' = [v6 EXCEPT ![c] = @ + 1]
    BY DEF Http!long_poll_register
  <1>2. v6'[c] = v6[c] + 1 /\ \A d \in Conns \ {c} : v6'[d] = v6[d]
    BY <1>0, <1>1 DEF HttpTyped
  <1>3. /\ v5'[c] = [v5[c] EXCEPT ![url] = @ + 1]
        /\ \A d \in Conns \ {c} : v5'[d] = v5[d]
    BY <1>0, <1>1 DEF HttpTyped
  <1>4. v5[c] \in [Http!Waits -> Nat]
    BY <1>0 DEF HttpTyped
  <1>5. Http!Count(c)' = Http!Count(c) + 1
    BY <1>3, <1>4 DEF Http!Count, Http!Waits
  <1>6. v6[c] = Http!Count(c) /\ v6[c] \in Nat
    BY <1>0 DEF HttpPolls, Http!OneAnswer, HttpTyped
  <1>7. ASSUME NEW d \in Conns \ {c} PROVE v6'[d] \in 0..MaxOwed /\ Http!Count(d)' <= MaxOwed
    BY <1>2, <1>3 DEF HttpFits, Http!Count
  <1>8. v6'[c] \in 0..MaxOwed /\ Http!Count(c)' <= MaxOwed
    BY <1>2, <1>5, <1>6, DispatchAssumption
  <1> QED BY <1>7, <1>8 DEF HttpFits

LEMMA HttpFitsOn ==
  ASSUME HttpInv, HttpFits, Http!Next \/ UNCHANGED Http!vars PROVE HttpFits'
  <1>1. ASSUME NEW c \in Conns, Http!Request(c) PROVE HttpFits'
    <2>1. PICK m \in Http!Methods, url \in Http!Urls,
               creds \in BOOLEAN, content \in BOOLEAN, up \in BOOLEAN :
            Http!Dispatch(c, Http!Method(c, m), url, creds, content, up)
      BY <1>1 DEF Http!Request
    <2>2. v2[c] = "open" /\ v6[c] < MaxOwed
      BY <1>1 DEF Http!Request
    <2>3. \/ url \in Http!Waits /\ Http!long_poll_register(c, url)
          \/ Http!Raise(url)
          \/ UNCHANGED <<v5, v6>>
      BY <2>1 DEF Http!Dispatch, Http!Status, Http!events_handler, Http!webserver_send_response
    <2>4. CASE url \in Http!Waits /\ Http!long_poll_register(c, url)
      BY <2>2, <2>4, HttpPollFits
    <2>5. CASE Http!Raise(url)
      BY <2>5, HttpRaiseFits
    <2>6. CASE UNCHANGED <<v5, v6>>
      BY <2>6 DEF HttpFits, Http!Count
    <2> QED BY <2>3, <2>4, <2>5, <2>6
  <1>2. CASE Http!Event
    <2>1. PICK url : Http!Raise(url)
      BY <1>2 DEF Http!Event
    <2> QED BY <2>1, HttpRaiseFits
  <1>3. ASSUME NEW c \in Conns, Http!Discon(c) PROVE HttpFits'
    <2>1. /\ v5' = [v5 EXCEPT ![c] = [url \in Http!Waits |-> 0]] /\ v6' = [v6 EXCEPT ![c] = 0]
      BY <1>3 DEF Http!Discon, Http!Clear
    <2>2. v6'[c] = 0 /\ \A d \in Conns \ {c} : v6'[d] = v6[d] /\ v5'[d] = v5[d]
      BY <2>1 DEF HttpInv, HttpTyped
    <2>3. v5'[c] = [url \in Http!Waits |-> 0]
      BY <2>1 DEF HttpInv, HttpTyped
    <2>4. Http!Count(c)' = 0
      BY <2>3 DEF Http!Count, Http!Waits
    <2>5. ASSUME NEW d \in Conns \ {c} PROVE v6'[d] \in 0..MaxOwed /\ Http!Count(d)' <= MaxOwed
      BY <2>2 DEF HttpFits, Http!Count
    <2> QED BY <2>2, <2>4, <2>5, DispatchAssumption DEF HttpFits
  <1>4. CASE \/ \E c \in Conns : Http!Connect(c) \/ Http!Break(c) \/ Http!Letter(c)
             \/ Http!CloseAll \/ UNCHANGED Http!vars
    <2>1. UNCHANGED <<v5, v6>>
      BY <1>4 DEF Http!Connect, Http!Break, Http!Letter, Http!CloseAll, Http!vars
    <2> QED BY <2>1 DEF HttpFits, Http!Count
  <1> QED BY <1>1, <1>2, <1>3, <1>4 DEF Http!Next

LEMMA HttpTypes == ASSUME HttpInv, HttpFits PROVE Http!TypeOK
  <1>1. HttpTyped
    BY DEF HttpInv
  <1>2. ASSUME NEW c \in Conns
        PROVE  v2[c] \in {"none", "open", "socket", "closed"} /\ v6[c] \in 0..MaxOwed
    BY <1>1 DEF HttpTyped, HttpFits
  <1>3. ASSUME NEW c \in Conns PROVE v5[c] \in [Http!Waits -> 0..MaxOwed]
    <2>1. v5[c] \in [Http!Waits -> Nat]
      BY <1>1 DEF HttpTyped
    <2>2. v5[c]["later"] + v5[c]["events"] <= MaxOwed
      BY DEF HttpFits, Http!Count
    <2>3. \A w \in Http!Waits : v5[c][w] \in 0..MaxOwed
      BY <2>1, <2>2, DispatchAssumption DEF Http!Waits
    <2> QED BY <2>1, <2>3
  <1>4. v5 \in [Conns -> [Http!Waits -> 0..MaxOwed]]
    BY <1>1, <1>3 DEF HttpTyped
  <1> QED BY <1>2, <1>4 DEF Http!TypeOK

StoreFits ==
  /\ v4 \in BOOLEAN /\ v5 \in StoredValues \cup {"blank", "torn"}
  /\ v6 \in StoredValues \cup {"blank", "torn"}

LEMMA StoreFitsFirst == ASSUME Store!Init PROVE StoreFits
  BY DEF Store!Init, StoreFits

\* What is written as the measurements' settings is what a request set.
LEMMA AppWrites ==
  ASSUME StoreInv, v7 # <<>>, v7[1] \in {"app_data", "app_head"}
  PROVE  v3 \in StoredValues
  <1>1. CASE StoreIdle
    BY <1>1 DEF StoreIdle
  <1>2. CASE StoreRequest
    BY <1>2 DEF StoreRequest
  <1>3. CASE StoreReload
    BY <1>3 DEF StoreReload
  <1>4. CASE StoreStart
    BY <1>4 DEF StoreStart
  <1>5. CASE StoreAppSave
    BY <1>5 DEF StoreAppSave, StoreApp
  <1> QED BY <1>1, <1>2, <1>3, <1>4, <1>5 DEF StoreInv

LEMMA StoreFitsOn ==
  ASSUME StoreInv, StoreFits, Store!Next \/ UNCHANGED Store!vars PROVE StoreFits'
  <1>1. CASE Store!AppStore
    <2>1. v7 # <<>> /\ v4' = v4
      BY <1>1 DEF Store!AppStore
    <2>2. CASE v7[1] \in {"app_data", "app_head"}
      <3>1. v3 \in StoredValues
        BY <2>1, <2>2, AppWrites
      <3>2. v5' \in {v5, "blank", "torn", v3} /\ v6' \in {v6, "blank", "torn", v3}
        BY <1>1 DEF Store!AppStore
      <3> QED BY <2>1, <3>1, <3>2 DEF StoreFits
    <2>3. CASE v7[1] \notin {"app_data", "app_head"}
      <3>1. v5' \in {v5, "blank"} /\ v6' \in {v6, "blank"}
        BY <1>1, <2>3 DEF Store!AppStore
      <3> QED BY <2>1, <3>1 DEF StoreFits
    <2> QED BY <2>2, <2>3
  <1>2. CASE Store!PowerLoss
    <2>1. v4' = FALSE /\ v5' \in {v5, "torn"} /\ v6' \in {v6, "torn"}
      BY <1>2 DEF Store!PowerLoss
    <2> QED BY <2>1 DEF StoreFits
  <1>3. CASE Store!AppLoad \/ Store!AppTest
    <2>1. v4' \in {v4, TRUE, FALSE} /\ UNCHANGED <<v5, v6>>
      BY <1>3 DEF Store!AppLoad, Store!AppTest, Store!UserSide
    <2> QED BY <2>1 DEF StoreFits
  <1>4. CASE \E v \in StoredValues :
               \/ Store!config_handler(v) \/ Store!config_iot_handler(v)
               \/ Store!config_ap_handler(v) \/ Store!config_station_handler(v)
    BY <1>4 DEF Store!config_handler, Store!config_iot_handler, Store!config_ap_handler,
       Store!config_station_handler, Store!Post, Store!AppSide, StoreFits
  <1>5. CASE \E v \in StoredValues : Store!AppSave(v)
    BY <1>5 DEF Store!AppSave, StoreFits
  <1>6. CASE Store!Erase \/ Store!Write \/ Store!Load \/ Store!AppErase \/ UNCHANGED Store!vars
    BY <1>6 DEF Store!Erase, Store!Write, Store!Load, Store!AppErase, Store!AppSide, Store!vars,
       StoreFits
  <1> QED BY <1>1, <1>2, <1>3, <1>4, <1>5, <1>6 DEF Store!Next

LEMMA StoreTypes == ASSUME StoreInv, StoreFits PROVE Store!TypeOK
  BY DEF StoreInv, StoreTyped, StoreFits, Store!TypeOK
==============================================================================
