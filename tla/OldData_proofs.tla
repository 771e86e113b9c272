--------------------------- MODULE OldData_proofs ---------------------------
(***************************************************************************)
(* OldData for archives of any packets, of any length, that go through the *)
(* program any number of times.  It rests on facts about the layout of     *)
(* structs, whatever their members, which are proved first: members lie    *)
(* one behind the other, and a struct that only has members appended to it *)
(* keeps the others in their places.                                       *)
(***************************************************************************)
EXTENDS OldData, WellFoundedInduction, TLAPS
-----------------------------------------------------------------------------
(* Induction over the naturals, with a set for the property.               *)

LEMMA NatSetInduction ==
    ASSUME NEW S, 0 \in S, \A n \in Nat : n \in S => n + 1 \in S
    PROVE  Nat \subseteq S
<1> DEFINE R == OpToRel(<, Nat)
           T == Nat \ S
<1>1. IsWellFoundedOn(R, Nat)
  BY NatLessThanWellFounded
<1>2. \A x, y \in Nat : x < y <=> <<x, y>> \in R
  BY DEF OpToRel
<1> HIDE DEF R
<1>3. SUFFICES ASSUME T # {} PROVE FALSE
  OBVIOUS
<1>4. PICK x \in T : \A y \in T : ~ (<<y, x>> \in R)
  BY <1>1, <1>3, WFMin
<1>5. x # 0 /\ x - 1 \in Nat /\ x - 1 < x
  BY <1>4
<1>6. x - 1 \in S
  BY <1>2, <1>4, <1>5
<1> QED
  BY <1>4, <1>5, <1>6

-----------------------------------------------------------------------------
(* The layout of any struct.                                               *)

(* The names of the members, by the block they are declared in.            *)
EventNames == {"run", "event", "event_second", "event_time", "last_pps", "llast_pps"}
DeadNames == {"deadtime_counter", "deadtime_counter_last_pps",
              "deadtime_counter_llast_pps"}
TriggerNames == {"L2_mask", "soft_trigger", "pps_trigger", "ext_trigger", "reserved"}
WaveNames == {"trigger_meta", "readout_time", "prio", "wf", "wfs"}
SlowHeadNames == {"ncmds", "time_since_last_cmd", "last_cmd", "sipd_uptime", "cpu_time",
                  "cpu_uptime", "can_ping_world", "starlink_on", "los_on"}
RunNames == {"current_run", "current_run_secs"}
SeenNames == {"gpu_present", "nic_present", "turf_seen", "hsk_seen", "ss_seen"}
SlowTailNames == {"current_run_events", "L1_rates", "L2_rates"}
RunningNames == {"acqd_running", "prioritizerd_running", "current_run_rf_events",
                 "hsk_uptime", "pals", "ssd", "nav", "NIC_temperature",
                 "SFC_temperature", "pwr_from_sun", "pwr_usage", "battery_state",
                 "AMPA_current", "VPol_Crate_on", "HPol_Crate_on", "SFC_Voltage_on",
                 "VPol_Current", "HPol_Current", "SFC_Current"}
TurfNames == {"turfio_words_recv", "qwords_sent", "events_sent", "trigger_count",
              "current_second", "last_pps", "llast_pps", "last_dead", "llast_dead",
              "panic_count", "occupancy", "ack_count", "latency", "offset",
              "pps_trig_offset"}
DaqHeadNames == {"surfs", "l2_readout_time", "Hscalers", "Vscalers",
                 "scaler_readout_time", "turfio_L1_rate", "soft_rate", "pps_rate",
                 "ext_rate"}
TotalsNames == {"MIE_total_H", "MIE_total_V", "LF_total_H", "LF_total_V", "aux_total",
                "global_total"}
SummaryHeadNames == {"surf", "Hscalers_avg", "Vscalers_avg", "MIE_total_H_avg",
                     "MIE_total_V_avg", "aux_total_avg", "pps_rate",
                     "global_total_avg", "global_total_min", "global_total_max",
                     "global_total_rms", "start_second", "end_second"}
EnableMaskNames == {"l2_enable_mask"}
FractionNames == {"enable_mask_fraction"}

MemberNames ==
    EventNames \cup DeadNames \cup TriggerNames \cup WaveNames \cup SlowHeadNames
    \cup RunNames \cup SeenNames \cup SlowTailNames \cup RunningNames \cup TurfNames
    \cup DaqHeadNames \cup TotalsNames \cup SummaryHeadNames
    \cup EnableMaskNames \cup FractionNames

Units == {8, 16, 32, 64}
AMember == [name : MemberNames, bits : Nat \ {0}, unit : Units, packed : BOOLEAN]

(* A struct whose members are not empty and have names of their own.       *)
Sound(s) == /\ s \in Seq(AMember)
            /\ \A i, j \in DOMAIN s : s[i].name = s[j].name => i = j

(* Where the i-th member of a struct begins.                               *)
Begin(s, i) == Start(Ends(s)[i - 1], s[i])

(* The recursive function that adds up the members satisfies its equation. *)
LEMMA EndsEquation ==
    ASSUME NEW s, Len(s) \in Nat
    PROVE  Ends(s) = [i \in 0 .. Len(s) |->
                         IF i = 0 THEN 0 ELSE Start(Ends(s)[i - 1], s[i]) + s[i].bits]
<1> DEFINE Step(g, n) == g = [i \in 0 .. n |->
                                IF i = 0 THEN 0 ELSE Start(g[i - 1], s[i]) + s[i].bits]
           S == {n \in Nat : \E g : Step(g, n)}
<1>1. 0 \in S
  <2> DEFINE g == [i \in 0 .. 0 |-> 0]
  <2>1. Step(g, 0)
    OBVIOUS
  <2> QED
    BY <2>1
<1>2. \A n \in Nat : n \in S => n + 1 \in S
  <2> SUFFICES ASSUME NEW n \in Nat, n \in S PROVE n + 1 \in S
    OBVIOUS
  <2> PICK g : Step(g, n)
    OBVIOUS
  <2> DEFINE f == [i \in 0 .. n + 1 |->
                     IF i = 0 THEN 0 ELSE Start(g[i - 1], s[i]) + s[i].bits]
  <2>1. \A i \in 0 .. n : f[i] = g[i]
    <3> TAKE i \in 0 .. n
    <3>1. f[i] = IF i = 0 THEN 0 ELSE Start(g[i - 1], s[i]) + s[i].bits
      OBVIOUS
    <3> QED
      BY <3>1
  <2>2. \A i \in 1 .. n + 1 : f[i - 1] = g[i - 1]
    BY <2>1
  <2>3. Step(f, n + 1)
    BY <2>2
  <2> HIDE DEF f
  <2> QED
    BY <2>3
<1>3. Len(s) \in S
  <2> HIDE DEF S
  <2> QED
    BY <1>1, <1>2, NatSetInduction
<1>4. Ends(s) = CHOOSE g : Step(g, Len(s))
  BY DEF Ends
<1>5. \E g : Step(g, Len(s))
  BY <1>3
<1> HIDE DEF Step
<1>6. Step(Ends(s), Len(s))
  BY <1>4, <1>5
<1> QED
  BY <1>6 DEF Step

(* The first member begins at 0, each other where Start puts it.           *)
LEMMA EndsAt ==
    ASSUME NEW s \in Seq(AMember)
    PROVE  /\ Ends(s)[0] = 0
           /\ \A i \in DOMAIN s : Ends(s)[i] = Begin(s, i) + s[i].bits
<1>1. Len(s) \in Nat /\ DOMAIN s = 1 .. Len(s)
  OBVIOUS
<1>2. Ends(s) = [i \in 0 .. Len(s) |->
                    IF i = 0 THEN 0 ELSE Start(Ends(s)[i - 1], s[i]) + s[i].bits]
  BY <1>1, EndsEquation
<1> QED
  BY <1>1, <1>2 DEF Begin

(* Alignment moves a member up.                                            *)
LEMMA RoundUpType ==
    ASSUME NEW n \in Nat, NEW unit \in Units
    PROVE  RoundUp(n, unit) \in Nat /\ RoundUp(n, unit) >= n
BY DEF RoundUp, Units

(* A member starts where the one before it ends, or behind padding.        *)
LEMMA StartType ==
    ASSUME NEW at \in Nat, NEW m \in AMember
    PROVE  Start(at, m) \in Nat /\ Start(at, m) >= at
BY RoundUpType DEF Start, AMember

(* The members of a struct follow one another.                             *)
LEMMA EndsType ==
    ASSUME NEW s \in Seq(AMember)
    PROVE  /\ \A i \in 0 .. Len(s) : Ends(s)[i] \in Nat
           /\ \A i \in DOMAIN s : /\ Begin(s, i) \in Nat
                                  /\ Ends(s)[i - 1] <= Begin(s, i)
                                  /\ Begin(s, i) < Ends(s)[i]
<1> DEFINE S == {n \in Nat : n <= Len(s) => Ends(s)[n] \in Nat}
<1>0. Len(s) \in Nat /\ DOMAIN s = 1 .. Len(s) /\ \A i \in 1 .. Len(s) : s[i] \in AMember
  OBVIOUS
<1>1. \A i \in DOMAIN s : Ends(s)[i - 1] \in Nat =>
          /\ Begin(s, i) \in Nat /\ Ends(s)[i - 1] <= Begin(s, i)
          /\ Ends(s)[i] \in Nat /\ Begin(s, i) < Ends(s)[i]
  <2> SUFFICES ASSUME NEW i \in DOMAIN s, Ends(s)[i - 1] \in Nat
               PROVE  /\ Begin(s, i) \in Nat /\ Ends(s)[i - 1] <= Begin(s, i)
                      /\ Ends(s)[i] \in Nat /\ Begin(s, i) < Ends(s)[i]
    OBVIOUS
  <2>1. s[i] \in AMember /\ s[i].bits \in Nat \ {0}
    BY <1>0 DEF AMember
  <2>2. Begin(s, i) \in Nat /\ Begin(s, i) >= Ends(s)[i - 1]
    BY <2>1, StartType DEF Begin
  <2>3. Ends(s)[i] = Begin(s, i) + s[i].bits
    BY EndsAt
  <2> QED
    BY <2>1, <2>2, <2>3
<1>2. 0 \in S
  BY EndsAt
<1>3. \A n \in Nat : n \in S => n + 1 \in S
  <2> SUFFICES ASSUME NEW n \in Nat, n \in S, n + 1 <= Len(s) PROVE Ends(s)[n + 1] \in Nat
    OBVIOUS
  <2>1. n + 1 \in DOMAIN s /\ (n + 1) - 1 = n /\ Ends(s)[n] \in Nat
    BY <1>0
  <2> QED
    BY <1>1, <2>1
<1>4. Nat \subseteq S
  <2> HIDE DEF S
  <2> QED
    BY <1>2, <1>3, NatSetInduction
<1>5. \A i \in 0 .. Len(s) : Ends(s)[i] \in Nat
  BY <1>0, <1>4
<1>6. \A i \in DOMAIN s : Ends(s)[i - 1] \in Nat
  BY <1>0, <1>5
<1> QED
  BY <1>1, <1>5, <1>6

(* Members lie in the order of their declaration.                          *)
LEMMA EndsGrow ==
    ASSUME NEW s \in Seq(AMember), NEW i \in 0 .. Len(s), NEW j \in 0 .. Len(s), i <= j
    PROVE  Ends(s)[i] <= Ends(s)[j]
<1> DEFINE S == {n \in Nat : i <= n /\ n <= Len(s) => Ends(s)[i] <= Ends(s)[n]}
<1>0. Len(s) \in Nat /\ DOMAIN s = 1 .. Len(s) /\ i \in Nat
      /\ \A n \in 0 .. Len(s) : Ends(s)[n] \in Nat
  BY EndsType
<1>1. 0 \in S
  BY <1>0
<1>2. \A n \in Nat : n \in S => n + 1 \in S
  <2> SUFFICES ASSUME NEW n \in Nat, n \in S, i <= n + 1, n + 1 <= Len(s)
               PROVE  Ends(s)[i] <= Ends(s)[n + 1]
    OBVIOUS
  <2>1. CASE i = n + 1
    BY <1>0, <2>1
  <2>2. CASE i # n + 1
    <3>1. Ends(s)[i] <= Ends(s)[n]
      BY <1>0, <2>2
    <3>2. n + 1 \in DOMAIN s /\ (n + 1) - 1 = n
      BY <1>0
    <3>3. /\ Begin(s, n + 1) \in Nat /\ Ends(s)[n] <= Begin(s, n + 1)
          /\ Begin(s, n + 1) < Ends(s)[n + 1]
      BY <3>2, EndsType
    <3>4. Ends(s)[i] \in Nat /\ Ends(s)[n] \in Nat /\ Ends(s)[n + 1] \in Nat
      BY <1>0, <3>2
    <3> QED
      BY <3>1, <3>3, <3>4
  <2> QED
    BY <2>1, <2>2
<1>3. Nat \subseteq S
  <2> HIDE DEF S
  <2> QED
    BY <1>1, <1>2, NatSetInduction
<1> QED
  BY <1>0, <1>3

(* Members that are appended leave the others where they are.              *)
LEMMA EndsJoined ==
    ASSUME NEW a \in Seq(AMember), NEW b \in Seq(AMember)
    PROVE  /\ a \o b \in Seq(AMember)
           /\ \A i \in 0 .. Len(a) : Ends(a \o b)[i] = Ends(a)[i]
           /\ \A i \in DOMAIN a : (a \o b)[i] = a[i] /\ Begin(a \o b, i) = Begin(a, i)
<1> DEFINE c == a \o b
           S == {n \in Nat : n <= Len(a) => Ends(c)[n] = Ends(a)[n]}
<1>0. /\ c \in Seq(AMember) /\ Len(a) \in Nat /\ Len(b) \in Nat
      /\ Len(c) = Len(a) + Len(b) /\ DOMAIN c = 1 .. Len(c) /\ DOMAIN a = 1 .. Len(a)
      /\ \A i \in 1 .. Len(a) : c[i] = a[i]
  OBVIOUS
<1> HIDE DEF c
<1>1. 0 \in S
  BY <1>0, EndsAt
<1>2. \A n \in Nat : n \in S => n + 1 \in S
  <2> SUFFICES ASSUME NEW n \in Nat, n \in S, n + 1 <= Len(a)
               PROVE  Ends(c)[n + 1] = Ends(a)[n + 1]
    OBVIOUS
  <2>1. /\ n + 1 \in DOMAIN a /\ n + 1 \in DOMAIN c /\ (n + 1) - 1 = n
        /\ Ends(c)[n] = Ends(a)[n] /\ c[n + 1] = a[n + 1]
    BY <1>0
  <2>2. Begin(c, n + 1) = Begin(a, n + 1)
    BY <2>1 DEF Begin
  <2> QED
    BY <1>0, <2>1, <2>2, EndsAt
<1>3. Nat \subseteq S
  <2> HIDE DEF S
  <2> QED
    BY <1>1, <1>2, NatSetInduction
<1>4. \A i \in 0 .. Len(a) : Ends(c)[i] = Ends(a)[i]
  BY <1>0, <1>3
<1>5. \A i \in DOMAIN a : Begin(c, i) = Begin(a, i)
  BY <1>0, <1>4 DEF Begin
<1> QED
  BY <1>0, <1>4, <1>5 DEF c

(* What Layout says of a member.                                           *)
LEMMA LayoutAt ==
    ASSUME NEW s, Sound(s)
    PROVE  /\ DOMAIN Layout(s) = NamesOf(s)
           /\ \A i \in DOMAIN s : /\ s[i].name \in NamesOf(s)
                                  /\ Layout(s)[s[i].name].first = Begin(s, i)
                                  /\ Layout(s)[s[i].name].upto = Ends(s)[i]
<1> DEFINE end == Ends(s)
           place(i) == [first |-> Start(end[i - 1], s[i]), upto |-> end[i]]
           index(name) == CHOOSE i \in DOMAIN s : s[i].name = name
<1>1. Layout(s) = [name \in NamesOf(s) |-> place(index(name))]
  BY DEF Layout
<1>2. \A i \in DOMAIN s : s[i].name \in NamesOf(s) /\ index(s[i].name) = i
  BY DEF Sound, NamesOf
<1> HIDE DEF index
<1>3. \A i \in DOMAIN s : place(i).first = Begin(s, i) /\ place(i).upto = Ends(s)[i]
  BY DEF Begin
<1> HIDE DEF place
<1> QED
  BY <1>1, <1>2, <1>3

(* No two members of a struct have a bit in common.                        *)
LEMMA LayoutType ==
    ASSUME NEW s, Sound(s), NEW name \in NamesOf(s)
    PROVE  /\ Layout(s)[name].first \in Nat /\ Layout(s)[name].upto \in Nat
           /\ Layout(s)[name].first < Layout(s)[name].upto
           /\ Layout(s)[name].upto <= Ends(s)[Len(s)]
           /\ \A other \in NamesOf(s) \ {name} :
                 ~Overlap(Layout(s)[other], Layout(s)[name])
<1>0. s \in Seq(AMember) /\ Len(s) \in Nat /\ DOMAIN s = 1 .. Len(s)
  BY DEF Sound
<1>1. PICK i \in DOMAIN s : s[i].name = name
  BY DEF NamesOf
<1>2. Layout(s)[name].first = Begin(s, i) /\ Layout(s)[name].upto = Ends(s)[i]
  BY <1>1, LayoutAt
<1>3. /\ Begin(s, i) \in Nat /\ Ends(s)[i] \in Nat /\ Begin(s, i) < Ends(s)[i]
      /\ Ends(s)[i - 1] \in Nat /\ Ends(s)[i - 1] <= Begin(s, i)
  BY <1>0, EndsType
<1>4. Ends(s)[i] <= Ends(s)[Len(s)]
  BY <1>0, EndsGrow
<1>5. ASSUME NEW other \in NamesOf(s) \ {name}
      PROVE  ~Overlap(Layout(s)[other], Layout(s)[name])
  <2>1. PICK j \in DOMAIN s : s[j].name = other
    BY DEF NamesOf
  <2>2. Layout(s)[other].first = Begin(s, j) /\ Layout(s)[other].upto = Ends(s)[j]
    BY <2>1, LayoutAt
  <2>3. /\ Begin(s, j) \in Nat /\ Ends(s)[j] \in Nat
        /\ Ends(s)[j - 1] \in Nat /\ Ends(s)[j - 1] <= Begin(s, j)
    BY <1>0, EndsType
  <2>4. i # j
    BY <1>1, <2>1
  <2>5. CASE i < j
    <3>1. Ends(s)[i] <= Ends(s)[j - 1]
      BY <1>0, <2>5, EndsGrow
    <3> QED
      BY <1>2, <1>3, <2>2, <2>3, <3>1 DEF Overlap
  <2>6. CASE j < i
    <3>1. Ends(s)[j] <= Ends(s)[i - 1]
      BY <1>0, <2>6, EndsGrow
    <3> QED
      BY <1>2, <1>3, <2>2, <2>3, <3>1 DEF Overlap
  <2> QED
    BY <1>0, <2>4, <2>5, <2>6
<1> QED
  BY <1>2, <1>3, <1>4, <1>5

(* The names of a struct made of two parts.                                *)
LEMMA NamesJoined ==
    ASSUME NEW a \in Seq(AMember), NEW b \in Seq(AMember)
    PROVE  NamesOf(a \o b) = NamesOf(a) \cup NamesOf(b)
<1> DEFINE c == a \o b
<1>1. /\ Len(a) \in Nat /\ Len(b) \in Nat /\ DOMAIN c = 1 .. Len(a) + Len(b)
      /\ DOMAIN a = 1 .. Len(a) /\ DOMAIN b = 1 .. Len(b)
      /\ \A i \in DOMAIN a : c[i] = a[i]
      /\ \A i \in DOMAIN b : c[Len(a) + i] = b[i]
  OBVIOUS
<1>2. \A i \in DOMAIN c : i \in DOMAIN a \/ i - Len(a) \in DOMAIN b
  BY <1>1
<1>3. \A i \in DOMAIN c : c[i] = IF i \in DOMAIN a THEN a[i] ELSE b[i - Len(a)]
  BY <1>1, <1>2
<1>4. /\ \A i \in DOMAIN a : i \in DOMAIN c
      /\ \A i \in DOMAIN b : Len(a) + i \in DOMAIN c
  BY <1>1
<1> HIDE DEF c
<1>5. NamesOf(c) \subseteq NamesOf(a) \cup NamesOf(b)
  BY <1>2, <1>3 DEF NamesOf
<1>6. NamesOf(a) \cup NamesOf(b) \subseteq NamesOf(c)
  BY <1>1, <1>4 DEF NamesOf
<1> QED
  BY <1>5, <1>6 DEF c

(* Structs with names of their own can be put together.                    *)
LEMMA SoundJoined ==
    ASSUME NEW a, Sound(a), NEW b, Sound(b), NamesOf(a) \cap NamesOf(b) = {}
    PROVE  Sound(a \o b) /\ NamesOf(a \o b) = NamesOf(a) \cup NamesOf(b)
<1> DEFINE c == a \o b
<1>0. a \in Seq(AMember) /\ b \in Seq(AMember)
  BY DEF Sound
<1>1. /\ Len(a) \in Nat /\ Len(b) \in Nat /\ DOMAIN c = 1 .. Len(a) + Len(b)
      /\ DOMAIN a = 1 .. Len(a) /\ DOMAIN b = 1 .. Len(b)
      /\ \A i \in DOMAIN a : c[i] = a[i]
      /\ \A i \in DOMAIN b : c[Len(a) + i] = b[i]
      /\ c \in Seq(AMember)
  BY <1>0
<1>2. \A i \in DOMAIN c : \/ i \in DOMAIN a /\ c[i] = a[i]
                          \/ i - Len(a) \in DOMAIN b /\ c[i] = b[i - Len(a)]
  BY <1>1
<1> HIDE DEF c
<1>3. ASSUME NEW i \in DOMAIN c, NEW j \in DOMAIN c, c[i].name = c[j].name
      PROVE  i = j
  <2>1. CASE i \in DOMAIN a /\ c[i] = a[i]
    <3>1. CASE j \in DOMAIN a /\ c[j] = a[j]
      BY <1>3, <2>1, <3>1 DEF Sound
    <3>2. CASE j - Len(a) \in DOMAIN b /\ c[j] = b[j - Len(a)]
      BY <1>3, <2>1, <3>2 DEF NamesOf
    <3> QED
      BY <1>2, <3>1, <3>2
  <2>2. CASE i - Len(a) \in DOMAIN b /\ c[i] = b[i - Len(a)]
    <3>1. CASE j \in DOMAIN a /\ c[j] = a[j]
      BY <1>3, <2>2, <3>1 DEF NamesOf
    <3>2. CASE j - Len(a) \in DOMAIN b /\ c[j] = b[j - Len(a)]
      <4>1. i - Len(a) = j - Len(a)
        BY <1>3, <2>2, <3>2 DEF Sound
      <4> QED
        BY <1>1, <4>1
    <3> QED
      BY <1>2, <3>1, <3>2
  <2> QED
    BY <1>2, <2>1, <2>2
<1>4. Sound(c)
  BY <1>1, <1>3 DEF Sound
<1> QED
  BY <1>0, <1>4, NamesJoined DEF c

(* Appending to a struct leaves its members in their places, and the new   *)
(* ones come behind them: what makes a type simple (rawio_packets.c:18),   *)
(* whatever the sizes, the alignments and the bit-fields.                  *)
THEOREM LayoutJoined ==
    ASSUME NEW a, Sound(a), NEW b, Sound(b), NamesOf(a) \cap NamesOf(b) = {}
    PROVE  /\ \A name \in NamesOf(a) :
                 /\ Layout(a \o b)[name].first = Layout(a)[name].first
                 /\ Layout(a \o b)[name].upto = Layout(a)[name].upto
           /\ \A name \in NamesOf(a), other \in NamesOf(b) :
                 Layout(a)[name].upto <= Layout(a \o b)[other].first
<1> DEFINE c == a \o b
<1>0. /\ a \in Seq(AMember) /\ b \in Seq(AMember) /\ Sound(c)
      /\ Len(a) \in Nat /\ Len(b) \in Nat
      /\ DOMAIN a = 1 .. Len(a) /\ DOMAIN b = 1 .. Len(b) /\ Len(c) = Len(a) + Len(b)
      /\ DOMAIN c = 1 .. Len(c) /\ c \in Seq(AMember)
      /\ \A i \in DOMAIN b : c[Len(a) + i] = b[i]
  BY SoundJoined DEF Sound
<1>1. /\ \A i \in 0 .. Len(a) : Ends(c)[i] = Ends(a)[i]
      /\ \A i \in DOMAIN a : c[i] = a[i] /\ Begin(c, i) = Begin(a, i)
  BY <1>0, EndsJoined
<1> HIDE DEF c
<1>2. ASSUME NEW name \in NamesOf(a)
      PROVE  /\ Layout(c)[name].first = Layout(a)[name].first
             /\ Layout(c)[name].upto = Layout(a)[name].upto
  <2>1. PICK i \in DOMAIN a : a[i].name = name
    BY DEF NamesOf
  <2>2. i \in DOMAIN c /\ i \in 0 .. Len(a) /\ c[i].name = name
    BY <1>0, <1>1, <2>1
  <2>3. Layout(a)[name].first = Begin(a, i) /\ Layout(a)[name].upto = Ends(a)[i]
    BY <2>1, LayoutAt
  <2>4. Layout(c)[name].first = Begin(c, i) /\ Layout(c)[name].upto = Ends(c)[i]
    BY <1>0, <2>2, LayoutAt
  <2> QED
    BY <1>1, <2>1, <2>2, <2>3, <2>4
<1>3. ASSUME NEW name \in NamesOf(a), NEW other \in NamesOf(b)
      PROVE  Layout(a)[name].upto <= Layout(c)[other].first
  <2>1. PICK j \in DOMAIN b : b[j].name = other
    BY DEF NamesOf
  <2> DEFINE k == Len(a) + j
  <2>2. /\ k \in DOMAIN c /\ c[k].name = other /\ k - 1 \in 0 .. Len(c)
        /\ Len(a) \in 0 .. Len(c) /\ Len(a) <= k - 1 /\ Len(a) \in 0 .. Len(a)
    BY <1>0, <2>1
  <2> HIDE DEF k
  <2>3. Layout(c)[other].first = Begin(c, k)
    BY <1>0, <2>2, LayoutAt
  <2>4. Ends(c)[Len(a)] <= Ends(c)[k - 1]
    BY <1>0, <2>2, EndsGrow
  <2>5. Ends(c)[k - 1] <= Begin(c, k) /\ Begin(c, k) \in Nat /\ Ends(c)[k - 1] \in Nat
    BY <1>0, <2>2, EndsType
  <2>6. Ends(c)[Len(a)] = Ends(a)[Len(a)] /\ Ends(a)[Len(a)] \in Nat
    BY <1>0, <1>1, <2>2, EndsType
  <2>7. Layout(a)[name].upto <= Ends(a)[Len(a)] /\ Layout(a)[name].upto \in Nat
    BY LayoutType
  <2> QED
    BY <2>3, <2>4, <2>5, <2>6, <2>7
<1> QED
  BY <1>2, <1>3 DEF c

(* A struct has room for its members.                                      *)
LEMMA SizeHolds ==
    ASSUME NEW s, Sound(s), s # <<>>
    PROVE  SizeOf(s) \in Nat /\ Ends(s)[Len(s)] <= SizeOf(s)
<1> DEFINE U == {s[i].unit : i \in DOMAIN s}
<1>1. s \in Seq(AMember) /\ Len(s) \in Nat /\ DOMAIN s = 1 .. Len(s) /\ Len(s) # 0
  BY DEF Sound
<1>2. U \subseteq Units /\ U # {}
  <2>1. \A i \in DOMAIN s : s[i].unit \in Units
    <3> TAKE i \in DOMAIN s
    <3>1. s[i] \in AMember
      BY <1>1
    <3> QED
      BY <3>1 DEF AMember
  <2>2. 1 \in DOMAIN s
    BY <1>1
  <2> QED
    BY <2>1, <2>2
<1> HIDE DEF U
<1>3. \E x \in U : \A y \in U : x >= y
  <2>1. CASE 64 \in U
    BY <1>2, <2>1 DEF Units
  <2>2. CASE 64 \notin U /\ 32 \in U
    BY <1>2, <2>2 DEF Units
  <2>3. CASE 64 \notin U /\ 32 \notin U /\ 16 \in U
    BY <1>2, <2>3 DEF Units
  <2>4. CASE 64 \notin U /\ 32 \notin U /\ 16 \notin U
    <3>1. \A x \in U : x = 8
      BY <1>2, <2>4 DEF Units
    <3>2. 8 \in U
      BY <1>2, <3>1
    <3> QED
      BY <3>1, <3>2
  <2> QED
    BY <2>1, <2>2, <2>3, <2>4
<1>4. Max(U) \in Units
  BY <1>2, <1>3 DEF Max
<1>5. Ends(s)[Len(s)] \in Nat
  BY <1>1, EndsType
<1>6. SizeOf(s) = RoundUp(Ends(s)[Len(s)], Max(U))
  BY DEF SizeOf, U
<1> QED
  BY <1>4, <1>5, <1>6, RoundUpType

-----------------------------------------------------------------------------
(* The structs of the library.                                             *)

(* One member is a sound struct.                                           *)
LEMMA SoundOne ==
    ASSUME NEW m \in AMember
    PROVE  Sound(<<m>>) /\ NamesOf(<<m>>) = {m.name}
BY DEF Sound, NamesOf

(* Block and BitField make members.                                        *)
LEMMA BlockType ==
    ASSUME NEW name \in MemberNames, NEW bytes \in Nat \ {0}, NEW align \in {1, 2, 4, 8}
    PROVE  Block(name, bytes, align) \in AMember /\ Block(name, bytes, align).name = name
BY DEF Block, Member, AMember, Units

LEMMA BitFieldType ==
    ASSUME NEW name \in MemberNames, NEW bits \in Nat \ {0}, NEW bytes \in {4, 8}
    PROVE  BitField(name, bits, bytes) \in AMember /\ BitField(name, bits, bytes).name = name
BY DEF BitField, Member, AMember, Units

AllNames(names) == {names[i] : i \in DOMAIN names}
Unlike(names) == /\ names \in Seq(MemberNames)
                 /\ \A i, j \in DOMAIN names : names[i] = names[j] => i = j

(* Members of one kind make a sound struct if their names differ.          *)
LEMMA ScalarsSound ==
    ASSUME NEW bytes \in {1, 2, 4}, NEW names, Unlike(names)
    PROVE  Sound(Scalars(bytes, names)) /\ NamesOf(Scalars(bytes, names)) = AllNames(names)
<1> DEFINE s == [i \in DOMAIN names |-> Block(names[i], bytes, bytes)]
<1>0. \A i \in DOMAIN names : names[i] \in MemberNames
  BY DEF Unlike
<1>1. \A i \in DOMAIN names : s[i] \in AMember /\ s[i].name = names[i]
  BY <1>0, BlockType
<1>2. s \in Seq(AMember)
  BY <1>1 DEF Unlike
<1>3. Sound(s)
  BY <1>1, <1>2 DEF Sound, Unlike
<1>4. NamesOf(s) = AllNames(names)
  BY <1>1 DEF NamesOf, AllNames
<1> QED
  BY <1>3, <1>4 DEF Scalars

LEMMA BitFieldsSound ==
    ASSUME NEW bytes \in {4, 8}, NEW bits \in Nat \ {0}, NEW names, Unlike(names)
    PROVE  /\ Sound(BitFields(bytes, bits, names))
           /\ NamesOf(BitFields(bytes, bits, names)) = AllNames(names)
<1> DEFINE s == [i \in DOMAIN names |-> BitField(names[i], bits, bytes)]
<1>0. \A i \in DOMAIN names : names[i] \in MemberNames
  BY DEF Unlike
<1>1. \A i \in DOMAIN names : s[i] \in AMember /\ s[i].name = names[i]
  BY <1>0, BitFieldType
<1>2. s \in Seq(AMember)
  BY <1>1 DEF Unlike
<1>3. Sound(s)
  BY <1>1, <1>2 DEF Sound, Unlike
<1>4. NamesOf(s) = AllNames(names)
  BY <1>1 DEF NamesOf, AllNames
<1> QED
  BY <1>3, <1>4 DEF BitFields

(* A list of different names, and which they are.                          *)
Lists(names, N) == Unlike(names) /\ AllNames(names) = N

IsStruct(s, names) == Sound(s) /\ NamesOf(s) = names

(* Struct c begins as struct a does: the members of a are where they were, *)
(* and what else there is lies behind them.                                *)
Keeps(c, a) ==
    /\ NamesOf(a) \subseteq NamesOf(c)
    /\ \A name \in NamesOf(a) :
          /\ Layout(c)[name].first = Layout(a)[name].first
          /\ Layout(c)[name].upto = Layout(a)[name].upto
    /\ \A name \in NamesOf(a), other \in NamesOf(c) \ NamesOf(a) :
          Layout(a)[name].upto <= Layout(c)[other].first

(* A struct that is extended twice keeps what it had.                      *)
LEMMA KeepsTransitive ==
    ASSUME NEW a, NEW b, NEW c, Keeps(b, a), Keeps(c, b)
    PROVE  Keeps(c, a)
<1>1. NamesOf(a) \subseteq NamesOf(c)
  BY DEF Keeps
<1>2. ASSUME NEW name \in NamesOf(a)
      PROVE  /\ Layout(c)[name].first = Layout(a)[name].first
             /\ Layout(c)[name].upto = Layout(a)[name].upto
  BY <1>2 DEF Keeps
<1>3. ASSUME NEW name \in NamesOf(a), NEW other \in NamesOf(c) \ NamesOf(a)
      PROVE  Layout(a)[name].upto <= Layout(c)[other].first
  <2>1. CASE other \in NamesOf(b)
    <3>1. Layout(c)[other].first = Layout(b)[other].first
      BY <2>1 DEF Keeps
    <3>2. Layout(a)[name].upto <= Layout(b)[other].first
      BY <2>1 DEF Keeps
    <3> QED
      BY <3>1, <3>2
  <2>2. CASE other \notin NamesOf(b)
    <3>1. name \in NamesOf(b) /\ Layout(b)[name].upto = Layout(a)[name].upto
      BY DEF Keeps
    <3>2. Layout(b)[name].upto <= Layout(c)[other].first
      BY <2>2, <3>1 DEF Keeps
    <3> QED
      BY <3>1, <3>2
  <2> QED
    BY <2>1, <2>2
<1> QED
  BY <1>1, <1>2, <1>3 DEF Keeps

(* Members appended to a struct, under names of their own.                 *)
LEMMA Joined ==
    ASSUME NEW a, NEW A, IsStruct(a, A), NEW b, NEW B, IsStruct(b, B), A \cap B = {}
    PROVE  IsStruct(a \o b, A \cup B) /\ Keeps(a \o b, a)
<1>1. /\ Sound(a) /\ Sound(b) /\ NamesOf(a) = A /\ NamesOf(b) = B
      /\ NamesOf(a) \cap NamesOf(b) = {}
  BY DEF IsStruct
<1>2. Sound(a \o b) /\ NamesOf(a \o b) = NamesOf(a) \cup NamesOf(b)
  BY <1>1, SoundJoined
<1>3. /\ \A name \in NamesOf(a) :
            /\ Layout(a \o b)[name].first = Layout(a)[name].first
            /\ Layout(a \o b)[name].upto = Layout(a)[name].upto
      /\ \A name \in NamesOf(a), other \in NamesOf(b) :
            Layout(a)[name].upto <= Layout(a \o b)[other].first
  BY <1>1, LayoutJoined
<1>4. \A other \in NamesOf(a \o b) \ NamesOf(a) : other \in NamesOf(b)
  BY <1>2
<1>5. Keeps(a \o b, a)
  BY <1>2, <1>3, <1>4 DEF Keeps
<1> QED
  BY <1>1, <1>2, <1>5 DEF IsStruct

LEMMA JoinedOn ==
    ASSUME NEW a, NEW A, IsStruct(a, A), NEW b, NEW B, IsStruct(b, B), A \cap B = {},
           NEW base, Keeps(a, base)
    PROVE  IsStruct(a \o b, A \cup B) /\ Keeps(a \o b, base)
BY Joined, KeepsTransitive

(* Runs of scalars and of bit-fields.                                      *)
LEMMA ScalarsNamed ==
    ASSUME NEW bytes \in {1, 2, 4}, NEW names, NEW N, Lists(names, N)
    PROVE  IsStruct(Scalars(bytes, names), N)
BY ScalarsSound DEF IsStruct, Lists

LEMMA BitFieldsNamed ==
    ASSUME NEW bytes \in {4, 8}, NEW bits \in Nat \ {0}, NEW names, NEW N, Lists(names, N)
    PROVE  IsStruct(BitFields(bytes, bits, names), N)
BY BitFieldsSound DEF IsStruct, Lists

(* A few members with names of their own.                                  *)
LEMMA OneMember ==
    ASSUME NEW a \in AMember
    PROVE  IsStruct(<<a>>, {a.name})
BY DEF IsStruct, Sound, NamesOf

LEMMA TwoMembers ==
    ASSUME NEW a \in AMember, NEW b \in AMember,
           a.name # b.name
    PROVE  IsStruct(<<a, b>>, {a.name, b.name})
BY DEF IsStruct, Sound, NamesOf

LEMMA ThreeMembers ==
    ASSUME NEW a \in AMember, NEW b \in AMember, NEW c \in AMember,
           a.name # b.name, a.name # c.name, b.name # c.name
    PROVE  IsStruct(<<a, b, c>>, {a.name, b.name, c.name})
BY DEF IsStruct, Sound, NamesOf

LEMMA FourMembers ==
    ASSUME NEW a \in AMember, NEW b \in AMember, NEW c \in AMember,
           NEW d \in AMember,
           a.name # b.name, a.name # c.name, a.name # d.name, b.name # c.name,
           b.name # d.name, c.name # d.name
    PROVE  IsStruct(<<a, b, c, d>>, {a.name, b.name, c.name, d.name})
BY DEF IsStruct, Sound, NamesOf

LEMMA SixMembers ==
    ASSUME NEW a \in AMember, NEW b \in AMember, NEW c \in AMember,
           NEW d \in AMember, NEW e \in AMember, NEW f \in AMember,
           a.name # b.name, a.name # c.name, a.name # d.name, a.name # e.name,
           a.name # f.name, b.name # c.name, b.name # d.name, b.name # e.name,
           b.name # f.name, c.name # d.name, c.name # e.name, c.name # f.name,
           d.name # e.name, d.name # f.name, e.name # f.name
    PROVE  IsStruct(<<a, b, c, d, e, f>>, {a.name, b.name, c.name, d.name, e.name, f.name})
BY DEF IsStruct, Sound, NamesOf

(* The blocks that the versions share.                                     *)
LEMMA EventWordsStruct == IsStruct(EventWords, EventNames)
<1> DEFINE a == Scalars(4, <<"run", "event", "event_second", "event_time",
                "last_pps", "llast_pps">>)
           A == {"run", "event", "event_second", "event_time", "last_pps",
                "llast_pps"}
<1>1. IsStruct(a, A)
  <2>1. Lists(<<"run", "event", "event_second", "event_time", "last_pps",
              "llast_pps">>, A)
    BY DEF Lists, Unlike, AllNames, MemberNames, EventNames
  <2> QED
    BY <2>1, ScalarsNamed
<1> HIDE DEF a
<1> QED
  BY <1>1 DEF EventWords, EventNames, a

LEMMA DeadTimesStruct == IsStruct(DeadTimes, DeadNames)
<1> DEFINE a == Scalars(4, <<"deadtime_counter", "deadtime_counter_last_pps",
                "deadtime_counter_llast_pps">>)
           A == {"deadtime_counter", "deadtime_counter_last_pps",
                "deadtime_counter_llast_pps"}
<1>1. IsStruct(a, A)
  <2>1. Lists(<<"deadtime_counter", "deadtime_counter_last_pps",
              "deadtime_counter_llast_pps">>, A)
    BY DEF Lists, Unlike, AllNames, MemberNames, DeadNames
  <2> QED
    BY <2>1, ScalarsNamed
<1> HIDE DEF a
<1> QED
  BY <1>1 DEF DeadTimes, DeadNames, a

LEMMA TriggerStruct == IsStruct(Trigger, TriggerNames)
<1> DEFINE a == <<BitField("L2_mask", 24, 4)>>
           A == {"L2_mask"}
           b == BitFields(4, 1, <<"soft_trigger", "pps_trigger", "ext_trigger">>)
           B == {"soft_trigger", "pps_trigger", "ext_trigger"}
           c == <<BitField("reserved", 5, 4)>>
           C == {"reserved"}
<1>0. {"L2_mask", "reserved"} \subseteq MemberNames
  BY DEF MemberNames, TriggerNames
<1>1. IsStruct(a, A)
  <2>1. /\ BitField("L2_mask", 24, 4) \in AMember
        /\ BitField("L2_mask", 24, 4).name = "L2_mask"
    BY <1>0, BitFieldType
  <2> QED
    BY <2>1, OneMember
<1>2. IsStruct(b, B)
  <2>1. Lists(<<"soft_trigger", "pps_trigger", "ext_trigger">>, B)
    BY DEF Lists, Unlike, AllNames, MemberNames, TriggerNames
  <2> QED
    BY <2>1, BitFieldsNamed
<1>3. IsStruct(c, C)
  <2>1. /\ BitField("reserved", 5, 4) \in AMember
        /\ BitField("reserved", 5, 4).name = "reserved"
    BY <1>0, BitFieldType
  <2> QED
    BY <2>1, OneMember
<1> HIDE DEF a, b, c
<1>4. IsStruct(a \o b, A \cup B)
  BY <1>1, <1>2, Joined
<1>5. IsStruct(a \o b \o c, A \cup B \cup C)
  BY <1>4, <1>3, Joined
<1>6. TriggerNames = A \cup B \cup C
  BY DEF TriggerNames
<1> QED
  BY <1>5, <1>6 DEF Trigger, a, b, c

LEMMA SlowHeadStruct == IsStruct(SlowHead, SlowHeadNames)
<1> DEFINE a == Scalars(2, <<"ncmds", "time_since_last_cmd">>)
           A == {"ncmds", "time_since_last_cmd"}
           b == <<BitField("last_cmd", 8, 4), BitField("sipd_uptime", 24, 4)>>
           B == {"last_cmd", "sipd_uptime"}
           c == Scalars(4, <<"cpu_time">>)
           C == {"cpu_time"}
           d == <<BitField("cpu_uptime", 24, 4)>>
           D == {"cpu_uptime"}
           e == BitFields(4, 1, <<"can_ping_world", "starlink_on", "los_on">>)
           E == {"can_ping_world", "starlink_on", "los_on"}
<1>0. {"last_cmd", "sipd_uptime", "cpu_uptime"} \subseteq MemberNames
  BY DEF MemberNames, SlowHeadNames
<1>1. IsStruct(a, A)
  <2>1. Lists(<<"ncmds", "time_since_last_cmd">>, A)
    BY DEF Lists, Unlike, AllNames, MemberNames, SlowHeadNames
  <2> QED
    BY <2>1, ScalarsNamed
<1>2. IsStruct(b, B)
  <2>1. /\ BitField("last_cmd", 8, 4) \in AMember
        /\ BitField("last_cmd", 8, 4).name = "last_cmd"
        /\ BitField("sipd_uptime", 24, 4) \in AMember
        /\ BitField("sipd_uptime", 24, 4).name = "sipd_uptime"
    BY <1>0, BitFieldType
  <2> QED
    BY <2>1, TwoMembers
<1>3. IsStruct(c, C)
  <2>1. Lists(<<"cpu_time">>, C)
    BY DEF Lists, Unlike, AllNames, MemberNames, SlowHeadNames
  <2> QED
    BY <2>1, ScalarsNamed
<1>4. IsStruct(d, D)
  <2>1. /\ BitField("cpu_uptime", 24, 4) \in AMember
        /\ BitField("cpu_uptime", 24, 4).name = "cpu_uptime"
    BY <1>0, BitFieldType
  <2> QED
    BY <2>1, OneMember
<1>5. IsStruct(e, E)
  <2>1. Lists(<<"can_ping_world", "starlink_on", "los_on">>, E)
    BY DEF Lists, Unlike, AllNames, MemberNames, SlowHeadNames
  <2> QED
    BY <2>1, BitFieldsNamed
<1> HIDE DEF a, b, c, d, e
<1>6. IsStruct(a \o b, A \cup B)
  BY <1>1, <1>2, Joined
<1>7. IsStruct(a \o b \o c, A \cup B \cup C)
  BY <1>6, <1>3, Joined
<1>8. IsStruct(a \o b \o c \o d, A \cup B \cup C \cup D)
  BY <1>7, <1>4, Joined
<1>9. IsStruct(a \o b \o c \o d \o e, A \cup B \cup C \cup D \cup E)
  BY <1>8, <1>5, Joined
<1>10. SlowHeadNames = A \cup B \cup C \cup D \cup E
  BY DEF SlowHeadNames
<1> QED
  BY <1>9, <1>10 DEF SlowHead, a, b, c, d, e

LEMMA RunStruct == IsStruct(Run, RunNames)
<1> DEFINE a == Scalars(2, <<"current_run", "current_run_secs">>)
           A == {"current_run", "current_run_secs"}
<1>1. IsStruct(a, A)
  <2>1. Lists(<<"current_run", "current_run_secs">>, A)
    BY DEF Lists, Unlike, AllNames, MemberNames, RunNames
  <2> QED
    BY <2>1, ScalarsNamed
<1> HIDE DEF a
<1> QED
  BY <1>1 DEF Run, RunNames, a

LEMMA TurfStruct == IsStruct(Turf, TurfNames)
<1> DEFINE a == <<Block("turfio_words_recv", 16, 4)>>
           A == {"turfio_words_recv"}
           b == Scalars(4, <<"qwords_sent", "events_sent", "trigger_count",
                "current_second", "last_pps", "llast_pps", "last_dead",
                "llast_dead", "panic_count", "occupancy">>)
           B == {"qwords_sent", "events_sent", "trigger_count", "current_second",
                "last_pps", "llast_pps", "last_dead", "llast_dead", "panic_count",
                "occupancy"}
           c == Scalars(2, <<"ack_count", "latency", "offset", "pps_trig_offset">>)
           C == {"ack_count", "latency", "offset", "pps_trig_offset"}
<1>0. {"turfio_words_recv"} \subseteq MemberNames
  BY DEF MemberNames, TurfNames
<1>1. IsStruct(a, A)
  <2>1. /\ Block("turfio_words_recv", 16, 4) \in AMember
        /\ Block("turfio_words_recv", 16, 4).name = "turfio_words_recv"
    BY <1>0, BlockType
  <2> QED
    BY <2>1, OneMember
<1>2. IsStruct(b, B)
  <2>1. Lists(<<"qwords_sent", "events_sent", "trigger_count", "current_second",
              "last_pps", "llast_pps", "last_dead", "llast_dead", "panic_count",
              "occupancy">>, B)
    BY DEF Lists, Unlike, AllNames, MemberNames, TurfNames
  <2> QED
    BY <2>1, ScalarsNamed
<1>3. IsStruct(c, C)
  <2>1. Lists(<<"ack_count", "latency", "offset", "pps_trig_offset">>, C)
    BY DEF Lists, Unlike, AllNames, MemberNames, TurfNames
  <2> QED
    BY <2>1, ScalarsNamed
<1> HIDE DEF a, b, c
<1>4. IsStruct(a \o b, A \cup B)
  BY <1>1, <1>2, Joined
<1>5. IsStruct(a \o b \o c, A \cup B \cup C)
  BY <1>4, <1>3, Joined
<1>6. TurfNames = A \cup B \cup C
  BY DEF TurfNames
<1> QED
  BY <1>5, <1>6 DEF Turf, a, b, c

LEMMA TotalsStruct == IsStruct(Totals, TotalsNames)
<1> DEFINE a == Scalars(2, <<"MIE_total_H", "MIE_total_V", "LF_total_H",
                "LF_total_V", "aux_total", "global_total">>)
           A == {"MIE_total_H", "MIE_total_V", "LF_total_H", "LF_total_V",
                "aux_total", "global_total"}
<1>1. IsStruct(a, A)
  <2>1. Lists(<<"MIE_total_H", "MIE_total_V", "LF_total_H", "LF_total_V",
              "aux_total", "global_total">>, A)
    BY DEF Lists, Unlike, AllNames, MemberNames, TotalsNames
  <2> QED
    BY <2>1, ScalarsNamed
<1> HIDE DEF a
<1> QED
  BY <1>1 DEF Totals, TotalsNames, a

LEMMA EnableMaskStruct == IsStruct(EnableMask, EnableMaskNames)
<1> DEFINE a == Scalars(4, <<"l2_enable_mask">>)
           A == {"l2_enable_mask"}
<1>1. IsStruct(a, A)
  <2>1. Lists(<<"l2_enable_mask">>, A)
    BY DEF Lists, Unlike, AllNames, MemberNames, EnableMaskNames
  <2> QED
    BY <2>1, ScalarsNamed
<1> HIDE DEF a
<1> QED
  BY <1>1 DEF EnableMask, EnableMaskNames, a

LEMMA FractionStruct == IsStruct(Fraction, FractionNames)
<1> DEFINE a == <<Block("enable_mask_fraction", 26, 1)>>
           A == {"enable_mask_fraction"}
<1>0. {"enable_mask_fraction"} \subseteq MemberNames
  BY DEF MemberNames, FractionNames
<1>1. IsStruct(a, A)
  <2>1. /\ Block("enable_mask_fraction", 26, 1) \in AMember
        /\ Block("enable_mask_fraction", 26, 1).name = "enable_mask_fraction"
    BY <1>0, BlockType
  <2> QED
    BY <2>1, OneMember
<1> HIDE DEF a
<1> QED
  BY <1>1 DEF Fraction, FractionNames, a

LEMMA SummaryHeadStruct == IsStruct(SummaryHead, SummaryHeadNames)
<1> DEFINE a == <<Block("surf", 26 * 48 * 4, 4), Block("Hscalers_avg", 12, 1),
                Block("Vscalers_avg", 12, 1)>>
           A == {"surf", "Hscalers_avg", "Vscalers_avg"}
           b == BitFields(8, 9, <<"MIE_total_H_avg", "MIE_total_V_avg">>)
           B == {"MIE_total_H_avg", "MIE_total_V_avg"}
           c == <<BitField("aux_total_avg", 6, 8), BitField("pps_rate", 2, 8)>>
           C == {"aux_total_avg", "pps_rate"}
           d == BitFields(8, 10, <<"global_total_avg", "global_total_min",
                "global_total_max">>)
           D == {"global_total_avg", "global_total_min", "global_total_max"}
           e == <<BitField("global_total_rms", 8, 8)>>
           E == {"global_total_rms"}
           f == Scalars(4, <<"start_second", "end_second">>)
           F == {"start_second", "end_second"}
<1>0. {"surf", "Hscalers_avg", "Vscalers_avg", "aux_total_avg", "pps_rate",
      "global_total_rms"} \subseteq MemberNames
  BY DEF MemberNames, SummaryHeadNames
<1>1. IsStruct(a, A)
  <2>1. /\ Block("surf", 26 * 48 * 4, 4) \in AMember
        /\ Block("surf", 26 * 48 * 4, 4).name = "surf"
        /\ Block("Hscalers_avg", 12, 1) \in AMember
        /\ Block("Hscalers_avg", 12, 1).name = "Hscalers_avg"
        /\ Block("Vscalers_avg", 12, 1) \in AMember
        /\ Block("Vscalers_avg", 12, 1).name = "Vscalers_avg"
    BY <1>0, BlockType
  <2> QED
    BY <2>1, ThreeMembers
<1>2. IsStruct(b, B)
  <2>1. Lists(<<"MIE_total_H_avg", "MIE_total_V_avg">>, B)
    BY DEF Lists, Unlike, AllNames, MemberNames, SummaryHeadNames
  <2> QED
    BY <2>1, BitFieldsNamed
<1>3. IsStruct(c, C)
  <2>1. /\ BitField("aux_total_avg", 6, 8) \in AMember
        /\ BitField("aux_total_avg", 6, 8).name = "aux_total_avg"
        /\ BitField("pps_rate", 2, 8) \in AMember
        /\ BitField("pps_rate", 2, 8).name = "pps_rate"
    BY <1>0, BitFieldType
  <2> QED
    BY <2>1, TwoMembers
<1>4. IsStruct(d, D)
  <2>1. Lists(<<"global_total_avg", "global_total_min", "global_total_max">>, D)
    BY DEF Lists, Unlike, AllNames, MemberNames, SummaryHeadNames
  <2> QED
    BY <2>1, BitFieldsNamed
<1>5. IsStruct(e, E)
  <2>1. /\ BitField("global_total_rms", 8, 8) \in AMember
        /\ BitField("global_total_rms", 8, 8).name = "global_total_rms"
    BY <1>0, BitFieldType
  <2> QED
    BY <2>1, OneMember
<1>6. IsStruct(f, F)
  <2>1. Lists(<<"start_second", "end_second">>, F)
    BY DEF Lists, Unlike, AllNames, MemberNames, SummaryHeadNames
  <2> QED
    BY <2>1, ScalarsNamed
<1> HIDE DEF a, b, c, d, e, f
<1>7. IsStruct(a \o b, A \cup B)
  BY <1>1, <1>2, Joined
<1>8. IsStruct(a \o b \o c, A \cup B \cup C)
  BY <1>7, <1>3, Joined
<1>9. IsStruct(a \o b \o c \o d, A \cup B \cup C \cup D)
  BY <1>8, <1>4, Joined
<1>10. IsStruct(a \o b \o c \o d \o e, A \cup B \cup C \cup D \cup E)
  BY <1>9, <1>5, Joined
<1>11. IsStruct(a \o b \o c \o d \o e \o f, A \cup B \cup C \cup D \cup E \cup F)
  BY <1>10, <1>6, Joined
<1>12. SummaryHeadNames = A \cup B \cup C \cup D \cup E \cup F
  BY DEF SummaryHeadNames
<1> QED
  BY <1>11, <1>12 DEF SummaryHead, a, b, c, d, e, f

(* The parts of an event that come before the waveforms.                   *)
EventCore == EventWords \o DeadTimes \o Trigger
CoreNames == EventNames \cup DeadNames \cup TriggerNames
EventHeadNames == CoreNames \cup {"readout_time"}

(* The events, version by version.                                         *)
LEMMA EventCoreStruct ==
    /\ IsStruct(EventCore, CoreNames)
    /\ Keeps(EventCore, EventWords)
<1>1. EventNames \cap DeadNames = {}
  BY DEF EventNames, DeadNames
<1>2. /\ IsStruct(EventWords \o DeadTimes, EventNames \cup DeadNames)
      /\ Keeps(EventWords \o DeadTimes, EventWords)
  BY EventWordsStruct, DeadTimesStruct, <1>1, Joined
<1>3. (EventNames \cup DeadNames) \cap TriggerNames = {}
  BY DEF EventNames, DeadNames, TriggerNames
<1>4. /\ IsStruct(EventWords \o DeadTimes \o Trigger, EventNames \cup DeadNames \cup
         TriggerNames)
      /\ Keeps(EventWords \o DeadTimes \o Trigger, EventWords)
  BY <1>2, TriggerStruct, <1>3, JoinedOn
<1>5. CoreNames = EventNames \cup DeadNames \cup TriggerNames
  BY DEF CoreNames
<1> QED
  BY <1>4, <1>5 DEF EventCore

LEMMA EventHeadStruct ==
    /\ IsStruct(EventHead, EventHeadNames)
    /\ Keeps(EventHead, EventCore)
<1> DEFINE b == <<Time("readout_time")>>
           B == {"readout_time"}
<1>0. {"readout_time"} \subseteq MemberNames
  BY DEF MemberNames, WaveNames
<1>1. IsStruct(b, B)
  <2>1. /\ Time("readout_time") \in AMember
        /\ Time("readout_time").name = "readout_time"
    BY <1>0, BlockType DEF Time
  <2> QED
    BY <2>1, OneMember
<1> HIDE DEF b
<1>2. CoreNames \cap B = {}
  BY DEF CoreNames, EventNames, DeadNames, TriggerNames
<1>3. /\ IsStruct(EventCore \o b, CoreNames \cup B)
      /\ Keeps(EventCore \o b, EventCore)
  BY EventCoreStruct, <1>1, <1>2, Joined
<1>4. EventHeadNames = CoreNames \cup B
  BY DEF EventHeadNames
<1> QED
  BY <1>3, <1>4 DEF EventHead, EventCore, b

LEMMA TriggerMetaStruct == IsStruct(TriggerMeta, {"trigger_meta"})
<1> DEFINE a == <<Block("trigger_meta", 16, 4)>>
           A == {"trigger_meta"}
<1>0. {"trigger_meta"} \subseteq MemberNames
  BY DEF MemberNames, WaveNames
<1>1. IsStruct(a, A)
  <2>1. /\ Block("trigger_meta", 16, 4) \in AMember
        /\ Block("trigger_meta", 16, 4).name = "trigger_meta"
    BY <1>0, BlockType
  <2> QED
    BY <2>1, OneMember
<1> HIDE DEF a
<1> QED
  BY <1>1 DEF TriggerMeta, a

LEMMA FullOldStruct ==
    /\ IsStruct(FullWaveforms[1], EventNames \cup {"trigger_meta", "wfs"})
    /\ Keeps(FullWaveforms[1], EventWords)
<1> DEFINE c == <<Waveforms>>
           C == {"wfs"}
<1>0. {"wfs"} \subseteq MemberNames
  BY DEF MemberNames, WaveNames
<1>1. IsStruct(c, C)
  <2>1. /\ Waveforms \in AMember
        /\ Waveforms.name = "wfs"
    BY <1>0, BlockType DEF Waveforms
  <2> QED
    BY <2>1, OneMember
<1> HIDE DEF c
<1>2. EventNames \cap {"trigger_meta"} = {}
  BY DEF EventNames
<1>3. /\ IsStruct(EventWords \o TriggerMeta, EventNames \cup {"trigger_meta"})
      /\ Keeps(EventWords \o TriggerMeta, EventWords)
  BY EventWordsStruct, TriggerMetaStruct, <1>2, Joined
<1>4. (EventNames \cup {"trigger_meta"}) \cap C = {}
  BY DEF EventNames
<1>5. /\ IsStruct(EventWords \o TriggerMeta \o c, EventNames \cup {"trigger_meta"}
         \cup C)
      /\ Keeps(EventWords \o TriggerMeta \o c, EventWords)
  BY <1>3, <1>1, <1>4, JoinedOn
<1>6. FullWaveforms[1] = EventWords \o TriggerMeta \o c
  BY DEF FullWaveforms, c
<1>7. EventNames \cup {"trigger_meta", "wfs"} = EventNames \cup {"trigger_meta"}
                                                \cup C
  OBVIOUS
<1> QED
  BY <1>5, <1>6, <1>7

LEMMA FullNewStruct ==
    /\ IsStruct(FullWaveforms[2], EventHeadNames \cup {"wfs"})
    /\ Keeps(FullWaveforms[2], EventHead)
<1> DEFINE b == <<Waveforms>>
           B == {"wfs"}
<1>0. {"wfs"} \subseteq MemberNames
  BY DEF MemberNames, WaveNames
<1>1. IsStruct(b, B)
  <2>1. /\ Waveforms \in AMember
        /\ Waveforms.name = "wfs"
    BY <1>0, BlockType DEF Waveforms
  <2> QED
    BY <2>1, OneMember
<1> HIDE DEF b
<1>2. EventHeadNames \cap B = {}
  BY DEF EventHeadNames, CoreNames, EventNames, DeadNames, TriggerNames
<1>3. /\ IsStruct(EventHead \o b, EventHeadNames \cup B)
      /\ Keeps(EventHead \o b, EventHead)
  BY EventHeadStruct, <1>1, <1>2, Joined
<1>4. FullWaveforms[2] = EventHead \o b
  BY DEF FullWaveforms, b
<1>5. EventHeadNames \cup {"wfs"} = EventHeadNames \cup B
  OBVIOUS
<1> QED
  BY <1>3, <1>4, <1>5

LEMMA SingleOldStruct ==
    /\ IsStruct(SingleWaveform[1], EventNames \cup {"trigger_meta", "wf"})
    /\ Keeps(SingleWaveform[1], EventWords)
<1> DEFINE c == <<Waveform("wf")>>
           C == {"wf"}
<1>0. {"wf"} \subseteq MemberNames
  BY DEF MemberNames, WaveNames
<1>1. IsStruct(c, C)
  <2>1. /\ Waveform("wf") \in AMember
        /\ Waveform("wf").name = "wf"
    BY <1>0, BlockType DEF Waveform
  <2> QED
    BY <2>1, OneMember
<1> HIDE DEF c
<1>2. EventNames \cap {"trigger_meta"} = {}
  BY DEF EventNames
<1>3. /\ IsStruct(EventWords \o TriggerMeta, EventNames \cup {"trigger_meta"})
      /\ Keeps(EventWords \o TriggerMeta, EventWords)
  BY EventWordsStruct, TriggerMetaStruct, <1>2, Joined
<1>4. (EventNames \cup {"trigger_meta"}) \cap C = {}
  BY DEF EventNames
<1>5. /\ IsStruct(EventWords \o TriggerMeta \o c, EventNames \cup {"trigger_meta"}
         \cup C)
      /\ Keeps(EventWords \o TriggerMeta \o c, EventWords)
  BY <1>3, <1>1, <1>4, JoinedOn
<1>6. SingleWaveform[1] = EventWords \o TriggerMeta \o c
  BY DEF SingleWaveform, c
<1>7. EventNames \cup {"trigger_meta", "wf"} = EventNames \cup {"trigger_meta"} \cup
                                               C
  OBVIOUS
<1> QED
  BY <1>5, <1>6, <1>7

LEMMA SingleMidStruct ==
    /\ IsStruct(SingleWaveform[2], EventHeadNames \cup {"wf"})
    /\ Keeps(SingleWaveform[2], EventHead)
<1> DEFINE b == <<Waveform("wf")>>
           B == {"wf"}
<1>0. {"wf"} \subseteq MemberNames
  BY DEF MemberNames, WaveNames
<1>1. IsStruct(b, B)
  <2>1. /\ Waveform("wf") \in AMember
        /\ Waveform("wf").name = "wf"
    BY <1>0, BlockType DEF Waveform
  <2> QED
    BY <2>1, OneMember
<1> HIDE DEF b
<1>2. EventHeadNames \cap B = {}
  BY DEF EventHeadNames, CoreNames, EventNames, DeadNames, TriggerNames
<1>3. /\ IsStruct(EventHead \o b, EventHeadNames \cup B)
      /\ Keeps(EventHead \o b, EventHead)
  BY EventHeadStruct, <1>1, <1>2, Joined
<1>4. SingleWaveform[2] = EventHead \o b
  BY DEF SingleWaveform, b
<1>5. EventHeadNames \cup {"wf"} = EventHeadNames \cup B
  OBVIOUS
<1> QED
  BY <1>3, <1>4, <1>5

LEMMA SingleNewStruct ==
    /\ IsStruct(SingleWaveform[3], EventHeadNames \cup {"prio", "wf"})
    /\ Keeps(SingleWaveform[3], EventHead)
<1> DEFINE b == <<Priority, Waveform("wf")>>
           B == {"prio", "wf"}
<1>0. {"prio", "wf"} \subseteq MemberNames
  BY DEF MemberNames, WaveNames
<1>1. IsStruct(b, B)
  <2>1. /\ Priority \in AMember
        /\ Priority.name = "prio"
        /\ Waveform("wf") \in AMember
        /\ Waveform("wf").name = "wf"
    BY <1>0, BlockType DEF Priority, Waveform
  <2> QED
    BY <2>1, TwoMembers
<1> HIDE DEF b
<1>2. EventHeadNames \cap B = {}
  BY DEF EventHeadNames, CoreNames, EventNames, DeadNames, TriggerNames
<1>3. /\ IsStruct(EventHead \o b, EventHeadNames \cup B)
      /\ Keeps(EventHead \o b, EventHead)
  BY EventHeadStruct, <1>1, <1>2, Joined
<1>4. SingleWaveform[3] = EventHead \o b
  BY DEF SingleWaveform, b
<1>5. EventHeadNames \cup {"prio", "wf"} = EventHeadNames \cup B
  OBVIOUS
<1> QED
  BY <1>3, <1>4, <1>5

(* The housekeeping packets, version by version.                           *)
LEMMA DaqHeadStruct == IsStruct(DaqHead, DaqHeadNames)
<1> DEFINE a == <<Block("surfs", 28 * 448, 8), Time("l2_readout_time"),
                Block("Hscalers", 48, 4), Block("Vscalers", 48, 4),
                Time("scaler_readout_time"), Block("turfio_L1_rate", 112, 4)>>
           A == {"surfs", "l2_readout_time", "Hscalers", "Vscalers",
                "scaler_readout_time", "turfio_L1_rate"}
           b == Scalars(4, <<"soft_rate", "pps_rate", "ext_rate">>)
           B == {"soft_rate", "pps_rate", "ext_rate"}
<1>0. {"surfs", "l2_readout_time", "Hscalers", "Vscalers", "scaler_readout_time",
      "turfio_L1_rate"} \subseteq MemberNames
  BY DEF MemberNames, DaqHeadNames
<1>1. IsStruct(a, A)
  <2>1. /\ Block("surfs", 28 * 448, 8) \in AMember
        /\ Block("surfs", 28 * 448, 8).name = "surfs"
        /\ Time("l2_readout_time") \in AMember
        /\ Time("l2_readout_time").name = "l2_readout_time"
        /\ Block("Hscalers", 48, 4) \in AMember
        /\ Block("Hscalers", 48, 4).name = "Hscalers"
        /\ Block("Vscalers", 48, 4) \in AMember
        /\ Block("Vscalers", 48, 4).name = "Vscalers"
        /\ Time("scaler_readout_time") \in AMember
        /\ Time("scaler_readout_time").name = "scaler_readout_time"
        /\ Block("turfio_L1_rate", 112, 4) \in AMember
        /\ Block("turfio_L1_rate", 112, 4).name = "turfio_L1_rate"
    BY <1>0, BlockType DEF Time
  <2> QED
    BY <2>1, SixMembers
<1>2. IsStruct(b, B)
  <2>1. Lists(<<"soft_rate", "pps_rate", "ext_rate">>, B)
    BY DEF Lists, Unlike, AllNames, MemberNames, DaqHeadNames
  <2> QED
    BY <2>1, ScalarsNamed
<1> HIDE DEF a, b
<1>3. IsStruct(a \o b, A \cup B)
  BY <1>1, <1>2, Joined
<1>4. DaqHeadNames = A \cup B
  BY DEF DaqHeadNames
<1> QED
  BY <1>3, <1>4 DEF DaqHead, a, b

TotalsHskNames == DaqHeadNames \cup TotalsNames
MaskHskNames == TotalsHskNames \cup EnableMaskNames
TurfHskNames == MaskHskNames \cup TurfNames

LEMMA TotalsHskStruct ==
    /\ IsStruct(DaqHsk[2], TotalsHskNames)
    /\ Keeps(DaqHsk[2], DaqHead)
<1>1. DaqHeadNames \cap TotalsNames = {}
  BY DEF DaqHeadNames, TotalsNames
<1>2. /\ IsStruct(DaqHead \o Totals, DaqHeadNames \cup TotalsNames)
      /\ Keeps(DaqHead \o Totals, DaqHead)
  BY DaqHeadStruct, TotalsStruct, <1>1, Joined
<1>3. DaqHsk[2] = DaqHead \o Totals
  BY DEF DaqHsk
<1>4. TotalsHskNames = DaqHeadNames \cup TotalsNames
  BY DEF TotalsHskNames
<1> QED
  BY <1>2, <1>3, <1>4

LEMMA MaskHskStruct ==
    /\ IsStruct(DaqHsk[3], MaskHskNames)
    /\ Keeps(DaqHsk[3], DaqHsk[2])
<1>1. TotalsHskNames \cap EnableMaskNames = {}
  BY DEF TotalsHskNames, DaqHeadNames, TotalsNames, EnableMaskNames
<1>2. /\ IsStruct(DaqHsk[2] \o EnableMask, TotalsHskNames \cup EnableMaskNames)
      /\ Keeps(DaqHsk[2] \o EnableMask, DaqHsk[2])
  BY TotalsHskStruct, EnableMaskStruct, <1>1, Joined
<1>3. DaqHsk[3] = DaqHsk[2] \o EnableMask
  BY DEF DaqHsk
<1>4. MaskHskNames = TotalsHskNames \cup EnableMaskNames
  BY DEF MaskHskNames
<1> QED
  BY <1>2, <1>3, <1>4

LEMMA TurfHskStruct ==
    /\ IsStruct(DaqHsk[4], TurfHskNames)
    /\ Keeps(DaqHsk[4], DaqHsk[3])
<1>1. MaskHskNames \cap TurfNames = {}
  BY DEF MaskHskNames, TotalsHskNames, DaqHeadNames, TotalsNames, EnableMaskNames,
         TurfNames
<1>2. /\ IsStruct(DaqHsk[3] \o Turf, MaskHskNames \cup TurfNames)
      /\ Keeps(DaqHsk[3] \o Turf, DaqHsk[3])
  BY MaskHskStruct, TurfStruct, <1>1, Joined
<1>3. DaqHsk[4] = DaqHsk[3] \o Turf
  BY DEF DaqHsk
<1>4. TurfHskNames = MaskHskNames \cup TurfNames
  BY DEF TurfHskNames
<1> QED
  BY <1>2, <1>3, <1>4

FractionSumNames == SummaryHeadNames \cup FractionNames
TurfSumNames == FractionSumNames \cup TurfNames

LEMMA FractionSumStruct ==
    /\ IsStruct(DaqHskSummary[2], FractionSumNames)
    /\ Keeps(DaqHskSummary[2], SummaryHead)
<1>1. SummaryHeadNames \cap FractionNames = {}
  BY DEF SummaryHeadNames, FractionNames
<1>2. /\ IsStruct(SummaryHead \o Fraction, SummaryHeadNames \cup FractionNames)
      /\ Keeps(SummaryHead \o Fraction, SummaryHead)
  BY SummaryHeadStruct, FractionStruct, <1>1, Joined
<1>3. DaqHskSummary[2] = SummaryHead \o Fraction
  BY DEF DaqHskSummary
<1>4. FractionSumNames = SummaryHeadNames \cup FractionNames
  BY DEF FractionSumNames
<1> QED
  BY <1>2, <1>3, <1>4

LEMMA TurfSumStruct ==
    /\ IsStruct(DaqHskSummary[3], TurfSumNames)
    /\ Keeps(DaqHskSummary[3], DaqHskSummary[2])
<1>1. FractionSumNames \cap TurfNames = {}
  BY DEF FractionSumNames, SummaryHeadNames, FractionNames, TurfNames
<1>2. /\ IsStruct(DaqHskSummary[2] \o Turf, FractionSumNames \cup TurfNames)
      /\ Keeps(DaqHskSummary[2] \o Turf, DaqHskSummary[2])
  BY FractionSumStruct, TurfStruct, <1>1, Joined
<1>3. DaqHskSummary[3] = DaqHskSummary[2] \o Turf
  BY DEF DaqHskSummary
<1>4. TurfSumNames = FractionSumNames \cup TurfNames
  BY DEF TurfSumNames
<1> QED
  BY <1>2, <1>3, <1>4

SlowRun == SlowHead \o Run
SlowRunNames == SlowHeadNames \cup RunNames
SlowSeen == SlowHead \o BitFields(4, 1, <<"gpu_present", "nic_present", "turf_seen",
                                          "hsk_seen", "ss_seen">>)
SlowSeenRun == SlowSeen \o Run
SlowSeenNames == SlowHeadNames \cup SeenNames
SlowNewHeadNames == SlowSeenNames \cup RunNames
SlowOldNames == SlowRunNames \cup SlowTailNames
SlowNewNames == SlowNewHeadNames \cup {"current_run_events", "L2_rates"} \cup RunningNames

(* The slow packet, version by version.                                    *)
LEMMA SlowRunStruct ==
    /\ IsStruct(SlowRun, SlowRunNames)
    /\ Keeps(SlowRun, SlowHead)
<1>1. SlowHeadNames \cap RunNames = {}
  BY DEF SlowHeadNames, RunNames
<1>2. /\ IsStruct(SlowHead \o Run, SlowHeadNames \cup RunNames)
      /\ Keeps(SlowHead \o Run, SlowHead)
  BY SlowHeadStruct, RunStruct, <1>1, Joined
<1>3. SlowRunNames = SlowHeadNames \cup RunNames
  BY DEF SlowRunNames
<1> QED
  BY <1>2, <1>3 DEF SlowRun

LEMMA SlowSeenStruct ==
    /\ IsStruct(SlowSeen, SlowSeenNames)
    /\ Keeps(SlowSeen, SlowHead)
<1> DEFINE b == BitFields(4, 1, <<"gpu_present", "nic_present", "turf_seen",
                "hsk_seen", "ss_seen">>)
           B == {"gpu_present", "nic_present", "turf_seen", "hsk_seen", "ss_seen"}
<1>1. IsStruct(b, B)
  <2>1. Lists(<<"gpu_present", "nic_present", "turf_seen", "hsk_seen", "ss_seen">>,
              B)
    BY DEF Lists, Unlike, AllNames, MemberNames, SeenNames
  <2> QED
    BY <2>1, BitFieldsNamed
<1> HIDE DEF b
<1>2. SlowHeadNames \cap B = {}
  BY DEF SlowHeadNames
<1>3. /\ IsStruct(SlowHead \o b, SlowHeadNames \cup B)
      /\ Keeps(SlowHead \o b, SlowHead)
  BY SlowHeadStruct, <1>1, <1>2, Joined
<1>4. SlowSeenNames = SlowHeadNames \cup B
  BY DEF SlowSeenNames, SeenNames
<1> QED
  BY <1>3, <1>4 DEF SlowSeen, b

LEMMA SlowSeenRunStruct ==
    /\ IsStruct(SlowSeenRun, SlowNewHeadNames)
    /\ Keeps(SlowSeenRun, SlowSeen)
<1>1. SlowSeenNames \cap RunNames = {}
  BY DEF SlowSeenNames, SlowHeadNames, SeenNames, RunNames
<1>2. /\ IsStruct(SlowSeen \o Run, SlowSeenNames \cup RunNames)
      /\ Keeps(SlowSeen \o Run, SlowSeen)
  BY SlowSeenStruct, RunStruct, <1>1, Joined
<1>3. SlowNewHeadNames = SlowSeenNames \cup RunNames
  BY DEF SlowNewHeadNames
<1> QED
  BY <1>2, <1>3 DEF SlowSeenRun

LEMMA SlowOldStruct ==
    /\ IsStruct(Slow[1], SlowOldNames)
    /\ Keeps(Slow[1], SlowRun)
<1> DEFINE b == Scalars(4, <<"current_run_events">>)
           B == {"current_run_events"}
           c == <<Block("L1_rates", 24, 2), Block("L2_rates", 12, 1)>>
           C == {"L1_rates", "L2_rates"}
<1>0. {"L1_rates", "L2_rates"} \subseteq MemberNames
  BY DEF MemberNames, SlowTailNames
<1>1. IsStruct(b, B)
  <2>1. Lists(<<"current_run_events">>, B)
    BY DEF Lists, Unlike, AllNames, MemberNames, SlowTailNames
  <2> QED
    BY <2>1, ScalarsNamed
<1>2. IsStruct(c, C)
  <2>1. /\ Block("L1_rates", 24, 2) \in AMember
        /\ Block("L1_rates", 24, 2).name = "L1_rates"
        /\ Block("L2_rates", 12, 1) \in AMember
        /\ Block("L2_rates", 12, 1).name = "L2_rates"
    BY <1>0, BlockType
  <2> QED
    BY <2>1, TwoMembers
<1> HIDE DEF b, c
<1>3. SlowRunNames \cap B = {}
  BY DEF SlowRunNames, SlowHeadNames, RunNames
<1>4. /\ IsStruct(SlowRun \o b, SlowRunNames \cup B)
      /\ Keeps(SlowRun \o b, SlowRun)
  BY SlowRunStruct, <1>1, <1>3, Joined
<1>5. (SlowRunNames \cup B) \cap C = {}
  BY DEF SlowRunNames, SlowHeadNames, RunNames
<1>6. /\ IsStruct(SlowRun \o b \o c, SlowRunNames \cup B \cup C)
      /\ Keeps(SlowRun \o b \o c, SlowRun)
  BY <1>4, <1>2, <1>5, JoinedOn
<1>7. Slow[1] = SlowRun \o b \o c
  BY DEF Slow, SlowRun, b, c
<1>8. SlowOldNames = SlowRunNames \cup B \cup C
  BY DEF SlowOldNames, SlowTailNames
<1> QED
  BY <1>6, <1>7, <1>8

LEMMA SlowNewStruct ==
    /\ IsStruct(Slow[2], SlowNewNames)
    /\ Keeps(Slow[2], SlowSeenRun)
<1> DEFINE b == <<BitField("current_run_events", 24, 4)>>
           B == {"current_run_events"}
           c == BitFields(4, 1, <<"acqd_running", "prioritizerd_running">>)
           C == {"acqd_running", "prioritizerd_running"}
           d == BitFields(4, 24, <<"current_run_rf_events", "hsk_uptime">>)
           D == {"current_run_rf_events", "hsk_uptime"}
           e == <<Block("L2_rates", 48, 2), Block("pals", 4, 2), Block("ssd", 8, 8),
                Block("nav", 4, 4)>>
           E == {"L2_rates", "pals", "ssd", "nav"}
           f == Scalars(1, <<"NIC_temperature", "SFC_temperature">>)
           F == {"NIC_temperature", "SFC_temperature"}
           g == BitFields(4, 11, <<"pwr_from_sun", "pwr_usage">>)
           G == {"pwr_from_sun", "pwr_usage"}
           h == <<BitField("battery_state", 3, 4), BitField("AMPA_current", 4, 4)>>
           H == {"battery_state", "AMPA_current"}
           i == BitFields(4, 1, <<"VPol_Crate_on", "HPol_Crate_on",
                "SFC_Voltage_on">>)
           I == {"VPol_Crate_on", "HPol_Crate_on", "SFC_Voltage_on"}
           j == Scalars(1, <<"VPol_Current", "HPol_Current", "SFC_Current">>)
           J == {"VPol_Current", "HPol_Current", "SFC_Current"}
<1>0. {"current_run_events", "L2_rates", "pals", "ssd", "nav", "battery_state",
      "AMPA_current"} \subseteq MemberNames
  BY DEF MemberNames, SlowTailNames, RunningNames
<1>1. IsStruct(b, B)
  <2>1. /\ BitField("current_run_events", 24, 4) \in AMember
        /\ BitField("current_run_events", 24, 4).name = "current_run_events"
    BY <1>0, BitFieldType
  <2> QED
    BY <2>1, OneMember
<1>2. IsStruct(c, C)
  <2>1. Lists(<<"acqd_running", "prioritizerd_running">>, C)
    BY DEF Lists, Unlike, AllNames, MemberNames, SlowTailNames, RunningNames
  <2> QED
    BY <2>1, BitFieldsNamed
<1>3. IsStruct(d, D)
  <2>1. Lists(<<"current_run_rf_events", "hsk_uptime">>, D)
    BY DEF Lists, Unlike, AllNames, MemberNames, SlowTailNames, RunningNames
  <2> QED
    BY <2>1, BitFieldsNamed
<1>4. IsStruct(e, E)
  <2>1. /\ Block("L2_rates", 48, 2) \in AMember
        /\ Block("L2_rates", 48, 2).name = "L2_rates"
        /\ Block("pals", 4, 2) \in AMember
        /\ Block("pals", 4, 2).name = "pals"
        /\ Block("ssd", 8, 8) \in AMember
        /\ Block("ssd", 8, 8).name = "ssd"
        /\ Block("nav", 4, 4) \in AMember
        /\ Block("nav", 4, 4).name = "nav"
    BY <1>0, BlockType
  <2> QED
    BY <2>1, FourMembers
<1>5. IsStruct(f, F)
  <2>1. Lists(<<"NIC_temperature", "SFC_temperature">>, F)
    BY DEF Lists, Unlike, AllNames, MemberNames, SlowTailNames, RunningNames
  <2> QED
    BY <2>1, ScalarsNamed
<1>6. IsStruct(g, G)
  <2>1. Lists(<<"pwr_from_sun", "pwr_usage">>, G)
    BY DEF Lists, Unlike, AllNames, MemberNames, SlowTailNames, RunningNames
  <2> QED
    BY <2>1, BitFieldsNamed
<1>7. IsStruct(h, H)
  <2>1. /\ BitField("battery_state", 3, 4) \in AMember
        /\ BitField("battery_state", 3, 4).name = "battery_state"
        /\ BitField("AMPA_current", 4, 4) \in AMember
        /\ BitField("AMPA_current", 4, 4).name = "AMPA_current"
    BY <1>0, BitFieldType
  <2> QED
    BY <2>1, TwoMembers
<1>8. IsStruct(i, I)
  <2>1. Lists(<<"VPol_Crate_on", "HPol_Crate_on", "SFC_Voltage_on">>, I)
    BY DEF Lists, Unlike, AllNames, MemberNames, SlowTailNames, RunningNames
  <2> QED
    BY <2>1, BitFieldsNamed
<1>9. IsStruct(j, J)
  <2>1. Lists(<<"VPol_Current", "HPol_Current", "SFC_Current">>, J)
    BY DEF Lists, Unlike, AllNames, MemberNames, SlowTailNames, RunningNames
  <2> QED
    BY <2>1, ScalarsNamed
<1> HIDE DEF b, c, d, e, f, g, h, i, j
<1>10. SlowNewHeadNames \cap B = {}
  BY DEF SlowNewHeadNames, SlowSeenNames, SlowHeadNames, SeenNames, RunNames
<1>11. /\ IsStruct(SlowSeenRun \o b, SlowNewHeadNames \cup B)
       /\ Keeps(SlowSeenRun \o b, SlowSeenRun)
  BY SlowSeenRunStruct, <1>1, <1>10, Joined
<1>12. (SlowNewHeadNames \cup B) \cap C = {}
  BY DEF SlowNewHeadNames, SlowSeenNames, SlowHeadNames, SeenNames, RunNames
<1>13. /\ IsStruct(SlowSeenRun \o b \o c, SlowNewHeadNames \cup B \cup C)
       /\ Keeps(SlowSeenRun \o b \o c, SlowSeenRun)
  BY <1>11, <1>2, <1>12, JoinedOn
<1>14. (SlowNewHeadNames \cup B \cup C) \cap D = {}
  BY DEF SlowNewHeadNames, SlowSeenNames, SlowHeadNames, SeenNames, RunNames
<1>15. /\ IsStruct(SlowSeenRun \o b \o c \o d, SlowNewHeadNames \cup B \cup C \cup
          D)
       /\ Keeps(SlowSeenRun \o b \o c \o d, SlowSeenRun)
  BY <1>13, <1>3, <1>14, JoinedOn
<1>16. (SlowNewHeadNames \cup B \cup C \cup D) \cap E = {}
  BY DEF SlowNewHeadNames, SlowSeenNames, SlowHeadNames, SeenNames, RunNames
<1>17. /\ IsStruct(SlowSeenRun \o b \o c \o d \o e, SlowNewHeadNames \cup B \cup C
          \cup D \cup E)
       /\ Keeps(SlowSeenRun \o b \o c \o d \o e, SlowSeenRun)
  BY <1>15, <1>4, <1>16, JoinedOn
<1>18. (SlowNewHeadNames \cup B \cup C \cup D \cup E) \cap F = {}
  BY DEF SlowNewHeadNames, SlowSeenNames, SlowHeadNames, SeenNames, RunNames
<1>19. /\ IsStruct(SlowSeenRun \o b \o c \o d \o e \o f, SlowNewHeadNames \cup B
          \cup C \cup D \cup E \cup F)
       /\ Keeps(SlowSeenRun \o b \o c \o d \o e \o f, SlowSeenRun)
  BY <1>17, <1>5, <1>18, JoinedOn
<1>20. (SlowNewHeadNames \cup B \cup C \cup D \cup E \cup F) \cap G = {}
  BY DEF SlowNewHeadNames, SlowSeenNames, SlowHeadNames, SeenNames, RunNames
<1>21. /\ IsStruct(SlowSeenRun \o b \o c \o d \o e \o f \o g, SlowNewHeadNames \cup
          B \cup C \cup D \cup E \cup F \cup G)
       /\ Keeps(SlowSeenRun \o b \o c \o d \o e \o f \o g, SlowSeenRun)
  BY <1>19, <1>6, <1>20, JoinedOn
<1>22. (SlowNewHeadNames \cup B \cup C \cup D \cup E \cup F \cup G) \cap H = {}
  BY DEF SlowNewHeadNames, SlowSeenNames, SlowHeadNames, SeenNames, RunNames
<1>23. /\ IsStruct(SlowSeenRun \o b \o c \o d \o e \o f \o g \o h, SlowNewHeadNames
          \cup B \cup C \cup D \cup E \cup F \cup G \cup H)
       /\ Keeps(SlowSeenRun \o b \o c \o d \o e \o f \o g \o h, SlowSeenRun)
  BY <1>21, <1>7, <1>22, JoinedOn
<1>24. (SlowNewHeadNames \cup B \cup C \cup D \cup E \cup F \cup G \cup H) \cap I =
       {}
  BY DEF SlowNewHeadNames, SlowSeenNames, SlowHeadNames, SeenNames, RunNames
<1>25. /\ IsStruct(SlowSeenRun \o b \o c \o d \o e \o f \o g \o h \o i,
          SlowNewHeadNames \cup B \cup C \cup D \cup E \cup F \cup G \cup H \cup I)
       /\ Keeps(SlowSeenRun \o b \o c \o d \o e \o f \o g \o h \o i, SlowSeenRun)
  BY <1>23, <1>8, <1>24, JoinedOn
<1>26. (SlowNewHeadNames \cup B \cup C \cup D \cup E \cup F \cup G \cup H \cup I)
       \cap J = {}
  BY DEF SlowNewHeadNames, SlowSeenNames, SlowHeadNames, SeenNames, RunNames
<1>27. /\ IsStruct(SlowSeenRun \o b \o c \o d \o e \o f \o g \o h \o i \o j,
          SlowNewHeadNames \cup B \cup C \cup D \cup E \cup F \cup G \cup H \cup I
          \cup J)
       /\ Keeps(SlowSeenRun \o b \o c \o d \o e \o f \o g \o h \o i \o j, SlowSeenRun)
  BY <1>25, <1>9, <1>26, JoinedOn
<1>28. Slow[2] = SlowSeenRun \o b \o c \o d \o e \o f \o g \o h \o i \o j
  BY DEF Slow, SlowSeenRun, SlowSeen, b, c, d, e, f, g, h, i, j
<1>29. SlowNewNames = SlowNewHeadNames \cup B \cup C \cup D \cup E \cup F \cup G
                      \cup H \cup I \cup J
  BY DEF SlowNewNames, SlowTailNames, RunningNames
<1> QED
  BY <1>27, <1>28, <1>29

-----------------------------------------------------------------------------
(* The versions of the structs, by type.                                   *)

(* The versioned packets and how many versions they have.                  *)
LEMMA CurrentVersions ==
    /\ Versioned = {"full_waveforms", "single_waveform", "slow", "daq_hsk",
                    "daq_hsk_summary"}
    /\ Structs["full_waveforms"] = FullWaveforms /\ Structs["single_waveform"] = SingleWaveform
    /\ Structs["slow"] = Slow /\ Structs["daq_hsk"] = DaqHsk
    /\ Structs["daq_hsk_summary"] = DaqHskSummary
    /\ Current("full_waveforms") = 1 /\ Current("single_waveform") = 2
    /\ Current("slow") = 1 /\ Current("daq_hsk") = 3 /\ Current("daq_hsk_summary") = 2
<1>1. Versioned = {"full_waveforms", "single_waveform", "slow", "daq_hsk",
                   "daq_hsk_summary"}
  BY DEF Versioned, Structs
<1>2. /\ Structs["full_waveforms"] = FullWaveforms
      /\ Structs["single_waveform"] = SingleWaveform
      /\ Structs["slow"] = Slow /\ Structs["daq_hsk"] = DaqHsk
      /\ Structs["daq_hsk_summary"] = DaqHskSummary
  BY DEF Structs
<1>3. /\ Len(FullWaveforms) = 2 /\ Len(SingleWaveform) = 3 /\ Len(Slow) = 2
      /\ Len(DaqHsk) = 4 /\ Len(DaqHskSummary) = 3
  <2>1. Len(FullWaveforms) = 2
    BY DEF FullWaveforms
  <2>2. Len(SingleWaveform) = 3
    BY DEF SingleWaveform
  <2>3. Len(Slow) = 2
    BY DEF Slow
  <2>4. Len(DaqHsk) = 4
    BY DEF DaqHsk
  <2>5. Len(DaqHskSummary) = 3
    BY DEF DaqHskSummary
  <2> QED
    BY <2>1, <2>2, <2>3, <2>4, <2>5
<1> QED
  BY <1>1, <1>2, <1>3 DEF Current

(* The struct of version v of type t.                                      *)
StructOf(t, v) == Structs[t][v + 1]

(* The structs of all versions are sound.                                  *)
LEMMA StructSound ==
    ASSUME NEW t \in Versioned, NEW v \in 0 .. Current(t)
    PROVE  Sound(StructOf(t, v)) /\ StructOf(t, v) # <<>>
<1>1. ASSUME NEW s, NEW N, IsStruct(s, N), N # {} PROVE Sound(s) /\ s # <<>>
  BY <1>1 DEF IsStruct, NamesOf
<1>2. CASE t = "full_waveforms"
  <2>1. StructOf(t, v) \in {FullWaveforms[1], FullWaveforms[2]}
    BY <1>2, CurrentVersions DEF StructOf
  <2>2. Sound(FullWaveforms[1]) /\ FullWaveforms[1] # <<>>
    BY <1>1, FullOldStruct
  <2>3. Sound(FullWaveforms[2]) /\ FullWaveforms[2] # <<>>
    BY <1>1, FullNewStruct
  <2> QED
    BY <2>1, <2>2, <2>3
<1>3. CASE t = "single_waveform"
  <2>1. StructOf(t, v) \in {SingleWaveform[1], SingleWaveform[2], SingleWaveform[3]}
    BY <1>3, CurrentVersions DEF StructOf
  <2>2. Sound(SingleWaveform[1]) /\ SingleWaveform[1] # <<>>
    BY <1>1, SingleOldStruct
  <2>3. Sound(SingleWaveform[2]) /\ SingleWaveform[2] # <<>>
    BY <1>1, SingleMidStruct
  <2>4. Sound(SingleWaveform[3]) /\ SingleWaveform[3] # <<>>
    BY <1>1, SingleNewStruct
  <2> QED
    BY <2>1, <2>2, <2>3, <2>4
<1>4. CASE t = "slow"
  <2>1. StructOf(t, v) \in {Slow[1], Slow[2]}
    BY <1>4, CurrentVersions DEF StructOf
  <2>2. Sound(Slow[1]) /\ Slow[1] # <<>>
    BY <1>1, SlowOldStruct DEF SlowOldNames, SlowTailNames
  <2>3. Sound(Slow[2]) /\ Slow[2] # <<>>
    BY <1>1, SlowNewStruct DEF SlowNewNames
  <2> QED
    BY <2>1, <2>2, <2>3
<1>5. CASE t = "daq_hsk"
  <2>1. StructOf(t, v) \in {DaqHsk[1], DaqHsk[2], DaqHsk[3], DaqHsk[4]}
    BY <1>5, CurrentVersions DEF StructOf
  <2>0. DaqHsk[1] = DaqHead
    BY DEF DaqHsk
  <2>2. Sound(DaqHsk[1]) /\ DaqHsk[1] # <<>>
    BY <1>1, <2>0, DaqHeadStruct DEF DaqHeadNames
  <2>3. Sound(DaqHsk[2]) /\ DaqHsk[2] # <<>>
    BY <1>1, TotalsHskStruct DEF TotalsHskNames, DaqHeadNames
  <2>4. Sound(DaqHsk[3]) /\ DaqHsk[3] # <<>>
    BY <1>1, MaskHskStruct DEF MaskHskNames, EnableMaskNames
  <2>5. Sound(DaqHsk[4]) /\ DaqHsk[4] # <<>>
    BY <1>1, TurfHskStruct DEF TurfHskNames, TurfNames
  <2> QED
    BY <2>1, <2>2, <2>3, <2>4, <2>5
<1>6. CASE t = "daq_hsk_summary"
  <2>1. StructOf(t, v) \in {DaqHskSummary[1], DaqHskSummary[2], DaqHskSummary[3]}
    BY <1>6, CurrentVersions DEF StructOf
  <2>0. DaqHskSummary[1] = SummaryHead
    BY DEF DaqHskSummary
  <2>2. Sound(DaqHskSummary[1]) /\ DaqHskSummary[1] # <<>>
    BY <1>1, <2>0, SummaryHeadStruct DEF SummaryHeadNames
  <2>3. Sound(DaqHskSummary[2]) /\ DaqHskSummary[2] # <<>>
    BY <1>1, FractionSumStruct DEF FractionSumNames, FractionNames
  <2>4. Sound(DaqHskSummary[3]) /\ DaqHskSummary[3] # <<>>
    BY <1>1, TurfSumStruct DEF TurfSumNames, TurfNames
  <2> QED
    BY <2>1, <2>2, <2>3, <2>4
<1> QED
  BY <1>2, <1>3, <1>4, <1>5, <1>6, CurrentVersions

(* Where the members of a version are.                                     *)
LEMMA Placed ==
    ASSUME NEW t \in Versioned, NEW v \in 0 .. Current(t)
    PROVE  /\ Layouts[t][v] = Layout(StructOf(t, v))
           /\ OldNames(t, v) = NamesOf(StructOf(t, v))
           /\ SizeOfVersion(t, v) \in Nat
           /\ \A name \in OldNames(t, v) :
                 /\ Layouts[t][v][name].first \in Nat
                 /\ Layouts[t][v][name].upto \in Nat
                 /\ Layouts[t][v][name].first < Layouts[t][v][name].upto
                 /\ Layouts[t][v][name].upto <= SizeOfVersion(t, v)
                 /\ \A other \in OldNames(t, v) \ {name} :
                       ~Overlap(Layouts[t][v][other], Layouts[t][v][name])
<1> DEFINE s == StructOf(t, v)
<1>1. Layouts[t][v] = Layout(s) /\ Sizes[t][v] = SizeOf(s)
  BY DEF Layouts, Sizes, StructOf
<1>2. Sound(s) /\ s # <<>>
  BY StructSound
<1> HIDE DEF s
<1>3. OldNames(t, v) = NamesOf(s)
  BY <1>1, <1>2, LayoutAt DEF OldNames
<1>4. SizeOfVersion(t, v) = SizeOf(s)
  BY <1>1 DEF SizeOfVersion
<1>5. SizeOf(s) \in Nat /\ Ends(s)[Len(s)] <= SizeOf(s) /\ Ends(s)[Len(s)] \in Nat
  <2>1. s \in Seq(AMember) /\ Len(s) \in 0 .. Len(s)
    BY <1>2 DEF Sound
  <2> QED
    BY <1>2, <2>1, SizeHolds, EndsType
<1>6. ASSUME NEW name \in NamesOf(s)
      PROVE  /\ Layout(s)[name].first \in Nat /\ Layout(s)[name].upto \in Nat
             /\ Layout(s)[name].first < Layout(s)[name].upto
             /\ Layout(s)[name].upto <= SizeOf(s)
             /\ \A other \in NamesOf(s) \ {name} :
                   ~Overlap(Layout(s)[other], Layout(s)[name])
  <2>1. /\ Layout(s)[name].first \in Nat /\ Layout(s)[name].upto \in Nat
        /\ Layout(s)[name].first < Layout(s)[name].upto
        /\ Layout(s)[name].upto <= Ends(s)[Len(s)]
        /\ \A other \in NamesOf(s) \ {name} :
              ~Overlap(Layout(s)[other], Layout(s)[name])
    BY <1>2, LayoutType
  <2> QED
    BY <1>5, <2>1
<1> QED
  BY <1>1, <1>3, <1>4, <1>5, <1>6 DEF s

-----------------------------------------------------------------------------
(* Reading an old version as the current one.                              *)

(* A member has the same place in version v and in the current struct.     *)
Same(t, v, name) ==
    /\ name \in OldNames(t, v) /\ name \in NewNames(t)
    /\ Layouts[t][v][name].first = Layouts[t][Current(t)][name].first
    /\ Layouts[t][v][name].upto = Layouts[t][Current(t)][name].upto

(* Its bits are those that were written for it, all of them.               *)
LEMMA SameIsRead ==
    ASSUME NEW t \in Versioned, NEW v \in 0 .. Current(t), NEW name, Same(t, v, name)
    PROVE  /\ Sources(t, v, name) = {name}
           /\ ~FromPadding(t, v, name, SizeOfVersion(t, v))
           /\ ~Beyond(t, name, SizeOfVersion(t, v))
<1> DEFINE here == Layouts[t][Current(t)][name]
           there == Layouts[t][v][name]
           size == SizeOfVersion(t, v)
<1>1. /\ here.first = there.first /\ here.upto = there.upto
      /\ name \in OldNames(t, v)
  BY DEF Same
<1>2. /\ size \in Nat /\ there.first \in Nat /\ there.upto \in Nat
      /\ there.first < there.upto /\ there.upto <= size
      /\ \A other \in OldNames(t, v) \ {name} : ~Overlap(Layouts[t][v][other], there)
      /\ \A other \in OldNames(t, v) : Layouts[t][v][other].upto \in Nat
  BY <1>1, Placed
<1>3. \A old \in OldNames(t, v) : Overlap(Layouts[t][v][old], here) <=> old = name
  BY <1>1, <1>2 DEF Overlap
<1>4. Sources(t, v, name) = {name}
  BY <1>1, <1>3 DEF Sources
<1>5. ~Beyond(t, name, size)
  BY <1>1, <1>2 DEF Beyond
<1>6. ~FromPadding(t, v, name, size)
  <2> SUFFICES ASSUME FromPadding(t, v, name, size) PROVE FALSE
    OBVIOUS
  <2> DEFINE olds == {Layouts[t][v][old] : old \in OldNames(t, v)}
  <2>1. PICK bit \in {here.first} \cup {old.upto : old \in olds} :
            /\ here.first <= bit /\ bit < here.upto
            /\ \A old \in olds : bit < old.first \/ old.upto <= bit
    BY DEF FromPadding
  <2>2. there \in olds /\ bit \in Nat
    BY <1>1, <1>2
  <2> QED
    BY <1>1, <1>2, <2>1, <2>2
<1> QED
  BY <1>4, <1>5, <1>6

(* What both versions have in a block they begin with is in its place.     *)
LEMMA KeptIsSame ==
    ASSUME NEW t \in Versioned, NEW v \in 0 .. Current(t), NEW block,
           Keeps(StructOf(t, v), block), Keeps(StructOf(t, Current(t)), block),
           NEW name \in NamesOf(block)
    PROVE  Same(t, v, name)
<1>1. Current(t) \in 0 .. Current(t)
  BY CurrentVersions
<1>2. /\ Layouts[t][v] = Layout(StructOf(t, v))
      /\ OldNames(t, v) = NamesOf(StructOf(t, v))
      /\ Layouts[t][Current(t)] = Layout(StructOf(t, Current(t)))
      /\ NewNames(t) = NamesOf(StructOf(t, Current(t)))
  BY <1>1, Placed DEF NewNames, OldNames
<1> QED
  BY <1>2 DEF Keeps, Same

(* Members that were appended since: no bit of theirs is of an old member. *)
LEMMA AppendedIsClear ==
    ASSUME NEW t \in Versioned, NEW v \in 0 .. Current(t),
           Keeps(StructOf(t, Current(t)), StructOf(t, v)),
           NEW name \in NewNames(t) \ OldNames(t, v)
    PROVE  /\ Sources(t, v, name) = {}
           /\ FromPadding(t, v, name, SizeOfVersion(t, v)) =>
                 Layouts[t][Current(t)][name].first < SizeOfVersion(t, v)
<1> DEFINE here == Layouts[t][Current(t)][name]
<1>1. Current(t) \in 0 .. Current(t)
  BY CurrentVersions
<1>2. /\ Layouts[t][v] = Layout(StructOf(t, v))
      /\ OldNames(t, v) = NamesOf(StructOf(t, v))
      /\ Layouts[t][Current(t)] = Layout(StructOf(t, Current(t)))
      /\ NewNames(t) = NamesOf(StructOf(t, Current(t)))
      /\ here.first \in Nat /\ SizeOfVersion(t, v) \in Nat
      /\ \A old \in OldNames(t, v) : Layouts[t][v][old].upto \in Nat
  BY <1>1, Placed DEF NewNames, OldNames
<1>3. \A old \in OldNames(t, v) : Layouts[t][v][old].upto <= here.first
  BY <1>2 DEF Keeps
<1>4. Sources(t, v, name) = {}
  <2>1. \A old \in OldNames(t, v) : ~Overlap(Layouts[t][v][old], here)
    BY <1>2, <1>3 DEF Overlap
  <2> QED
    BY <2>1 DEF Sources
<1>5. ASSUME FromPadding(t, v, name, SizeOfVersion(t, v))
      PROVE  here.first < SizeOfVersion(t, v)
  <2> DEFINE olds == {Layouts[t][v][old] : old \in OldNames(t, v)}
  <2>1. PICK bit \in {here.first} \cup {old.upto : old \in olds} :
            here.first <= bit /\ bit < SizeOfVersion(t, v)
    BY <1>5 DEF FromPadding
  <2>2. bit \in Nat
    BY <1>2
  <2> QED
    BY <1>2, <2>1, <2>2
<1> QED
  BY <1>4, <1>5
-----------------------------------------------------------------------------
(* The run in slow: what follows the head of the struct.                   *)

EndOf(s) == Ends(s)[Len(s)]
Behind(at, m) == Start(at, m) + m.bits

(* The members of an appended part go on where the first part ends.        *)
LEMMA EndsBehind ==
    ASSUME NEW a \in Seq(AMember), NEW b \in Seq(AMember)
    PROVE  /\ a \o b \in Seq(AMember) /\ Len(a \o b) = Len(a) + Len(b)
           /\ Ends(a \o b)[Len(a)] = EndOf(a)
           /\ \A i \in DOMAIN b :
                 /\ (a \o b)[Len(a) + i] = b[i]
                 /\ Begin(a \o b, Len(a) + i) = Start(Ends(a \o b)[Len(a) + i - 1], b[i])
                 /\ Ends(a \o b)[Len(a) + i] = Behind(Ends(a \o b)[Len(a) + i - 1], b[i])
<1> DEFINE c == a \o b
<1>1. /\ c \in Seq(AMember) /\ Len(c) = Len(a) + Len(b)
      /\ Len(a) \in Nat /\ Len(b) \in Nat /\ DOMAIN b = 1 .. Len(b)
      /\ DOMAIN c = 1 .. Len(c) /\ Len(a) \in 0 .. Len(a)
      /\ \A i \in DOMAIN b : c[Len(a) + i] = b[i]
  OBVIOUS
<1>2. Ends(c)[Len(a)] = EndOf(a)
  BY <1>1, EndsJoined DEF EndOf
<1> HIDE DEF c
<1>3. ASSUME NEW i \in DOMAIN b
      PROVE  /\ Begin(c, Len(a) + i) = Start(Ends(c)[Len(a) + i - 1], b[i])
             /\ Ends(c)[Len(a) + i] = Behind(Ends(c)[Len(a) + i - 1], b[i])
  <2>1. Len(a) + i \in DOMAIN c /\ c[Len(a) + i] = b[i]
    BY <1>1
  <2>2. Begin(c, Len(a) + i) = Start(Ends(c)[Len(a) + i - 1], b[i])
    BY <2>1 DEF Begin
  <2> QED
    BY <1>1, <2>1, <2>2, EndsAt DEF Behind
<1> QED
  BY <1>1, <1>2, <1>3 DEF c

(* Where parts of one, two, three and five members end.                    *)
LEMMA EndOfOne ==
    ASSUME NEW a \in Seq(AMember), NEW m \in AMember
    PROVE  /\ a \o <<m>> \in Seq(AMember)
           /\ EndOf(a \o <<m>>) = Behind(EndOf(a), m)
<1> DEFINE b == <<m>>
           e == Ends(a \o b)
<1>1. /\ b \in Seq(AMember) /\ Len(b) = 1 /\ DOMAIN b = {1}
      /\ b[1] = m
  OBVIOUS
<1> HIDE DEF b
<1>2. /\ a \o b \in Seq(AMember) /\ Len(a \o b) = Len(a) + 1 /\ e[Len(a)] = EndOf(a)
      /\ \A i \in DOMAIN b : e[Len(a) + i] = Behind(e[Len(a) + i - 1], b[i])
  <2>1. b \in Seq(AMember)
    BY <1>1
  <2>2. a \o b \in Seq(AMember) /\ Len(a \o b) = Len(a) + Len(b)
    BY <2>1, EndsBehind
  <2>4. e[Len(a)] = EndOf(a)
    BY <2>1, EndsBehind
  <2>3. ASSUME NEW i \in DOMAIN b
        PROVE  e[Len(a) + i] = Behind(e[Len(a) + i - 1], b[i])
    BY <2>1, EndsBehind
  <2> QED
    BY <1>1, <2>2, <2>3, <2>4
<1>3. EndOf(a \o b) = e[Len(a) + 1]
  BY <1>2 DEF EndOf
<1> HIDE DEF e
<1>4. e[Len(a) + 1] = Behind(e[Len(a)], m)
  <2>1. 1 \in DOMAIN b /\ Len(a) + 1 - 1 = Len(a)
    BY <1>1
  <2> QED
    BY <1>1, <1>2, <2>1
<1> QED
  BY <1>2, <1>3, <1>4 DEF b

LEMMA EndOfTwo ==
    ASSUME NEW a \in Seq(AMember), NEW m \in AMember, NEW n \in AMember
    PROVE  /\ a \o <<m, n>> \in Seq(AMember)
           /\ EndOf(a \o <<m, n>>) = Behind(Behind(EndOf(a), m), n)
<1> DEFINE b == <<m, n>>
           e == Ends(a \o b)
<1>1. /\ b \in Seq(AMember) /\ Len(b) = 2 /\ DOMAIN b = {1, 2}
      /\ b[1] = m /\ b[2] = n
  OBVIOUS
<1> HIDE DEF b
<1>2. /\ a \o b \in Seq(AMember) /\ Len(a \o b) = Len(a) + 2 /\ e[Len(a)] = EndOf(a)
      /\ \A i \in DOMAIN b : e[Len(a) + i] = Behind(e[Len(a) + i - 1], b[i])
  <2>1. b \in Seq(AMember)
    BY <1>1
  <2>2. a \o b \in Seq(AMember) /\ Len(a \o b) = Len(a) + Len(b)
    BY <2>1, EndsBehind
  <2>4. e[Len(a)] = EndOf(a)
    BY <2>1, EndsBehind
  <2>3. ASSUME NEW i \in DOMAIN b
        PROVE  e[Len(a) + i] = Behind(e[Len(a) + i - 1], b[i])
    BY <2>1, EndsBehind
  <2> QED
    BY <1>1, <2>2, <2>3, <2>4
<1>3. EndOf(a \o b) = e[Len(a) + 2]
  BY <1>2 DEF EndOf
<1> HIDE DEF e
<1>4. e[Len(a) + 1] = Behind(e[Len(a)], m)
  <2>1. 1 \in DOMAIN b /\ Len(a) + 1 - 1 = Len(a)
    BY <1>1
  <2> QED
    BY <1>1, <1>2, <2>1
<1>5. e[Len(a) + 2] = Behind(e[Len(a) + 1], n)
  <2>1. 2 \in DOMAIN b /\ Len(a) + 2 - 1 = Len(a) + 1
    BY <1>1
  <2> QED
    BY <1>1, <1>2, <2>1
<1> QED
  BY <1>2, <1>3, <1>4, <1>5 DEF b

LEMMA EndOfThree ==
    ASSUME NEW a \in Seq(AMember), NEW m \in AMember, NEW n \in AMember,
           NEW o \in AMember
    PROVE  /\ a \o <<m, n, o>> \in Seq(AMember)
           /\ EndOf(a \o <<m, n, o>>) = Behind(Behind(Behind(EndOf(a), m), n), o)
<1> DEFINE b == <<m, n, o>>
           e == Ends(a \o b)
<1>1. /\ b \in Seq(AMember) /\ Len(b) = 3 /\ DOMAIN b = {1, 2, 3}
      /\ b[1] = m /\ b[2] = n /\ b[3] = o
  OBVIOUS
<1> HIDE DEF b
<1>2. /\ a \o b \in Seq(AMember) /\ Len(a \o b) = Len(a) + 3 /\ e[Len(a)] = EndOf(a)
      /\ \A i \in DOMAIN b : e[Len(a) + i] = Behind(e[Len(a) + i - 1], b[i])
  <2>1. b \in Seq(AMember)
    BY <1>1
  <2>2. a \o b \in Seq(AMember) /\ Len(a \o b) = Len(a) + Len(b)
    BY <2>1, EndsBehind
  <2>4. e[Len(a)] = EndOf(a)
    BY <2>1, EndsBehind
  <2>3. ASSUME NEW i \in DOMAIN b
        PROVE  e[Len(a) + i] = Behind(e[Len(a) + i - 1], b[i])
    BY <2>1, EndsBehind
  <2> QED
    BY <1>1, <2>2, <2>3, <2>4
<1>3. EndOf(a \o b) = e[Len(a) + 3]
  BY <1>2 DEF EndOf
<1> HIDE DEF e
<1>4. e[Len(a) + 1] = Behind(e[Len(a)], m)
  <2>1. 1 \in DOMAIN b /\ Len(a) + 1 - 1 = Len(a)
    BY <1>1
  <2> QED
    BY <1>1, <1>2, <2>1
<1>5. e[Len(a) + 2] = Behind(e[Len(a) + 1], n)
  <2>1. 2 \in DOMAIN b /\ Len(a) + 2 - 1 = Len(a) + 1
    BY <1>1
  <2> QED
    BY <1>1, <1>2, <2>1
<1>6. e[Len(a) + 3] = Behind(e[Len(a) + 2], o)
  <2>1. 3 \in DOMAIN b /\ Len(a) + 3 - 1 = Len(a) + 2
    BY <1>1
  <2> QED
    BY <1>1, <1>2, <2>1
<1> QED
  BY <1>2, <1>3, <1>4, <1>5, <1>6 DEF b

LEMMA EndOfFive ==
    ASSUME NEW a \in Seq(AMember), NEW m \in AMember, NEW n \in AMember,
           NEW o \in AMember, NEW p \in AMember, NEW q \in AMember
    PROVE  /\ a \o <<m, n, o, p, q>> \in Seq(AMember)
           /\ EndOf(a \o <<m, n, o, p, q>>) =
                 Behind(Behind(Behind(Behind(Behind(EndOf(a), m), n), o), p), q)
<1> DEFINE b == <<m, n, o, p, q>>
           e == Ends(a \o b)
<1>1. /\ b \in Seq(AMember) /\ Len(b) = 5 /\ DOMAIN b = {1, 2, 3, 4, 5}
      /\ b[1] = m /\ b[2] = n /\ b[3] = o /\ b[4] = p /\ b[5] = q
  OBVIOUS
<1> HIDE DEF b
<1>2. /\ a \o b \in Seq(AMember) /\ Len(a \o b) = Len(a) + 5 /\ e[Len(a)] = EndOf(a)
      /\ \A i \in DOMAIN b : e[Len(a) + i] = Behind(e[Len(a) + i - 1], b[i])
  <2>1. b \in Seq(AMember)
    BY <1>1
  <2>2. a \o b \in Seq(AMember) /\ Len(a \o b) = Len(a) + Len(b)
    BY <2>1, EndsBehind
  <2>4. e[Len(a)] = EndOf(a)
    BY <2>1, EndsBehind
  <2>3. ASSUME NEW i \in DOMAIN b
        PROVE  e[Len(a) + i] = Behind(e[Len(a) + i - 1], b[i])
    BY <2>1, EndsBehind
  <2> QED
    BY <1>1, <2>2, <2>3, <2>4
<1>3. EndOf(a \o b) = e[Len(a) + 5]
  BY <1>2 DEF EndOf
<1> HIDE DEF e
<1>4. e[Len(a) + 1] = Behind(e[Len(a)], m)
  <2>1. 1 \in DOMAIN b /\ Len(a) + 1 - 1 = Len(a)
    BY <1>1
  <2> QED
    BY <1>1, <1>2, <2>1
<1>5. e[Len(a) + 2] = Behind(e[Len(a) + 1], n)
  <2>1. 2 \in DOMAIN b /\ Len(a) + 2 - 1 = Len(a) + 1
    BY <1>1
  <2> QED
    BY <1>1, <1>2, <2>1
<1>6. e[Len(a) + 3] = Behind(e[Len(a) + 2], o)
  <2>1. 3 \in DOMAIN b /\ Len(a) + 3 - 1 = Len(a) + 2
    BY <1>1
  <2> QED
    BY <1>1, <1>2, <2>1
<1>7. e[Len(a) + 4] = Behind(e[Len(a) + 3], p)
  <2>1. 4 \in DOMAIN b /\ Len(a) + 4 - 1 = Len(a) + 3
    BY <1>1
  <2> QED
    BY <1>1, <1>2, <2>1
<1>8. e[Len(a) + 5] = Behind(e[Len(a) + 4], q)
  <2>1. 5 \in DOMAIN b /\ Len(a) + 5 - 1 = Len(a) + 4
    BY <1>1
  <2> QED
    BY <1>1, <1>2, <2>1
<1> QED
  BY <1>2, <1>3, <1>4, <1>5, <1>6, <1>7, <1>8 DEF b

(* Where the members of slow's head come to lie.                           *)
LEMMA BehindBlocks ==
    /\ \A name : Behind(64, Block(name, 4, 4)) = 96
    /\ \A name : Behind(32, BitField(name, 8, 4)) = 40
    /\ \A name : Behind(40, BitField(name, 24, 4)) = 64
    /\ \A name : Behind(96, BitField(name, 24, 4)) = 120
    /\ \A name : \A at \in 120 .. 127 : Behind(at, BitField(name, 1, 4)) = at + 1
    /\ \A name : \A at \in {123, 128} :
          Start(at, Block(name, 2, 2)) = 128 /\ Behind(at, Block(name, 2, 2)) = 144
    /\ \A name : Start(144, Block(name, 2, 2)) = 144 /\ Behind(144, Block(name, 2, 2)) = 160
    /\ \A name : Behind(0, Block(name, 2, 2)) = 16
    /\ \A name : Behind(16, Block(name, 2, 2)) = 32
BY DEF Behind, Start, Block, BitField, Member, RoundUp

(* The head of slow ends within a byte in version 0, and at its end in     *)
(* version 1.                                                              *)
LEMMA SlowHeadEnds == EndOf(SlowHead) = 123 /\ EndOf(SlowSeen) = 128
<1> DEFINE a == Scalars(2, <<"ncmds", "time_since_last_cmd">>)
           b == <<BitField("last_cmd", 8, 4), BitField("sipd_uptime", 24, 4)>>
           c == Scalars(4, <<"cpu_time">>)
           d == <<BitField("cpu_uptime", 24, 4)>>
           e == BitFields(4, 1, <<"can_ping_world", "starlink_on", "los_on">>)
           f == BitFields(4, 1, <<"gpu_present", "nic_present", "turf_seen",
                                  "hsk_seen", "ss_seen">>)
           H == {"ncmds", "time_since_last_cmd", "last_cmd", "sipd_uptime", "cpu_time",
                 "cpu_uptime", "can_ping_world", "starlink_on", "los_on", "gpu_present",
                 "nic_present", "turf_seen", "hsk_seen", "ss_seen"}
<1>0. H \subseteq MemberNames
  BY DEF MemberNames, SlowHeadNames, SeenNames
<1>1. /\ a = <<Block("ncmds", 2, 2), Block("time_since_last_cmd", 2, 2)>>
      /\ c = <<Block("cpu_time", 4, 4)>>
      /\ e = <<BitField("can_ping_world", 1, 4), BitField("starlink_on", 1, 4),
               BitField("los_on", 1, 4)>>
      /\ f = <<BitField("gpu_present", 1, 4), BitField("nic_present", 1, 4),
               BitField("turf_seen", 1, 4), BitField("hsk_seen", 1, 4),
               BitField("ss_seen", 1, 4)>>
  <2>1. a = <<Block("ncmds", 2, 2), Block("time_since_last_cmd", 2, 2)>>
    BY DEF Scalars
  <2>2. c = <<Block("cpu_time", 4, 4)>>
    BY DEF Scalars
  <2>3. e = <<BitField("can_ping_world", 1, 4), BitField("starlink_on", 1, 4),
               BitField("los_on", 1, 4)>>
    BY DEF BitFields
  <2>4. f = <<BitField("gpu_present", 1, 4), BitField("nic_present", 1, 4),
               BitField("turf_seen", 1, 4), BitField("hsk_seen", 1, 4),
               BitField("ss_seen", 1, 4)>>
    BY DEF BitFields
  <2> QED
    BY <2>1, <2>2, <2>3, <2>4
<1>2. /\ \A name \in H : Block(name, 2, 2) \in AMember /\ Block(name, 4, 4) \in AMember
      /\ \A name \in H, bits \in {1, 8, 24} : BitField(name, bits, 4) \in AMember
  BY <1>0, BlockType, BitFieldType
<1> DEFINE ab == a \o b
           abc == ab \o c
           abcd == abc \o d
           abcde == abcd \o e
<1> HIDE DEF a, c, e, f
<1>3. a \in Seq(AMember) /\ EndOf(a) = 32
  <2> DEFINE m == Block("ncmds", 2, 2)
             n == Block("time_since_last_cmd", 2, 2)
  <2>1. m \in AMember /\ n \in AMember
    BY <1>2
  <2>2. Behind(0, m) = 16 /\ Behind(16, n) = 32
    BY BehindBlocks
  <2>3. a = <<m, n>>
    BY <1>1
  <2> HIDE DEF m, n
  <2>4. a \in Seq(AMember) /\ Len(a) = 2 /\ DOMAIN a = {1, 2} /\ a[1] = m /\ a[2] = n
    BY <2>1, <2>3
  <2>5. /\ Ends(a)[0] = 0
        /\ Ends(a)[1] = Begin(a, 1) + a[1].bits /\ Ends(a)[2] = Begin(a, 2) + a[2].bits
    BY <2>4, EndsAt
  <2>6. Ends(a)[1] = Behind(Ends(a)[0], m) /\ Ends(a)[2] = Behind(Ends(a)[1], n)
    BY <2>4, <2>5 DEF Begin, Behind
  <2> QED
    BY <2>2, <2>4, <2>5, <2>6 DEF EndOf
<1>4. ab \in Seq(AMember) /\ EndOf(ab) = 64
  <2> DEFINE m == BitField("last_cmd", 8, 4)
             n == BitField("sipd_uptime", 24, 4)
  <2>1. m \in AMember /\ n \in AMember
    BY <1>2
  <2>2. Behind(32, m) = 40 /\ Behind(40, n) = 64
    BY BehindBlocks
  <2> HIDE DEF m, n
  <2>3. a \o <<m, n>> \in Seq(AMember) /\ EndOf(a \o <<m, n>>) = 64
    BY <1>3, <2>1, <2>2, EndOfTwo
  <2> QED
    BY <2>3 DEF m, n
<1> HIDE DEF ab
<1>5. abc \in Seq(AMember) /\ EndOf(abc) = 96
  <2> DEFINE m == Block("cpu_time", 4, 4)
  <2>1. m \in AMember /\ Behind(64, m) = 96 /\ c = <<m>>
    BY <1>1, <1>2, BehindBlocks
  <2> HIDE DEF m
  <2> QED
    BY <1>4, <2>1, EndOfOne
<1> HIDE DEF abc
<1>6. abcd \in Seq(AMember) /\ EndOf(abcd) = 120
  <2> DEFINE m == BitField("cpu_uptime", 24, 4)
  <2>1. m \in AMember /\ Behind(96, m) = 120 /\ d = <<m>>
    BY <1>2, BehindBlocks
  <2> HIDE DEF m, d
  <2> QED
    BY <1>5, <2>1, EndOfOne
<1> HIDE DEF abcd
<1>7. abcde \in Seq(AMember) /\ EndOf(abcde) = 123
  <2> DEFINE m == BitField("can_ping_world", 1, 4)
             n == BitField("starlink_on", 1, 4)
             o == BitField("los_on", 1, 4)
  <2>1. m \in AMember /\ n \in AMember /\ o \in AMember /\ e = <<m, n, o>>
    BY <1>1, <1>2
  <2>2. Behind(120, m) = 121 /\ Behind(121, n) = 122 /\ Behind(122, o) = 123
    BY BehindBlocks
  <2> HIDE DEF m, n, o
  <2> QED
    BY <1>6, <2>1, <2>2, EndOfThree
<1>8. SlowHead = abcde
  BY DEF SlowHead, a, c, e, ab, abc, abcd
<1>9. EndOf(SlowHead \o f) = 128
  <2> DEFINE m == BitField("gpu_present", 1, 4)
             n == BitField("nic_present", 1, 4)
             o == BitField("turf_seen", 1, 4)
             p == BitField("hsk_seen", 1, 4)
             q == BitField("ss_seen", 1, 4)
  <2>1. /\ m \in AMember /\ n \in AMember /\ o \in AMember /\ p \in AMember
        /\ q \in AMember /\ f = <<m, n, o, p, q>>
    BY <1>1, <1>2
  <2>2. /\ Behind(123, m) = 124 /\ Behind(124, n) = 125 /\ Behind(125, o) = 126
        /\ Behind(126, p) = 127 /\ Behind(127, q) = 128
    BY BehindBlocks
  <2>3. SlowHead \in Seq(AMember) /\ EndOf(SlowHead) = 123
    BY <1>7, <1>8
  <2> HIDE DEF m, n, o, p, q
  <2> QED
    BY <2>1, <2>2, <2>3, EndOfFive
<1>10. SlowSeen = SlowHead \o f
  BY DEF SlowSeen, f
<1> QED
  BY <1>7, <1>8, <1>9, <1>10
(* The run begins at the same bit behind both heads.                       *)
LEMMA RunPlaced ==
    ASSUME NEW a, Sound(a), EndOf(a) \in {123, 128}, Sound(a \o Run)
    PROVE  LET at == Layout(a \o Run)
           IN  /\ at["current_run"].first = 128 /\ at["current_run"].upto = 144
               /\ at["current_run_secs"].first = 144 /\ at["current_run_secs"].upto = 160
<1> DEFINE c == a \o Run
           m == Block("current_run", 2, 2)
           n == Block("current_run_secs", 2, 2)
<1>1. Run = <<m, n>> /\ m.name = "current_run" /\ n.name = "current_run_secs"
  <2>1. Run = <<m, n>>
    BY DEF Run, Scalars
  <2>2. m.name = "current_run" /\ n.name = "current_run_secs"
    BY DEF Block, Member
  <2> QED
    BY <2>1, <2>2
<1>2. /\ Start(EndOf(a), m) = 128 /\ Behind(EndOf(a), m) = 144
      /\ Start(144, n) = 144 /\ Behind(144, n) = 160
  BY BehindBlocks
<1> HIDE DEF m, n
<1>3. a \in Seq(AMember) /\ Len(a) \in Nat /\ c \in Seq(AMember) /\ Run \in Seq(AMember)
  BY RunStruct DEF Sound, IsStruct
<1>4. Len(Run) = 2 /\ DOMAIN Run = {1, 2} /\ Run[1] = m /\ Run[2] = n
  BY <1>1
<1>5. /\ Len(c) = Len(a) + Len(Run) /\ Ends(c)[Len(a)] = EndOf(a)
      /\ \A i \in DOMAIN Run :
            /\ c[Len(a) + i] = Run[i]
            /\ Begin(c, Len(a) + i) = Start(Ends(c)[Len(a) + i - 1], Run[i])
            /\ Ends(c)[Len(a) + i] = Behind(Ends(c)[Len(a) + i - 1], Run[i])
  BY <1>3, EndsBehind
<1> HIDE DEF c
<1>6. /\ c[Len(a) + 1] = m /\ Begin(c, Len(a) + 1) = 128 /\ Ends(c)[Len(a) + 1] = 144
  <2>1. Len(a) + 1 - 1 = Len(a)
    BY <1>3
  <2> QED
    BY <1>2, <1>4, <1>5, <2>1
<1>7. /\ c[Len(a) + 2] = n /\ Begin(c, Len(a) + 2) = 144 /\ Ends(c)[Len(a) + 2] = 160
  <2>1. Len(a) + 2 - 1 = Len(a) + 1
    BY <1>3
  <2> QED
    BY <1>2, <1>4, <1>5, <1>6, <2>1
<1>8. Len(a) + 1 \in DOMAIN c /\ Len(a) + 2 \in DOMAIN c
  BY <1>3, <1>4, <1>5
<1>9. Sound(c)
  BY DEF c
<1>10. /\ Layout(c)["current_run"].first = 128 /\ Layout(c)["current_run"].upto = 144
  BY <1>1, <1>6, <1>8, <1>9, LayoutAt
<1>11. /\ Layout(c)["current_run_secs"].first = 144
       /\ Layout(c)["current_run_secs"].upto = 160
  BY <1>1, <1>7, <1>8, <1>9, LayoutAt
<1> QED
  BY <1>10, <1>11 DEF c

(* What is in its place in every version of slow.                          *)
LEMMA SlowSame ==
    ASSUME NEW v \in 0 .. Current("slow"), NEW name \in SlowRunNames
    PROVE  Same("slow", v, name)
<1>1. /\ "slow" \in Versioned /\ StructOf("slow", v) \in {Slow[1], Slow[2]}
      /\ StructOf("slow", Current("slow")) = Slow[2]
      /\ Current("slow") \in 0 .. Current("slow")
      /\ StructOf("slow", v) = Slow[1] \/ v = Current("slow")
  BY CurrentVersions DEF StructOf
<1>2. CASE name \in SlowHeadNames
  <2>1. Keeps(Slow[1], SlowHead)
    BY SlowOldStruct, SlowRunStruct, KeepsTransitive
  <2>2. Keeps(Slow[2], SlowHead)
    BY SlowNewStruct, SlowSeenRunStruct, SlowSeenStruct, KeepsTransitive
  <2>3. name \in NamesOf(SlowHead)
    BY <1>2, SlowHeadStruct DEF IsStruct
  <2> QED
    BY <1>1, <2>1, <2>2, <2>3, KeptIsSame
<1>3. CASE name \in RunNames
  <2>1. /\ Sound(SlowHead) /\ Sound(SlowHead \o Run)
        /\ Sound(SlowSeen) /\ Sound(SlowSeen \o Run)
    BY SlowHeadStruct, SlowRunStruct, SlowSeenStruct, SlowSeenRunStruct
       DEF IsStruct, SlowRun, SlowSeenRun
  <2>2. /\ Layout(SlowRun)["current_run"].first = 128
        /\ Layout(SlowRun)["current_run"].upto = 144
        /\ Layout(SlowRun)["current_run_secs"].first = 144
        /\ Layout(SlowRun)["current_run_secs"].upto = 160
    BY <2>1, RunPlaced, SlowHeadEnds DEF SlowRun
  <2>3. /\ Layout(SlowSeenRun)["current_run"].first = 128
        /\ Layout(SlowSeenRun)["current_run"].upto = 144
        /\ Layout(SlowSeenRun)["current_run_secs"].first = 144
        /\ Layout(SlowSeenRun)["current_run_secs"].upto = 160
    BY <2>1, RunPlaced, SlowHeadEnds DEF SlowSeenRun
  <2>4. name \in {"current_run", "current_run_secs"}
    BY <1>3 DEF RunNames
  <2>5. name \in NamesOf(SlowRun) /\ name \in NamesOf(SlowSeenRun)
    BY <1>3, SlowRunStruct, SlowSeenRunStruct
       DEF IsStruct, SlowRunNames, SlowNewHeadNames
  <2>6. /\ Layout(SlowRun)[name].first = Layout(SlowSeenRun)[name].first
        /\ Layout(SlowRun)[name].upto = Layout(SlowSeenRun)[name].upto
    BY <2>2, <2>3, <2>4
  <2>7. /\ name \in NamesOf(Slow[1]) /\ name \in NamesOf(Slow[2])
        /\ Layout(Slow[1])[name].first = Layout(Slow[2])[name].first
        /\ Layout(Slow[1])[name].upto = Layout(Slow[2])[name].upto
    BY <2>5, <2>6, SlowOldStruct, SlowNewStruct DEF Keeps
  <2>8. /\ Layouts["slow"][v] = Layout(StructOf("slow", v))
        /\ OldNames("slow", v) = NamesOf(StructOf("slow", v))
        /\ Layouts["slow"][Current("slow")] = Layout(Slow[2])
        /\ OldNames("slow", Current("slow")) = NamesOf(Slow[2])
    BY <1>1, Placed
  <2> QED
    BY <1>1, <2>7, <2>8 DEF Same, NewNames, OldNames
<1> QED
  BY <1>2, <1>3 DEF SlowRunNames

(* The housekeeping packets only had members appended.                     *)
LEMMA KeepsItself == \A s : Keeps(s, s)
BY DEF Keeps

(* Every version of the housekeeping structs in rawio_versions.h is a      *)
(* prefix of the current one, as the simple readers rely on.               *)
THEOREM HskKeeps ==
    ASSUME NEW t \in {"daq_hsk", "daq_hsk_summary"}, NEW v \in 0 .. Current(t)
    PROVE  Keeps(StructOf(t, Current(t)), StructOf(t, v))
<1>1. CASE t = "daq_hsk"
  <2>1. /\ StructOf(t, v) \in {DaqHsk[1], DaqHsk[2], DaqHsk[3], DaqHsk[4]}
        /\ StructOf(t, Current(t)) = DaqHsk[4]
    BY <1>1, CurrentVersions DEF StructOf
  <2>2. DaqHsk[1] = DaqHead
    BY DEF DaqHsk
  <2>3. Keeps(DaqHsk[4], DaqHsk[3])
    BY TurfHskStruct
  <2>4. Keeps(DaqHsk[4], DaqHsk[2])
    BY <2>3, MaskHskStruct, KeepsTransitive
  <2>5. Keeps(DaqHsk[4], DaqHsk[1])
    BY <2>2, <2>4, TotalsHskStruct, KeepsTransitive
  <2> QED
    BY <2>1, <2>3, <2>4, <2>5, KeepsItself
<1>2. CASE t = "daq_hsk_summary"
  <2>1. /\ StructOf(t, v) \in {DaqHskSummary[1], DaqHskSummary[2], DaqHskSummary[3]}
        /\ StructOf(t, Current(t)) = DaqHskSummary[3]
    BY <1>2, CurrentVersions DEF StructOf
  <2>2. DaqHskSummary[1] = SummaryHead
    BY DEF DaqHskSummary
  <2>3. Keeps(DaqHskSummary[3], DaqHskSummary[2])
    BY TurfSumStruct
  <2>4. Keeps(DaqHskSummary[3], DaqHskSummary[1])
    BY <2>2, <2>3, FractionSumStruct, KeepsTransitive
  <2> QED
    BY <2>1, <2>3, <2>4, KeepsItself
<1> QED
  BY <1>1, <1>2

(* So all that a version has is read from its place.                       *)
LEMMA HskSame ==
    ASSUME NEW t \in {"daq_hsk", "daq_hsk_summary"}, NEW v \in 0 .. Current(t),
           NEW name \in OldNames(t, v)
    PROVE  Same(t, v, name)
<1>1. t \in Versioned
  BY CurrentVersions
<1>2. name \in NamesOf(StructOf(t, v))
  BY <1>1, Placed
<1> QED
  BY <1>1, <1>2, HskKeeps, KeepsItself, KeptIsSame

(* The current version is in its place.                                    *)
LEMMA CurrentSame ==
    ASSUME NEW t \in Versioned, NEW name \in NewNames(t)
    PROVE  Current(t) \in 0 .. Current(t) /\ Same(t, Current(t), name)
BY CurrentVersions DEF Same, NewNames, OldNames

-----------------------------------------------------------------------------
(* The events: what lies before the waveforms.                             *)

(* The events of every version begin alike.                                *)
LEMMA WaveStructs ==
    ASSUME NEW t \in WaveTypes, NEW v \in 0 .. Current(t)
    PROVE  /\ t \in Versioned /\ Current(t) \in 0 .. Current(t) /\ Current(t) >= 1
           /\ Keeps(StructOf(t, v), EventWords)
           /\ v >= 1 => Keeps(StructOf(t, v), EventHead)
<1>0. Keeps(EventHead, EventWords)
  BY EventHeadStruct, EventCoreStruct, KeepsTransitive
<1>1. CASE t = "full_waveforms"
  <2>1. /\ t \in Versioned /\ Current(t) = 1
        /\ \/ v = 0 /\ StructOf(t, v) = FullWaveforms[1]
           \/ StructOf(t, v) = FullWaveforms[2]
    BY <1>1, CurrentVersions DEF StructOf
  <2>2. Keeps(FullWaveforms[1], EventWords) /\ Keeps(FullWaveforms[2], EventHead)
    BY FullOldStruct, FullNewStruct
  <2>3. Keeps(FullWaveforms[2], EventWords)
    BY <1>0, <2>2, KeepsTransitive
  <2> QED
    BY <2>1, <2>2, <2>3
<1>2. CASE t = "single_waveform"
  <2>1. /\ t \in Versioned /\ Current(t) = 2
        /\ \/ v = 0 /\ StructOf(t, v) = SingleWaveform[1]
           \/ StructOf(t, v) = SingleWaveform[2]
           \/ StructOf(t, v) = SingleWaveform[3]
    BY <1>2, CurrentVersions DEF StructOf
  <2>2. /\ Keeps(SingleWaveform[1], EventWords) /\ Keeps(SingleWaveform[2], EventHead)
        /\ Keeps(SingleWaveform[3], EventHead)
    BY SingleOldStruct, SingleMidStruct, SingleNewStruct
  <2>3. Keeps(SingleWaveform[2], EventWords) /\ Keeps(SingleWaveform[3], EventWords)
    BY <1>0, <2>2, KeepsTransitive
  <2> QED
    BY <2>1, <2>2, <2>3
<1> QED
  BY <1>1, <1>2 DEF WaveTypes

(* So what they begin with is read from its place.                         *)
LEMMA WaveSame ==
    ASSUME NEW t \in WaveTypes, NEW v \in 0 .. Current(t), NEW name
    PROVE  /\ name \in EventNames => Same(t, v, name)
           /\ v >= 1 /\ name \in EventHeadNames => Same(t, v, name)
<1>1. NamesOf(EventWords) = EventNames /\ NamesOf(EventHead) = EventHeadNames
  BY EventWordsStruct, EventHeadStruct DEF IsStruct
<1>2. /\ t \in Versioned /\ Current(t) \in 0 .. Current(t) /\ Current(t) >= 1
      /\ Keeps(StructOf(t, v), EventWords)
      /\ v >= 1 => Keeps(StructOf(t, v), EventHead)
  BY WaveStructs
<1>3. Keeps(StructOf(t, Current(t)), EventWords) /\ Keeps(StructOf(t, Current(t)), EventHead)
  BY <1>2, WaveStructs
<1> QED
  BY <1>1, <1>2, <1>3, KeptIsSame

(* The names of the members of each version.                               *)
WaveName(t) == IF t = "single_waveform" THEN "wf" ELSE "wfs"

(* The members of each version of an event.                                *)
LEMMA WaveNamesOf ==
    ASSUME NEW t \in WaveTypes, NEW v \in 0 .. Current(t)
    PROVE  /\ OldNames(t, v) = IF v = 0 THEN EventNames \cup {"trigger_meta", WaveName(t)}
                               ELSE IF t = "single_waveform" /\ v = 2
                               THEN EventHeadNames \cup {"prio", WaveName(t)}
                               ELSE EventHeadNames \cup {WaveName(t)}
           /\ NewNames(t) = IF t = "single_waveform"
                            THEN EventHeadNames \cup {"prio", WaveName(t)}
                            ELSE EventHeadNames \cup {WaveName(t)}
<1>0. /\ t \in Versioned /\ Current(t) \in 0 .. Current(t)
      /\ NewNames(t) = OldNames(t, Current(t))
  BY WaveStructs DEF NewNames, OldNames
<1>1. /\ OldNames(t, v) = NamesOf(StructOf(t, v))
      /\ NewNames(t) = NamesOf(StructOf(t, Current(t)))
  BY <1>0, Placed
<1>2. CASE t = "full_waveforms"
  <2>1. /\ \/ v = 0 /\ StructOf(t, v) = FullWaveforms[1]
           \/ v = 1 /\ StructOf(t, v) = FullWaveforms[2]
        /\ StructOf(t, Current(t)) = FullWaveforms[2] /\ WaveName(t) = "wfs"
    BY <1>2, CurrentVersions DEF StructOf, WaveName
  <2>2. /\ NamesOf(FullWaveforms[1]) = EventNames \cup {"trigger_meta", "wfs"}
        /\ NamesOf(FullWaveforms[2]) = EventHeadNames \cup {"wfs"}
    BY FullOldStruct, FullNewStruct DEF IsStruct
  <2> QED
    BY <1>1, <1>2, <2>1, <2>2
<1>3. CASE t = "single_waveform"
  <2>1. /\ \/ v = 0 /\ StructOf(t, v) = SingleWaveform[1]
           \/ v = 1 /\ StructOf(t, v) = SingleWaveform[2]
           \/ v = 2 /\ StructOf(t, v) = SingleWaveform[3]
        /\ StructOf(t, Current(t)) = SingleWaveform[3] /\ WaveName(t) = "wf"
    BY <1>3, CurrentVersions DEF StructOf, WaveName
  <2>2. /\ NamesOf(SingleWaveform[1]) = EventNames \cup {"trigger_meta", "wf"}
        /\ NamesOf(SingleWaveform[2]) = EventHeadNames \cup {"wf"}
        /\ NamesOf(SingleWaveform[3]) = EventHeadNames \cup {"prio", "wf"}
    BY SingleOldStruct, SingleMidStruct, SingleNewStruct DEF IsStruct
  <2> QED
    BY <1>1, <1>3, <2>1, <2>2
<1> QED
  BY <1>2, <1>3 DEF WaveTypes

(* The priority of a waveform comes before the waveform.                   *)
LEMMA PrioBeforeWave ==
    Layout(SingleWaveform[3])["prio"].upto <= Layout(SingleWaveform[3])["wf"].first
<1> DEFINE m == Priority
           n == Waveform("wf")
           b == <<m, n>>
           c == EventHead \o b
<1>1. SingleWaveform[3] = c
  BY DEF SingleWaveform
<1>2. /\ m \in AMember /\ m.name = "prio"
      /\ n \in AMember /\ n.name = "wf"
  <2>1. {"prio", "wf"} \subseteq MemberNames
    BY DEF MemberNames, WaveNames
  <2> QED
    BY <2>1, BlockType DEF Priority, Waveform
<1> HIDE DEF m, n
<1>3. b \in Seq(AMember) /\ DOMAIN b = {1, 2} /\ Len(b) = 2 /\ b[1] = m /\ b[2] = n
  BY <1>2
<1>4. EventHead \in Seq(AMember) /\ Len(EventHead) \in Nat
  BY EventHeadStruct DEF IsStruct, Sound
<1>5. Sound(c)
  BY <1>1, SingleNewStruct DEF IsStruct
<1> HIDE DEF b
<1> DEFINE k == Len(EventHead)
<1>6. /\ Len(c) = k + Len(b) /\ c \in Seq(AMember)
      /\ \A i \in DOMAIN b :
            /\ c[k + i] = b[i]
            /\ Begin(c, k + i) = Start(Ends(c)[k + i - 1], b[i])
  BY <1>3, <1>4, EndsBehind
<1> HIDE DEF c
<1>7. /\ k + 1 \in DOMAIN c /\ k + 2 \in DOMAIN c /\ k + 2 - 1 = k + 1
      /\ k + 1 \in 0 .. Len(c) /\ c[k + 1] = m /\ c[k + 2] = n
  BY <1>3, <1>4, <1>6
<1>8. /\ Layout(c)["prio"].upto = Ends(c)[k + 1]
      /\ Layout(c)["wf"].first = Begin(c, k + 2)
  BY <1>2, <1>5, <1>7, LayoutAt
<1>9. Ends(c)[k + 2 - 1] <= Begin(c, k + 2)
  BY <1>6, <1>7, EndsType
<1> QED
  BY <1>1, <1>7, <1>8, <1>9

(* What of the current struct lies within the prefix that is read.         *)
LEMMA PrefixHolds ==
    ASSUME NEW t \in WaveTypes, NEW v \in 0 .. Current(t)
    PROVE  /\ \A name \in CoreNames : ~Beyond(t, name, Prefix(t, v))
           /\ v >= 1 => ~Beyond(t, "readout_time", Prefix(t, v))
           /\ v = 0 => Beyond(t, "readout_time", Prefix(t, v))
           /\ v = 2 => ~Beyond(t, "prio", Prefix(t, v))
<1> DEFINE s == StructOf(t, Current(t))
           at == Layouts[t][Current(t)]
<1>1. /\ t \in Versioned /\ Current(t) \in 0 .. Current(t)
      /\ Keeps(s, EventHead) /\ at = Layout(s)
      /\ NewNames(t) = NamesOf(s)
  BY WaveStructs, Placed DEF NewNames, OldNames
<1>2. /\ NamesOf(EventHead) = CoreNames \cup {"readout_time"}
      /\ NamesOf(EventCore) = CoreNames
      /\ Keeps(EventHead, EventCore) /\ Keeps(s, EventCore)
  BY <1>1, EventHeadStruct, EventCoreStruct, KeepsTransitive DEF IsStruct, EventHeadNames
<1>3. /\ WaveName(t) \in NamesOf(s) \ NamesOf(EventHead)
      /\ t = "single_waveform" => "prio" \in NamesOf(s) \ NamesOf(EventHead)
      /\ "readout_time" \notin CoreNames
  <2>1. {"wf", "wfs", "prio"} \cap EventHeadNames = {} /\ "readout_time" \notin CoreNames
    BY DEF EventHeadNames, CoreNames, EventNames, DeadNames, TriggerNames
  <2> QED
    BY <1>1, <1>2, <2>1, WaveNamesOf DEF WaveName, EventHeadNames
<1>4. \A name \in NamesOf(s) : /\ at[name].first \in Nat /\ at[name].upto \in Nat
                               /\ at[name].first < at[name].upto
  BY <1>1, Placed DEF NewNames, OldNames
<1>5. ASSUME NEW name \in CoreNames PROVE at[name].upto <= at["readout_time"].first
  BY <1>1, <1>2, <1>3 DEF Keeps
<1>6. ASSUME NEW name \in EventHeadNames, NEW other \in NamesOf(s) \ NamesOf(EventHead)
      PROVE  at[name].upto <= at[other].first
  BY <1>1, <1>2 DEF Keeps, EventHeadNames
<1>7. CASE v = 0
  <2>1. Prefix(t, v) = at["readout_time"].first
    BY <1>7 DEF Prefix
  <2> QED
    BY <1>1, <1>2, <1>4, <1>5, <1>7, <2>1 DEF Beyond, Keeps
<1>8. CASE v = 1 /\ t = "single_waveform"
  <2>1. Prefix(t, v) = at["prio"].first
    BY <1>8 DEF Prefix
  <2> QED
    BY <1>1, <1>2, <1>3, <1>4, <1>6, <1>8, <2>1 DEF Beyond, Keeps, EventHeadNames
<1>9. CASE v # 0 /\ ~(v = 1 /\ t = "single_waveform")
  <2>1. Prefix(t, v) = at[WaveName(t)].first
    BY <1>9 DEF Prefix, WaveName
  <2>2. v = 2 => at["prio"].upto <= at["wf"].first /\ t = "single_waveform"
    BY <1>1, PrioBeforeWave, CurrentVersions DEF StructOf, WaveTypes
  <2> QED
    BY <1>1, <1>2, <1>3, <1>4, <1>6, <1>9, <2>1, <2>2 DEF WaveName, Beyond, Keeps, EventHeadNames
<1> QED
  BY <1>7, <1>8, <1>9
-----------------------------------------------------------------------------
(* The inductive invariant.                                                *)

IsSequence(s) == s \in Seq({s[i] : i \in DOMAIN s})

Moved(p) == IF p.type = "slow" /\ p.flown = 0
            THEN {"L2_rates", "current_run_events"} ELSE {"rest"}
Kept(p) == (WireMembers(p.type, p.flown) \cap Members(p.type)) \ Moved(p)

Inside(p, name) ==
    Layouts[p.type][Current(p.type)][name].first < SizeOfVersion(p.type, p.flown)
Added(p) == NewNames(p.type) \ OldNames(p.type, p.flown)

(* What the members of packet p hold, in memory or in a converted archive. *)
Carried(p, at) ==
    /\ \A name \in Kept(p) : at[name] = {<<p.id, name>>}
    /\ p.type \in {"daq_hsk", "daq_hsk_summary"} => \A name \in Added(p) :
          at[name] \subseteq
              IF Inside(p, name) THEN Zero \cup {<<p.id, "padding">>} ELSE Zero
    /\ p.type \in WaveTypes /\ p.flown = 0 => at["readout_time"] = Zero
    /\ \A name \in Dumped(p.type) : \A from \in at[name] :
          from[1] = p.id \/ from \in Zero

(* A packet in an archive is as it was flown, or was converted.            *)
IsConverted(p) ==
    /\ p.type \in Types
    /\ p.version = CurrentVersion(p.type) /\ p.flown \in 0 .. p.version
    /\ p.at = [name \in WireMembers(p.type, p.version) |-> p.at[name]]
    /\ Carried(p, p.at)

Fields == {"id", "type", "version", "flown", "magic", "sensor", "long", "at"}
InArchive(p) == DOMAIN p = Fields /\ (IsFlown(p) \/ IsConverted(p))

(* The packet that was read into memory: of the current version, it is as  *)
(* it was in the archive.                                                  *)
WellRead(p, at) ==
    /\ DOMAIN at = Members(p.type)
    /\ Carried(p, at)
    /\ p.version = CurrentVersion(p.type) =>
          \A name \in WireMembers(p.type, p.version) : at[name] = p.at[name]

CopyOK ==
    \A i \in DOMAIN copy :
        /\ InArchive(copy[i]) /\ copy[i].version = CurrentVersion(copy[i].type)
        /\ file[i].version = CurrentVersion(file[i].type) => copy[i].at = file[i].at

RowsOK ==
    \A i \in DOMAIN rows :
        /\ rows[i].packet \in DOMAIN file
        /\ SensorFlown(file[rows[i].packet], rows[i].sensor)

Progress ==
    /\ pc \in {"read", "dump", "insert", "write", "done"}
    /\ runs \in 0 .. MaxRuns /\ (pc # "done" => runs < MaxRuns)
    /\ Len(copy) <= Len(file) /\ (InMemory => Pos <= Len(file))
    /\ Len(rows) <= IF pc = "write" THEN Pos ELSE Len(copy)
    /\ pc = "done" => Len(copy) = Len(file)

OInv ==
    /\ IsSequence(file) /\ IsSequence(copy) /\ IsSequence(rows)
    /\ Progress
    /\ \A i \in DOMAIN file : InArchive(file[i])
    /\ CopyOK /\ RowsOK
    /\ InMemory => mem.type = Reading.type /\ WellRead(Reading, mem.at)
    /\ pc \in {"insert", "write"} =>
          /\ SensorFlown(Reading, printed.sensor)
          /\ printed.at = Shown(Reading)
-----------------------------------------------------------------------------
(* The types of packets, and what is shown of each.                        *)

SimpleTypes == {"slow", "daq_hsk", "daq_hsk_summary"}

(* The kinds of packets.                                                   *)
LEMMA TypesOf ==
    ASSUME NEW t \in Types
    PROVE  /\ Versioned = WaveTypes \cup SimpleTypes /\ WaveTypes \cap SimpleTypes = {}
           /\ CurrentVersion(t) \in Nat
           /\ t \in Versioned => CurrentVersion(t) = Current(t)
           /\ t \in Versioned \/ t \in Counted \/ t \in Whole
           /\ t \in Counted => t \notin Versioned /\ t \notin Whole /\ t # "slow"
           /\ t \in Whole => t \notin Versioned /\ t \notin Counted /\ t \notin Sensors
<1>1. Versioned = WaveTypes \cup SimpleTypes /\ WaveTypes \cap SimpleTypes = {}
  BY CurrentVersions DEF WaveTypes, SimpleTypes
<1>2. CurrentVersion(t) \in Nat /\ (t \in Versioned => CurrentVersion(t) = Current(t))
  BY CurrentVersions DEF CurrentVersion
<1>3. t \in Counted => t \notin Versioned /\ t \notin Whole /\ t # "slow"
  BY CurrentVersions DEF Counted, Sensors, Whole
<1>4. t \in Whole => t \notin Versioned /\ t \notin Counted /\ t \notin Sensors
  BY CurrentVersions DEF Counted, Sensors, Whole
<1> QED
  BY <1>1, <1>2, <1>3, <1>4 DEF Types

(* The members in memory and on the wire, by the kind of packet.           *)
LEMMA MembersOf ==
    ASSUME NEW t \in Types
    PROVE  /\ t \in WaveTypes => Members(t) = NewNames(t) \cup {"rest"}
           /\ t \in SimpleTypes => Members(t) = NewNames(t)
           /\ t \in Counted => Members(t) = {"head", "items", "rest"}
           /\ t \in Whole => Members(t) = {"all"}
           /\ WireMembers(t, CurrentVersion(t)) \subseteq Members(t)
           /\ t \in Versioned => WireMembers(t, CurrentVersion(t)) = NewNames(t)
           /\ t \notin Versioned =>
                 WireMembers(t, CurrentVersion(t)) = Members(t) \ {"rest"}
<1>1. /\ t \in WaveTypes => Members(t) = NewNames(t) \cup {"rest"}
      /\ t \in SimpleTypes => Members(t) = NewNames(t)
      /\ t \in Counted => Members(t) = {"head", "items", "rest"}
      /\ t \in Whole => Members(t) = {"all"}
  <2>1. t \in WaveTypes => Members(t) = NewNames(t) \cup {"rest"}
    BY TypesOf DEF Members
  <2>2. t \in SimpleTypes => Members(t) = NewNames(t)
    BY TypesOf DEF Members
  <2>3. t \in Counted => Members(t) = {"head", "items", "rest"}
    BY TypesOf DEF Members
  <2>4. t \in Whole => Members(t) = {"all"}
    BY TypesOf DEF Members
  <2> QED
    BY <2>1, <2>2, <2>3, <2>4
<1>2. t \in Versioned => WireMembers(t, CurrentVersion(t)) = NewNames(t)
  BY TypesOf DEF WireMembers, NewNames, OldNames
<1>3. t \notin Versioned => WireMembers(t, CurrentVersion(t)) = Members(t) \ {"rest"}
  BY DEF WireMembers, CurrentVersion
<1> QED
  BY <1>1, <1>2, <1>3, TypesOf

(* What a dump prints, by the kind of packet.                              *)
LEMMA DumpedOf ==
    ASSUME NEW t \in Types
    PROVE  /\ t \in WaveTypes => Dumped(t) = DumpedWaves(t)
           /\ t = "slow" => Dumped(t) = DumpedSlow
           /\ t = "daq_hsk" => Dumped(t) = DumpedHsk
           /\ t = "daq_hsk_summary" => Dumped(t) = DumpedSummary
           /\ t \in Counted => Dumped(t) = DumpedCounted
           /\ t \in Whole => Dumped(t) = DumpedWhole
<1>1. /\ t \in WaveTypes => t \notin SimpleTypes /\ t \notin Counted /\ t \notin Whole
      /\ t \in SimpleTypes => t \notin WaveTypes /\ t \notin Counted /\ t \notin Whole
      /\ t \in Counted => t \notin WaveTypes /\ t \notin SimpleTypes /\ t \notin Whole
      /\ t \in Whole => t \notin WaveTypes /\ t \notin SimpleTypes /\ t \notin Counted
  BY TypesOf
<1>2. t \in WaveTypes => Dumped(t) = DumpedWaves(t)
  BY <1>1 DEF Dumped, SimpleTypes
<1>3. t = "slow" => Dumped(t) = DumpedSlow
  BY <1>1 DEF Dumped, SimpleTypes
<1>4. t = "daq_hsk" => Dumped(t) = DumpedHsk
  BY <1>1 DEF Dumped, SimpleTypes
<1>5. t = "daq_hsk_summary" => Dumped(t) = DumpedSummary
  BY <1>1 DEF Dumped, SimpleTypes
<1>6. t \in Counted => Dumped(t) = DumpedCounted
  BY <1>1 DEF Dumped, SimpleTypes
<1>7. t \in Whole => Dumped(t) = DumpedWhole
  BY <1>1 DEF Dumped, SimpleTypes
<1> QED
  BY <1>2, <1>3, <1>4, <1>5, <1>6, <1>7

(* A dump prints nothing but what is on the wire.                          *)
LEMMA DumpedOnWire ==
    ASSUME NEW t \in Types
    PROVE  Dumped(t) \subseteq WireMembers(t, CurrentVersion(t))
<1>1. CASE t \in WaveTypes
  <2>1. Dumped(t) = EventHeadNames \cup {WaveName(t)}
    BY <1>1, EventHeadStruct, DumpedOf DEF DumpedWaves, DumpedEvent, WaveName, IsStruct
  <2>2. EventHeadNames \cup {WaveName(t)} \subseteq NewNames(t)
    <3>1. 0 \in 0 .. Current(t)
      BY <1>1, CurrentVersions DEF WaveTypes
    <3> QED
      BY <1>1, <3>1, WaveNamesOf
  <2> QED
    BY <1>1, <2>1, <2>2, TypesOf, MembersOf
<1>2. CASE t = "slow"
  <2>1. Dumped(t) = SlowRunNames \cup {"current_run_events"}
    BY <1>2, SlowRunStruct, DumpedOf DEF DumpedSlow, IsStruct, SlowRun
  <2>2. NewNames(t) = SlowNewNames
    <3>1. StructOf(t, Current(t)) = Slow[2] /\ Current(t) \in 0 .. Current(t)
      BY <1>2, CurrentVersions DEF StructOf
    <3>2. NewNames(t) = NamesOf(Slow[2])
      BY <1>2, <3>1, Placed, CurrentVersions DEF NewNames, OldNames
    <3> QED
      BY <3>2, SlowNewStruct DEF IsStruct
  <2>3. SlowRunNames \cup {"current_run_events"} \subseteq SlowNewNames
    BY DEF SlowRunNames, SlowNewNames, SlowNewHeadNames, SlowSeenNames
  <2> QED
    BY <1>2, <2>1, <2>2, <2>3, MembersOf, CurrentVersions
<1>3. CASE t = "daq_hsk"
  <2>1. Dumped(t) = TurfNames \cup {"scaler_readout_time", "l2_readout_time",
                "soft_rate", "pps_rate", "l2_enable_mask", "Hscalers", "Vscalers"}
    BY <1>3, TurfStruct, DumpedOf DEF DumpedHsk, IsStruct
  <2>2. NewNames(t) = TurfHskNames
    <3>1. StructOf(t, Current(t)) = DaqHsk[4] /\ Current(t) \in 0 .. Current(t)
      BY <1>3, CurrentVersions DEF StructOf
    <3>2. NewNames(t) = NamesOf(DaqHsk[4])
      BY <1>3, <3>1, Placed, CurrentVersions DEF NewNames, OldNames
    <3> QED
      BY <3>2, TurfHskStruct DEF IsStruct
  <2>3. Dumped(t) \subseteq TurfHskNames
    BY <2>1 DEF TurfHskNames, MaskHskNames, TotalsHskNames, DaqHeadNames, EnableMaskNames
  <2> QED
    BY <1>3, <2>2, <2>3, MembersOf, CurrentVersions
<1>4. CASE t = "daq_hsk_summary"
  <2>1. DaqHskSummary[3] = SummaryHead \o Fraction \o Turf
    BY DEF DaqHskSummary
  <2>2. Dumped(t) = NamesOf(DaqHskSummary[3])
    BY <1>4, <2>1, DumpedOf DEF DumpedSummary
  <2>3. StructOf(t, Current(t)) = DaqHskSummary[3] /\ Current(t) \in 0 .. Current(t)
    BY <1>4, CurrentVersions DEF StructOf
  <2>4. NewNames(t) = NamesOf(DaqHskSummary[3])
    BY <1>4, <2>3, Placed, CurrentVersions DEF NewNames, OldNames
  <2> QED
    BY <1>4, <2>2, <2>4, MembersOf, CurrentVersions
<1>5. CASE t \in Counted
  <2>1. Dumped(t) = {"head", "items"}
    BY <1>5, DumpedOf DEF DumpedCounted
  <2> QED
    BY <1>5, <2>1, TypesOf, MembersOf
<1>6. CASE t \in Whole
  <2>1. Dumped(t) = {"all"}
    BY <1>6, DumpedOf DEF DumpedWhole
  <2> QED
    BY <1>6, <2>1, TypesOf, MembersOf
<1> QED
  BY <1>1, <1>2, <1>3, <1>4, <1>5, <1>6, TypesOf DEF SimpleTypes
-----------------------------------------------------------------------------
(* Packets in an archive.                                                  *)

(* What a packet holds as it was flown.                                    *)
LEMMA FlownType ==
    ASSUME NEW p, IsFlown(p)
    PROVE  /\ DOMAIN p = Fields /\ p.type \in Types /\ p.flown = p.version
           /\ p.version \in 0 .. CurrentVersion(p.type)
           /\ DOMAIN p.at = WireMembers(p.type, p.version)
           /\ p.at = [name \in WireMembers(p.type, p.version) |-> p.at[name]]
           /\ \A name \in WireMembers(p.type, p.version) : p.at[name] = {<<p.id, name>>}
<1> DEFINE wire == WireMembers(p.type, p.version)
           at == [name \in wire |-> {<<p.id, name>>}]
           q == [id |-> p.id, type |-> p.type, version |-> p.version,
                 flown |-> p.version, magic |-> p.magic, sensor |-> p.sensor,
                 long |-> p.long, at |-> at]
<1>1. p = q /\ p.type \in Types /\ p.version \in 0 .. CurrentVersion(p.type)
  BY DEF IsFlown, Flown, Packet
<1> HIDE DEF at
<1>2. DOMAIN q = Fields
  BY DEF Fields
<1>3. p.flown = p.version /\ p.at = at
  BY <1>1
<1> QED
  BY <1>1, <1>2, <1>3 DEF at

(* The members that are kept, and what a dump prints, are written again.   *)
LEMMA KeptOnWire ==
    ASSUME NEW p, p.type \in Types
    PROVE  Kept(p) \subseteq WireMembers(p.type, CurrentVersion(p.type))
<1>1. CASE p.type \in WaveTypes
  BY <1>1, TypesOf, MembersOf DEF Kept, Moved, SimpleTypes
<1>2. CASE p.type \in SimpleTypes
  BY <1>2, TypesOf, MembersOf DEF Kept
<1>3. CASE p.type \notin Versioned
  BY <1>3, TypesOf, MembersOf DEF Kept, Moved, SimpleTypes
<1> QED
  BY <1>1, <1>2, <1>3, TypesOf

(* What is the same on the wire is as good.                                *)
LEMMA CarriedOver ==
    ASSUME NEW p, p.type \in Types, NEW from, NEW at, Carried(p, from),
           \A name \in WireMembers(p.type, CurrentVersion(p.type)) : at[name] = from[name]
    PROVE  Carried(p, at)
<1>1. /\ Kept(p) \subseteq WireMembers(p.type, CurrentVersion(p.type))
      /\ Dumped(p.type) \subseteq WireMembers(p.type, CurrentVersion(p.type))
  BY KeptOnWire, DumpedOnWire
<1>2. p.type \in {"daq_hsk", "daq_hsk_summary"} =>
          Added(p) \subseteq WireMembers(p.type, CurrentVersion(p.type))
  BY MembersOf, CurrentVersions DEF Added
<1>3. p.type \in WaveTypes =>
          "readout_time" \in WireMembers(p.type, CurrentVersion(p.type))
  <2> SUFFICES ASSUME p.type \in WaveTypes PROVE "readout_time" \in NewNames(p.type)
    BY MembersOf, TypesOf
  <2>1. 0 \in 0 .. Current(p.type)
    BY CurrentVersions DEF WaveTypes
  <2> QED
    BY <2>1, WaveNamesOf DEF EventHeadNames
<1>4. \A name \in Kept(p) : at[name] = {<<p.id, name>>}
  BY <1>1 DEF Carried
<1>5. p.type \in {"daq_hsk", "daq_hsk_summary"} => \A name \in Added(p) :
          at[name] \subseteq
              IF Inside(p, name) THEN Zero \cup {<<p.id, "padding">>} ELSE Zero
  BY <1>2 DEF Carried
<1>6. p.type \in WaveTypes /\ p.flown = 0 => at["readout_time"] = Zero
  BY <1>3 DEF Carried
<1>7. \A name \in Dumped(p.type) : \A from1 \in at[name] :
          from1[1] = p.id \/ from1 \in Zero
  BY <1>1 DEF Carried
<1> QED
  BY <1>4, <1>5, <1>6, <1>7 DEF Carried

(* A packet of the current version holds all it should.                    *)
LEMMA CurrentCarried ==
    ASSUME NEW p, InArchive(p), p.version = CurrentVersion(p.type)
    PROVE  /\ p.type \in Types /\ DOMAIN p.at = WireMembers(p.type, p.version)
           /\ p.at = [name \in WireMembers(p.type, p.version) |-> p.at[name]]
           /\ Carried(p, p.at)
<1>1. CASE IsConverted(p)
  BY <1>1 DEF IsConverted
<1>2. CASE IsFlown(p)
  <2>1. /\ p.type \in Types /\ p.flown = p.version
        /\ DOMAIN p.at = WireMembers(p.type, p.version)
        /\ p.at = [name \in WireMembers(p.type, p.version) |-> p.at[name]]
        /\ \A name \in WireMembers(p.type, p.version) : p.at[name] = {<<p.id, name>>}
    BY <1>2, FlownType
  <2>2. \A name \in Kept(p) : p.at[name] = {<<p.id, name>>}
    BY <2>1, KeptOnWire
  <2>3. p.type \in {"daq_hsk", "daq_hsk_summary"} => Added(p) = {}
    BY <2>1, TypesOf, CurrentVersions DEF Added, NewNames, OldNames
  <2>4. ~(p.type \in WaveTypes /\ p.flown = 0)
    BY <2>1, TypesOf, CurrentVersions DEF WaveTypes
  <2>5. \A name \in Dumped(p.type) : \A from \in p.at[name] : from[1] = p.id
    BY <2>1, DumpedOnWire
  <2> QED
    BY <2>1, <2>2, <2>3, <2>4, <2>5 DEF Carried
<1> QED
  BY <1>1, <1>2 DEF InArchive

-----------------------------------------------------------------------------
(* What the readers make of a packet.                                      *)

(* The counted readers, and the whole ones: items and zeros.               *)
LEMMA ReadCountedWell ==
    ASSUME NEW p, InArchive(p), p.type \notin Versioned, NEW before
    PROVE  WellRead(p, ReadCounted(p, before))
<1> DEFINE at == ReadCounted(p, before)
           wire == WireMembers(p.type, CurrentVersion(p.type))
<1>1. p.type \in Types
  BY FlownType DEF InArchive, IsConverted
<1>2. /\ DOMAIN at = Members(p.type)
      /\ \A name \in Members(p.type) :
            at[name] = IF name \in DOMAIN p.at THEN p.at[name] ELSE Zero
  BY DEF ReadCounted
<1> HIDE DEF at
<1>3. wire \subseteq Members(p.type)
  BY <1>1, MembersOf
<1>4. CASE p.version = CurrentVersion(p.type)
  <2>1. DOMAIN p.at = wire /\ Carried(p, p.at)
    BY <1>4, CurrentCarried
  <2>2. \A name \in wire : at[name] = p.at[name]
    BY <1>2, <1>3, <2>1
  <2>3. Carried(p, at)
    BY <1>1, <2>1, <2>2, CarriedOver
  <2> QED
    BY <1>2, <1>4, <2>2, <2>3 DEF WellRead, at
<1>5. CASE p.version # CurrentVersion(p.type)
  <2>1. /\ p.flown = p.version /\ DOMAIN p.at = WireMembers(p.type, p.version)
        /\ \A name \in WireMembers(p.type, p.version) : p.at[name] = {<<p.id, name>>}
    BY <1>5, FlownType DEF InArchive, IsConverted
  <2>2. \A name \in Kept(p) : at[name] = {<<p.id, name>>}
    BY <1>2, <2>1 DEF Kept
  <2>3. p.type \notin {"daq_hsk", "daq_hsk_summary"} /\ p.type \notin WaveTypes
    BY CurrentVersions DEF WaveTypes
  <2>4. \A name \in Dumped(p.type) : at[name] = {<<p.id, name>>} \/ at[name] = Zero
    BY <1>1, <1>2, <1>3, <2>1, DumpedOnWire
  <2>5. \A name \in Dumped(p.type) : \A from \in at[name] :
            from[1] = p.id \/ from \in Zero
    BY <2>4
  <2>6. Carried(p, at)
    BY <2>2, <2>3, <2>5 DEF Carried
  <2> QED
    BY <1>2, <1>5, <2>6 DEF WellRead, at
<1> QED
  BY <1>4, <1>5

(* A member in its place is read as it is in the archive.                  *)
LEMMA SimpleSame ==
    ASSUME NEW p, NEW before, p.type \in SimpleTypes,
           p.version \in 0 .. Current(p.type), NEW name, Same(p.type, p.version, name)
    PROVE  ReadSimple(p, before)[name] = p.at[name]
<1> DEFINE size == SizeOfVersion(p.type, p.version)
<1>1. /\ p.type \in Versioned /\ p.type \in Types /\ name \in Members(p.type)
  BY TypesOf, MembersOf, CurrentVersions DEF SimpleTypes, Types, Same
<1>2. /\ Sources(p.type, p.version, name) = {name}
      /\ ~FromPadding(p.type, p.version, name, size)
      /\ ~Beyond(p.type, name, size)
  BY <1>1, SameIsRead
<1>3. ReadSimple(p, before)[name] =
          (UNION {p.at[source] : source \in Sources(p.type, p.version, name)})
            \cup (IF FromPadding(p.type, p.version, name, size)
                  THEN {<<p.id, "padding">>} ELSE {})
            \cup (IF Beyond(p.type, name, size) THEN Zero ELSE {})
  BY <1>1 DEF ReadSimple
<1> HIDE DEF size
<1>4. UNION {p.at[source] : source \in {name}} = p.at[name]
  OBVIOUS
<1> QED
  BY <1>2, <1>3, <1>4

(* The simple readers: the old struct, then zeros.                         *)
LEMMA ReadSimpleWell ==
    ASSUME NEW p, InArchive(p), p.type \in SimpleTypes, NEW before
    PROVE  WellRead(p, ReadSimple(p, before))
<1> DEFINE at == ReadSimple(p, before)
           t == p.type
           v == p.version
           size == SizeOfVersion(t, v)
<1>1. /\ t \in Types /\ t \in Versioned /\ t \notin WaveTypes
      /\ CurrentVersion(t) = Current(t) /\ Members(t) = NewNames(t)
      /\ WireMembers(t, CurrentVersion(t)) = NewNames(t)
  <2>1. t \in Types
    BY FlownType DEF InArchive, IsConverted
  <2> QED
    BY <2>1, TypesOf, MembersOf
<1>2. v \in 0 .. Current(t)
  BY <1>1, TypesOf, FlownType, CurrentSame, CurrentVersions DEF InArchive, IsConverted
<1>3. DOMAIN at = Members(t)
  BY DEF ReadSimple
<1>4. CASE v = CurrentVersion(t)
  <2>1. Carried(p, p.at)
    BY <1>4, CurrentCarried
  <2>2. \A name \in NewNames(t) : at[name] = p.at[name]
    BY <1>1, <1>2, <1>4, CurrentSame, SimpleSame
  <2>3. Carried(p, at)
    BY <1>1, <2>1, <2>2, CarriedOver
  <2> QED
    BY <1>1, <1>3, <1>4, <2>2, <2>3 DEF WellRead
<1>5. CASE v # CurrentVersion(t)
  <2>1. /\ p.flown = v
        /\ \A name \in OldNames(t, v) : p.at[name] = {<<p.id, name>>}
    BY <1>1, <1>5, FlownType DEF InArchive, IsConverted, WireMembers
  <2> DEFINE padding(name) == FromPadding(t, v, name, size)
             beyond(name) == Beyond(t, name, size)
             sources(name) == UNION {p.at[source] : source \in Sources(t, v, name)}
  <2>2. \A name \in NewNames(t) : at[name] =
            sources(name) \cup (IF padding(name) THEN {<<p.id, "padding">>} ELSE {})
                          \cup (IF beyond(name) THEN Zero ELSE {})
    <3> TAKE name \in NewNames(t)
    <3>1. name \in Members(p.type)
      BY <1>1
    <3> QED
      BY <3>1 DEF ReadSimple
  <2>3. ASSUME NEW name \in Kept(p) PROVE Same(t, v, name)
    <3>1. name \in OldNames(t, v) /\ name \in NewNames(t) /\ name \notin Moved(p)
      BY <1>1, <2>1 DEF Kept, WireMembers
    <3>2. CASE t \in {"daq_hsk", "daq_hsk_summary"}
      BY <1>2, <3>1, <3>2, HskSame
    <3>3. CASE t = "slow"
      <4>1. v = 0 /\ StructOf(t, v) = Slow[1] /\ StructOf(t, Current(t)) = Slow[2]
        BY <1>1, <1>2, <1>5, <3>3, CurrentVersions DEF StructOf
      <4>2. OldNames(t, v) = SlowOldNames /\ NewNames(t) = SlowNewNames
        <5>1. OldNames(t, v) = NamesOf(Slow[1])
          BY <1>1, <1>2, <4>1, Placed
        <5>2. NewNames(t) = NamesOf(Slow[2])
          BY <1>1, <1>2, <4>1, Placed, CurrentVersions, <3>3 DEF NewNames, OldNames
        <5> QED
          BY <5>1, <5>2, SlowOldStruct, SlowNewStruct DEF IsStruct
      <4>3. name \notin {"L2_rates", "current_run_events"}
        BY <2>1, <3>1, <3>3, <4>1 DEF Moved
      <4>4. "L1_rates" \notin SlowNewNames
        BY DEF SlowNewNames, SlowNewHeadNames, SlowSeenNames, SlowHeadNames, RunNames,
               SeenNames, RunningNames
      <4>5. name \in SlowRunNames
        BY <3>1, <4>2, <4>3, <4>4 DEF SlowOldNames, SlowTailNames
      <4> QED
        BY <1>2, <3>3, <4>5, SlowSame
    <3> QED
      BY <3>2, <3>3 DEF SimpleTypes
  <2>4. \A name \in Kept(p) : at[name] = {<<p.id, name>>}
    <3> TAKE name \in Kept(p)
    <3>1. Same(t, v, name) /\ name \in OldNames(t, v)
      BY <2>3 DEF Same
    <3> QED
      BY <1>2, <2>1, <3>1, SimpleSame
  <2>5. ASSUME t \in {"daq_hsk", "daq_hsk_summary"}, NEW name \in Added(p)
        PROVE  at[name] \subseteq
                   IF Inside(p, name) THEN Zero \cup {<<p.id, "padding">>} ELSE Zero
    <3>1. name \in NewNames(t) \ OldNames(t, v)
      BY <2>1 DEF Added
    <3>2. /\ Sources(t, v, name) = {}
          /\ FromPadding(t, v, name, size) => Inside(p, name)
      BY <1>1, <1>2, <2>1, <2>5, <3>1, HskKeeps, AppendedIsClear DEF Inside
    <3>3. UNION {p.at[source] : source \in Sources(t, v, name)} = {}
      BY <3>2
    <3>4. sources(name) = {} /\ (padding(name) => Inside(p, name))
      BY <3>2, <3>3
    <3> HIDE DEF at, padding, beyond, sources
    <3> QED
      BY <2>2, <3>1, <3>4
  <2>6. ASSUME NEW name \in Dumped(t), NEW from \in at[name]
        PROVE  from[1] = p.id \/ from \in Zero
    <3>1. name \in NewNames(t)
      BY <1>1, DumpedOnWire
    <3>2. \A source \in Sources(t, v, name) : p.at[source] = {<<p.id, source>>}
      BY <2>1 DEF Sources
    <3>3. \A x \in UNION {p.at[source] : source \in Sources(t, v, name)} : x[1] = p.id
      BY <3>2
    <3>4. \A x \in sources(name) : x[1] = p.id
      BY <3>3
    <3> HIDE DEF at, padding, beyond, sources
    <3>5. from \in sources(name) \/ from = <<p.id, "padding">> \/ from \in Zero
      BY <2>2, <2>6, <3>1
    <3> QED
      BY <3>4, <3>5
  <2>7. Carried(p, at)
    BY <1>1, <2>4, <2>5, <2>6 DEF Carried
  <2> QED
    BY <1>1, <1>3, <1>5, <2>7 DEF WellRead
<1> QED
  BY <1>4, <1>5

(* The members before the waveforms, within the prefix, are read as they   *)
(* are in the archive; the waveform is, too.                               *)
LEMMA ReadWavesAt ==
    ASSUME NEW p, NEW before, p.type \in WaveTypes, p.version \in 0 .. Current(p.type)
    PROVE  LET at == ReadWaves(p, before)
               prefix == Prefix(p.type, p.version)
           IN  /\ DOMAIN at = Members(p.type)
               /\ at[WaveName(p.type)] = p.at[WaveName(p.type)]
               /\ \A name \in NewNames(p.type) \ {WaveName(p.type)} :
                     ~Beyond(p.type, name, prefix) =>
                        at[name] = UNION {p.at[s] : s \in Sources(p.type, p.version, name)}
               /\ p.version = 0 => at["readout_time"] = Zero
               /\ \A name \in NewNames(p.type) \ {WaveName(p.type)} :
                     ~Beyond(p.type, name, prefix) /\ Same(p.type, p.version, name) =>
                        at[name] = p.at[name]
<1> DEFINE t == p.type
           at == ReadWaves(p, before)
           prefix == Prefix(t, p.version)
<1>1. t \in Versioned /\ t \in Types /\ Members(t) = NewNames(t) \cup {"rest"}
  BY WaveStructs, MembersOf DEF Types
<1>2. /\ WaveName(t) \in NewNames(t) /\ "readout_time" \in NewNames(t)
      /\ NewNames(t) \subseteq EventHeadNames \cup {"prio", WaveName(t)}
  BY WaveNamesOf DEF EventHeadNames
<1>3. {"wf", "wfs", "rest"} \cap (EventHeadNames \cup {"prio"}) = {}
  BY DEF EventHeadNames, CoreNames, EventNames, DeadNames, TriggerNames
<1>4. WaveName(t) \in {"wf", "wfs"}
  BY DEF WaveName
<1>5. ASSUME NEW name \in NewNames(t) \ {WaveName(t)}, ~Beyond(t, name, prefix)
      PROVE  at[name] = UNION {p.at[s] : s \in Sources(t, p.version, name)}
  <2>1. name \in Members(t) /\ name \notin {"wf", "wfs", "rest"}
    BY <1>1, <1>2, <1>3
  <2> QED
    BY <1>5, <2>1 DEF ReadWaves
<1>6. ASSUME NEW name \in NewNames(t) \ {WaveName(t)}, ~Beyond(t, name, prefix),
             Same(t, p.version, name)
      PROVE  at[name] = p.at[name]
  <2>1. Sources(t, p.version, name) = {name}
    BY <1>1, <1>6, SameIsRead
  <2>2. UNION {p.at[s] : s \in {name}} = p.at[name]
    OBVIOUS
  <2> QED
    BY <1>5, <1>6, <2>1, <2>2
<1>7. at[WaveName(t)] = p.at[WaveName(t)]
  BY <1>1, <1>2, <1>4 DEF ReadWaves
<1>8. ASSUME p.version = 0 PROVE at["readout_time"] = Zero
  <2>1. "readout_time" \in Members(t)
    BY <1>1, <1>2
  <2>2. Beyond(t, "readout_time", prefix)
    BY <1>8, PrefixHolds
  <2> QED
    BY <1>8, <2>1, <2>2 DEF ReadWaves
<1>9. DOMAIN at = Members(t)
  BY DEF ReadWaves
<1> QED
  BY <1>5, <1>6, <1>7, <1>8, <1>9

(* The readers of events: the prefix, the waveforms, and what is left      *)
(* alone.                                                                  *)
LEMMA ReadWavesWell ==
    ASSUME NEW p, InArchive(p), p.type \in WaveTypes, NEW before
    PROVE  WellRead(p, ReadWaves(p, before))
<1> DEFINE at == ReadWaves(p, before)
           t == p.type
           v == p.version
           prefix == Prefix(t, v)
<1>1. /\ t \in Types /\ t \in Versioned /\ CurrentVersion(t) = Current(t)
      /\ Members(t) = NewNames(t) \cup {"rest"}
      /\ WireMembers(t, CurrentVersion(t)) = NewNames(t)
  <2>1. t \in Types
    BY FlownType DEF InArchive, IsConverted
  <2> QED
    BY <2>1, TypesOf, MembersOf
<1>2. v \in 0 .. Current(t) /\ Current(t) \in {1, 2} /\ (Current(t) = 2 <=> t = "single_waveform")
  <2>1. Current(t) \in {1, 2} /\ (Current(t) = 2 <=> t = "single_waveform")
    BY CurrentVersions DEF WaveTypes
  <2> QED
    BY <1>1, <2>1, FlownType DEF InArchive, IsConverted
<1>3. /\ DOMAIN at = Members(t)
      /\ at[WaveName(t)] = p.at[WaveName(t)]
      /\ \A name \in NewNames(t) \ {WaveName(t)} : ~Beyond(t, name, prefix) =>
            at[name] = UNION {p.at[s] : s \in Sources(t, v, name)}
      /\ v = 0 => at["readout_time"] = Zero
      /\ \A name \in NewNames(t) \ {WaveName(t)} :
            ~Beyond(t, name, prefix) /\ Same(t, v, name) => at[name] = p.at[name]
  BY <1>2, ReadWavesAt
<1> HIDE DEF at
<1>4. /\ NewNames(t) = IF t = "single_waveform"
                       THEN EventHeadNames \cup {"prio", WaveName(t)}
                       ELSE EventHeadNames \cup {WaveName(t)}
      /\ OldNames(t, v) = IF v = 0 THEN EventNames \cup {"trigger_meta", WaveName(t)}
                          ELSE IF t = "single_waveform" /\ v = 2
                          THEN EventHeadNames \cup {"prio", WaveName(t)}
                          ELSE EventHeadNames \cup {WaveName(t)}
  BY <1>2, WaveNamesOf
<1>5. /\ \A name \in CoreNames : ~Beyond(t, name, prefix)
      /\ v >= 1 => ~Beyond(t, "readout_time", prefix)
      /\ v = 2 => ~Beyond(t, "prio", prefix)
  BY <1>2, PrefixHolds
<1>6. CASE v = CurrentVersion(t)
  <2>1. Carried(p, p.at)
    BY <1>6, CurrentCarried
  <2>2. ASSUME NEW name \in NewNames(t) PROVE at[name] = p.at[name]
    <3>1. CASE name = WaveName(t)
      BY <1>3, <3>1
    <3>2. CASE name # WaveName(t)
      <4>1. name \in EventHeadNames \/ (name = "prio" /\ v = 2)
        BY <1>1, <1>2, <1>4, <1>6, <3>2
      <4>2. ~Beyond(t, name, prefix)
        BY <1>1, <1>2, <1>5, <1>6, <4>1 DEF EventHeadNames
      <4>3. Same(t, v, name)
        BY <1>1, <1>6, CurrentSame
      <4> QED
        BY <1>3, <3>2, <4>2, <4>3
    <3> QED
      BY <3>1, <3>2
  <2>3. Carried(p, at)
    BY <1>1, <2>1, <2>2, CarriedOver
  <2> QED
    BY <1>1, <1>3, <1>6, <2>2, <2>3 DEF WellRead, at
<1>7. CASE v # CurrentVersion(t)
  <2>1. /\ p.flown = v
        /\ \A name \in OldNames(t, v) : p.at[name] = {<<p.id, name>>}
    BY <1>1, <1>7, FlownType DEF InArchive, IsConverted, WireMembers
  <2>2. ASSUME NEW name \in Kept(p) PROVE at[name] = {<<p.id, name>>}
    <3>1. name \in OldNames(t, v) /\ name \in NewNames(t)
      BY <1>1, <2>1 DEF Kept, WireMembers, Moved, SimpleTypes, WaveTypes
    <3>2. CASE name = WaveName(t)
      BY <1>3, <2>1, <3>1, <3>2
    <3>3. CASE name # WaveName(t)
      <4>0. "trigger_meta" \notin EventHeadNames
        BY DEF EventHeadNames, CoreNames, EventNames, DeadNames, TriggerNames
      <4>1. name \in EventNames \/ (v >= 1 /\ name \in EventHeadNames)
        BY <1>1, <1>2, <1>4, <1>7, <3>1, <3>3, <4>0
      <4>2. ~Beyond(t, name, prefix)
        BY <1>5, <4>1 DEF EventHeadNames, CoreNames
      <4>3. Same(t, v, name)
        BY <1>2, <4>1, WaveSame
      <4> QED
        BY <1>3, <2>1, <3>1, <3>3, <4>2, <4>3
    <3> QED
      BY <3>2, <3>3
  <2>3. p.flown = 0 => at["readout_time"] = Zero
    BY <1>3, <2>1
  <2>4. ASSUME NEW name \in Dumped(t), NEW from \in at[name]
        PROVE  from[1] = p.id \/ from \in Zero
    <3>1. name \in EventHeadNames \cup {WaveName(t)}
      BY <1>1, EventHeadStruct, DumpedOf DEF DumpedWaves, DumpedEvent, WaveName, IsStruct
    <3>2. CASE name = WaveName(t)
      <4>1. at[name] = {<<p.id, name>>}
        BY <1>3, <1>4, <2>1, <3>2
      <4> QED
        BY <2>4, <4>1
    <3>3. CASE name = "readout_time" /\ v = 0
      BY <1>3, <2>4, <3>3
    <3>4. CASE name # WaveName(t) /\ ~(name = "readout_time" /\ v = 0)
      <4>1. ~Beyond(t, name, prefix)
        BY <1>2, <1>5, <3>1, <3>4 DEF EventHeadNames
      <4>2. at[name] = UNION {p.at[s] : s \in Sources(t, v, name)}
        BY <1>3, <1>4, <3>1, <3>4, <4>1
      <4>3. \A s \in Sources(t, v, name) : p.at[s] = {<<p.id, s>>}
        BY <2>1 DEF Sources
      <4> QED
        BY <2>4, <4>2, <4>3
    <3> QED
      BY <3>2, <3>3, <3>4
  <2>5. p.type \notin {"daq_hsk", "daq_hsk_summary"}
    BY DEF WaveTypes
  <2>6. Carried(p, at)
    BY <2>2, <2>3, <2>4, <2>5 DEF Carried
  <2> QED
    BY <1>3, <1>7, <2>6 DEF WellRead, at
<1> QED
  BY <1>6, <1>7

(* Whatever memory it is read into.                                        *)
LEMMA ReadWell ==
    ASSUME NEW p, InArchive(p), NEW before
    PROVE  WellRead(p, ReadPacket(p, before))
<1>1. p.type \in Types
  BY FlownType DEF InArchive, IsConverted
<1>2. CASE p.type \in WaveTypes
  BY <1>2, ReadWavesWell DEF ReadPacket
<1>3. CASE p.type \in SimpleTypes
  BY <1>1, <1>3, TypesOf, ReadSimpleWell DEF ReadPacket
<1>4. CASE p.type \notin Versioned
  <2>1. p.type \notin WaveTypes
    BY <1>1, <1>4, TypesOf
  <2> QED
    BY <1>4, <2>1, ReadCountedWell DEF ReadPacket
<1> QED
  BY <1>1, <1>2, <1>3, <1>4, TypesOf

-----------------------------------------------------------------------------
(* The invariant holds.                                                    *)

(* Sequences of any elements.                                              *)
LEMMA Appended ==
    ASSUME NEW s, IsSequence(s), NEW e
    PROVE  /\ Len(s) \in Nat /\ DOMAIN s = 1 .. Len(s)
           /\ IsSequence(Append(s, e)) /\ Len(Append(s, e)) = Len(s) + 1
           /\ DOMAIN Append(s, e) = 1 .. Len(s) + 1
           /\ \A i \in DOMAIN s : Append(s, e)[i] = s[i]
           /\ Append(s, e)[Len(s) + 1] = e
<1> DEFINE S == {s[i] : i \in DOMAIN s}
           r == Append(s, e)
<1>1. s \in Seq(S)
  BY DEF IsSequence
<1> HIDE DEF S
<1>2. /\ Len(s) \in Nat /\ DOMAIN s = 1 .. Len(s)
      /\ s \in Seq(S \cup {e})
      /\ r \in Seq(S \cup {e}) /\ Len(r) = Len(s) + 1 /\ DOMAIN r = 1 .. Len(s) + 1
      /\ \A i \in DOMAIN s : r[i] = s[i]
      /\ r[Len(s) + 1] = e
  BY <1>1
<1> HIDE DEF r
<1>3. r = [i \in 1 .. Len(r) |-> r[i]]
  BY <1>2
<1>4. r \in Seq({r[i] : i \in DOMAIN r})
  BY <1>2, <1>3
<1> QED
  BY <1>2, <1>4 DEF IsSequence, r

LEMMA NoneIsSequence == IsSequence(<<>>) /\ Len(<<>>) = 0 /\ DOMAIN <<>> = {}
BY DEF IsSequence

LEMMA SequenceType ==
    ASSUME NEW s, IsSequence(s)
    PROVE  Len(s) \in Nat /\ DOMAIN s = 1 .. Len(s)
BY DEF IsSequence

(* The first archive is as it was flown.                                   *)
LEMMA OInvInit == Init => OInv
<1> SUFFICES ASSUME Init PROVE OInv
  OBVIOUS
<1>1. /\ IsSequence(file) /\ \A i \in DOMAIN file : InArchive(file[i])
  <2>1. /\ file \in Archives
        /\ \A i \in DOMAIN file : IsFlown(file[i])
        /\ IsSequence(file)
    BY ArchiveAssumption DEF Init, IsSequence
  <2> QED
    BY <2>1, FlownType DEF InArchive
<1>2. copy = <<>> /\ rows = <<>> /\ pc = "read" /\ runs = 0
  BY DEF Init
<1>3. Progress
  BY <1>1, <1>2, NoneIsSequence, SequenceType, OldDataAssumption
     DEF Progress, InMemory
<1>4. CopyOK /\ RowsOK
  BY <1>2, NoneIsSequence DEF CopyOK, RowsOK
<1> QED
  BY <1>1, <1>2, <1>3, <1>4, NoneIsSequence DEF OInv, InMemory

(* The packet the program is at, while it is in memory.                    *)
LEMMA AtPacket ==
    ASSUME OInv
    PROVE  /\ Len(file) \in Nat /\ DOMAIN file = 1 .. Len(file)
           /\ Len(copy) \in Nat /\ DOMAIN copy = 1 .. Len(copy)
           /\ Len(rows) \in Nat /\ DOMAIN rows = 1 .. Len(rows)
           /\ Pos = Len(copy) + 1 /\ Len(copy) <= Len(file)
           /\ Pos <= Len(file) => Pos \in DOMAIN file /\ InArchive(Reading)
           /\ InMemory => Pos <= Len(file)
<1>1. /\ Len(file) \in Nat /\ DOMAIN file = 1 .. Len(file)
      /\ Len(copy) \in Nat /\ DOMAIN copy = 1 .. Len(copy)
      /\ Len(rows) \in Nat /\ DOMAIN rows = 1 .. Len(rows)
  BY SequenceType DEF OInv
<1>2. Len(copy) <= Len(file) /\ (InMemory => Pos <= Len(file))
  BY DEF OInv, Progress
<1>3. Pos <= Len(file) => Pos \in DOMAIN file /\ InArchive(Reading)
  BY <1>1 DEF Pos, Reading, OInv
<1> QED
  BY <1>1, <1>2, <1>3 DEF Pos

(* Reading puts a packet in memory that is as ReadWell says.               *)
LEMMA ReadKeeps == OInv /\ Read => OInv'
<1> SUFFICES ASSUME OInv, Read PROVE OInv'
  OBVIOUS
<1>1. /\ pc = "read" /\ Pos <= Len(file) /\ pc' = "dump"
      /\ file' = file /\ copy' = copy /\ rows' = rows /\ runs' = runs
      /\ Pos' = Pos /\ Reading' = Reading
  BY DEF Read, Pos, Reading
<1>2. PICK before : mem' = [type |-> Reading.type, at |-> ReadPacket(Reading, before)]
  BY DEF Read
<1>3. mem'.type = Reading.type /\ WellRead(Reading, mem'.at)
  BY <1>1, <1>2, AtPacket, ReadWell
<1>4. Progress'
  BY <1>1, AtPacket DEF OInv, Progress, InMemory
<1>5. CopyOK' /\ RowsOK'
  BY <1>1 DEF OInv, CopyOK, RowsOK
<1> QED
  BY <1>1, <1>3, <1>4, <1>5 DEF OInv

(* There is a table of sensors for two magic numbers, and for no other.    *)
LEMMA Looked ==
    ASSUME NEW p, NEW sensor, sensor = CompatLookup(p.sensor, p.magic)
    PROVE  SensorFlown(p, sensor)
<1>1. CurrentHousekeeping \o CurrentRadio # <<>> /\ OldHousekeeping \o OldRadio # <<>>
  BY DEF CurrentHousekeeping, CurrentRadio, OldHousekeeping, OldRadio
<1>2. SensorTable(p.magic) = <<>> <=> p.magic \notin {CurrentMagic, OldMagic}
  BY <1>1 DEF SensorTable, CurrentMagic, OldMagic
<1>3. CASE p.magic \in {CurrentMagic, OldMagic}
  BY <1>2, <1>3 DEF SensorFlown, CompatLookup
<1>4. CASE p.magic \notin {CurrentMagic, OldMagic}
  BY <1>2, <1>4 DEF SensorFlown, CompatLookup
<1> QED
  BY <1>3, <1>4

(* The head and the items of a sensor packet reach memory as they were     *)
(* flown, so its readings are named by their own generation.               *)
LEMMA NamedAsFlown ==
    ASSUME NEW p, InArchive(p), Carried(p, mem.at)
    PROVE  SensorFlown(p, Named(p))
<1>1. CASE p.type \in Sensors
  <2>1. p.type \in Types /\ p.type \in Counted /\ p.type \notin Versioned
    BY <1>1, FlownType, TypesOf DEF InArchive, IsConverted, Counted, Types
  <2>2. {"head", "items"} \subseteq Kept(p)
    <3>1. Members(p.type) = {"head", "items", "rest"}
      BY <2>1, MembersOf
    <3>2. {"head", "items"} \subseteq WireMembers(p.type, p.flown)
      BY <2>1, <3>1 DEF WireMembers
    <3>3. p.type # "slow"
      BY <1>1 DEF Sensors
    <3> QED
      BY <3>1, <3>2, <3>3 DEF Kept, Moved
  <2>3. SensorIn(p) = p.sensor /\ MagicIn(p) = p.magic
    BY <2>2 DEF Carried, SensorIn, MagicIn
  <2>4. Named(p) = CompatLookup(p.sensor, p.magic)
    BY <1>1, <2>3 DEF Named
  <2> QED
    BY <2>4, Looked
<1>2. CASE p.type \notin Sensors
  BY <1>2 DEF SensorFlown
<1> QED
  BY <1>1, <1>2

(* What is printed is what memory holds.                                   *)
LEMMA DumpKeeps == OInv /\ Dump => OInv'
<1> SUFFICES ASSUME OInv, Dump PROVE OInv'
  OBVIOUS
<1>1. /\ pc = "dump" /\ pc' = "insert" /\ mem' = mem
      /\ file' = file /\ copy' = copy /\ rows' = rows /\ runs' = runs
      /\ Pos' = Pos /\ Reading' = Reading
  BY DEF Dump, Pos, Reading
<1>2. SensorFlown(Reading, printed'.sensor) /\ printed'.at = Shown(Reading)'
  <2>1. InArchive(Reading) /\ Carried(Reading, mem.at)
    BY <1>1, AtPacket DEF OInv, InMemory, WellRead
  <2>2. printed'.sensor = Named(Reading) /\ printed'.at = Shown(Reading)
    BY DEF Dump
  <2>3. Shown(Reading)' = Shown(Reading)
    BY <1>1 DEF Shown, PastSamples
  <2> QED
    BY <2>1, <2>2, <2>3, NamedAsFlown
<1>3. Progress'
  BY <1>1 DEF OInv, Progress, InMemory
<1>4. CopyOK' /\ RowsOK'
  BY <1>1 DEF OInv, CopyOK, RowsOK
<1>5. mem.type = Reading.type /\ WellRead(Reading, mem.at)
  BY <1>1 DEF OInv, InMemory
<1> QED
  BY <1>1, <1>2, <1>3, <1>4, <1>5 DEF OInv

(* A row is of the packet the program is at.                               *)
LEMMA InsertKeeps == OInv /\ Insert => OInv'
<1> SUFFICES ASSUME OInv, Insert PROVE OInv'
  OBVIOUS
<1>1. /\ pc = "insert" /\ pc' = "write" /\ mem' = mem /\ printed' = printed
      /\ file' = file /\ copy' = copy /\ runs' = runs
      /\ Pos' = Pos /\ Reading' = Reading
  BY DEF Insert, Pos, Reading
<1>2. /\ mem.type = Reading.type /\ WellRead(Reading, mem.at)
      /\ SensorFlown(Reading, printed.sensor) /\ printed.at = Shown(Reading)
      /\ Shown(Reading)' = Shown(Reading)
  BY <1>1 DEF OInv, InMemory, Shown, PastSamples
<1>3. Pos \in DOMAIN file /\ Pos <= Len(file) /\ Len(rows) <= Len(copy)
  BY <1>1, AtPacket DEF OInv, Progress, InMemory
<1>4. CASE rows' = rows
  <2>1. Progress'
    BY <1>1, <1>3, <1>4, AtPacket DEF OInv, Progress, InMemory
  <2>2. CopyOK' /\ RowsOK'
    BY <1>1, <1>4 DEF OInv, CopyOK, RowsOK
  <2> QED
    BY <1>1, <1>2, <1>4, <2>1, <2>2 DEF OInv
<1>5. CASE rows' # rows
  <2> DEFINE row == [packet |-> Pos, sensor |-> Named(Reading),
                     at |-> Values(RowMembers(Reading.type))]
  <2>1. rows' = Append(rows, row)
    BY <1>5 DEF Insert
  <2>2. row.packet = Pos /\ SensorFlown(file[Pos], row.sensor)
    <3>1. InArchive(Reading) /\ Carried(Reading, mem.at)
      BY <1>1, <1>3, AtPacket DEF OInv, InMemory, WellRead
    <3> QED
      BY <3>1, NamedAsFlown DEF Reading
  <2> HIDE DEF row
  <2>3. /\ IsSequence(rows') /\ Len(rows') = Len(rows) + 1
        /\ DOMAIN rows' = 1 .. Len(rows) + 1
        /\ \A i \in DOMAIN rows : rows'[i] = rows[i]
        /\ rows'[Len(rows) + 1] = row
    BY <2>1, Appended DEF OInv
  <2>4. Progress'
    BY <1>1, <1>3, <2>3, AtPacket DEF OInv, Progress, InMemory
  <2>5. CopyOK'
    BY <1>1 DEF OInv, CopyOK
  <2>6. RowsOK'
    <3> SUFFICES ASSUME NEW i \in DOMAIN rows'
                 PROVE  /\ rows'[i].packet \in DOMAIN file
                        /\ SensorFlown(file[rows'[i].packet], rows'[i].sensor)
      BY <1>1 DEF RowsOK
    <3>1. CASE i \in DOMAIN rows
      BY <2>3, <3>1 DEF OInv, RowsOK
    <3>2. CASE i \notin DOMAIN rows
      <4>1. i = Len(rows) + 1
        BY <2>3, <3>2, AtPacket
      <4> QED
        BY <1>3, <2>2, <2>3, <4>1
    <3> QED
      BY <3>1, <3>2
  <2> QED
    BY <1>1, <1>2, <2>3, <2>4, <2>5, <2>6 DEF OInv
<1> QED
  BY <1>4, <1>5

(* What is written for a packet in memory.                                 *)
LEMMA WrittenConverted ==
    ASSUME NEW p, InArchive(p), NEW from, WellRead(p, from)
    PROVE  LET now == CurrentVersion(p.type)
               at == [name \in WireMembers(p.type, now) |-> from[name]]
               q == [p EXCEPT !.version = now, !.at = at]
           IN  /\ InArchive(q) /\ q.version = CurrentVersion(q.type)
               /\ p.version = now => q.at = p.at
<1> DEFINE now == CurrentVersion(p.type)
           wire == WireMembers(p.type, now)
           at == [name \in wire |-> from[name]]
           q == [p EXCEPT !.version = now, !.at = at]
<1>1. /\ DOMAIN p = Fields /\ p.type \in Types
      /\ now \in Nat /\ p.flown \in 0 .. now
  BY FlownType, TypesOf DEF InArchive, IsConverted
<1>2. /\ DOMAIN at = wire /\ \A name \in wire : at[name] = from[name]
      /\ at = [name \in wire |-> at[name]]
  OBVIOUS
<1> HIDE DEF at
<1>3. /\ DOMAIN q = Fields /\ q.id = p.id /\ q.type = p.type /\ q.flown = p.flown
      /\ q.version = now /\ q.at = at
  BY <1>1 DEF Fields
<1>4. Carried(p, at)
  BY <1>1, <1>2, CarriedOver DEF WellRead
<1> HIDE DEF q
<1>5. Carried(q, at)
  BY <1>3, <1>4 DEF Carried, Kept, Moved, Added, Inside
<1>6. InArchive(q)
  BY <1>1, <1>2, <1>3, <1>5 DEF InArchive, IsConverted
<1>7. ASSUME p.version = now PROVE at = p.at
  <2>1. p.at = [name \in wire |-> p.at[name]]
    BY <1>7, CurrentCarried
  <2>2. \A name \in wire : from[name] = p.at[name]
    BY <1>7 DEF WellRead
  <2> QED
    BY <1>2, <2>1, <2>2
<1> QED
  BY <1>3, <1>6, <1>7 DEF q, at

(* What is written is a converted packet.                                  *)
LEMMA WriteKeeps == OInv /\ Write => OInv'
<1> SUFFICES ASSUME OInv, Write PROVE OInv'
  OBVIOUS
<1>1. /\ pc = "write" /\ pc' = "read" /\ file' = file /\ runs' = runs /\ rows' = rows
  BY DEF Write
<1>2. /\ Pos \in DOMAIN file /\ Pos <= Len(file) /\ Len(rows) <= Pos
      /\ InArchive(Reading) /\ WellRead(Reading, mem.at)
  BY <1>1, AtPacket DEF OInv, Progress, InMemory
<1> DEFINE now == CurrentVersion(Reading.type)
           q == [Reading EXCEPT !.version = now,
                                !.at = Values(WireMembers(Reading.type, now))]
<1>3. copy' = Append(copy, q)
  BY DEF Write
<1>4. /\ InArchive(q) /\ q.version = CurrentVersion(q.type)
      /\ Reading.version = CurrentVersion(Reading.type) => q.at = Reading.at
  BY <1>2, WrittenConverted DEF Values
<1> HIDE DEF q
<1>5. /\ IsSequence(copy') /\ Len(copy') = Len(copy) + 1
      /\ DOMAIN copy' = 1 .. Len(copy) + 1
      /\ \A i \in DOMAIN copy : copy'[i] = copy[i]
      /\ copy'[Len(copy) + 1] = q
  BY <1>3, Appended DEF OInv
<1>6. Progress'
  BY <1>1, <1>2, <1>5, AtPacket DEF OInv, Progress, InMemory
<1>7. CopyOK'
  <2> SUFFICES ASSUME NEW i \in DOMAIN copy'
               PROVE  /\ InArchive(copy'[i])
                      /\ copy'[i].version = CurrentVersion(copy'[i].type)
                      /\ file[i].version = CurrentVersion(file[i].type) =>
                            copy'[i].at = file[i].at
    BY <1>1 DEF CopyOK
  <2>1. CASE i \in DOMAIN copy
    BY <1>5, <2>1 DEF OInv, CopyOK
  <2>2. CASE i \notin DOMAIN copy
    <3>1. i = Len(copy) + 1 /\ file[i] = Reading
      BY <1>5, <2>2, AtPacket DEF Reading
    <3> QED
      BY <1>4, <1>5, <3>1
  <2> QED
    BY <2>1, <2>2
<1>8. RowsOK'
  BY <1>1 DEF OInv, RowsOK
<1> QED
  BY <1>1, <1>5, <1>6, <1>7, <1>8 DEF OInv, InMemory

(* The end of an archive.                                                  *)
LEMMA EndOfFileKeeps == OInv /\ EndOfFile => OInv'
<1> SUFFICES ASSUME OInv, EndOfFile PROVE OInv'
  OBVIOUS
<1>1. /\ pc = "read" /\ Pos > Len(file) /\ pc' = "done" /\ runs' = runs + 1
      /\ file' = file /\ copy' = copy /\ rows' = rows
  BY DEF EndOfFile
<1>2. Progress'
  BY <1>1, AtPacket, OldDataAssumption DEF OInv, Progress, InMemory
<1>3. CopyOK' /\ RowsOK'
  BY <1>1 DEF OInv, CopyOK, RowsOK
<1> QED
  BY <1>1, <1>2, <1>3 DEF OInv, InMemory

(* The copy becomes the archive: all that is in it was converted.          *)
LEMMA RunAgainKeeps == OInv /\ RunAgain => OInv'
<1> SUFFICES ASSUME OInv, RunAgain PROVE OInv'
  OBVIOUS
<1>1. /\ pc = "done" /\ runs < MaxRuns /\ pc' = "read" /\ runs' = runs
      /\ file' = copy /\ copy' = <<>> /\ rows' = <<>>
  BY DEF RunAgain
<1>2. Progress'
  BY <1>1, AtPacket, NoneIsSequence DEF OInv, Progress, InMemory
<1>3. CopyOK' /\ RowsOK'
  BY <1>1, NoneIsSequence DEF CopyOK, RowsOK
<1>4. IsSequence(copy) /\ \A i \in DOMAIN copy : InArchive(copy[i])
  BY DEF OInv, CopyOK
<1> QED
  BY <1>1, <1>2, <1>3, <1>4, NoneIsSequence DEF OInv, InMemory

LEMMA StutterKeeps == OInv /\ UNCHANGED vars => OInv'
BY DEF vars, OInv, Progress, CopyOK, RowsOK, InMemory, Pos, Reading,
       Shown, PastSamples

(* Every step keeps the invariant.                                         *)
LEMMA OInvStep == OInv /\ [Next]_vars => OInv'
BY ReadKeeps, DumpKeeps, InsertKeeps, WriteKeeps, EndOfFileKeeps, RunAgainKeeps,
   StutterKeeps DEF Next

(* Whatever archive goes through read-packets, and however often: every    *)
(* packet in it is as it was flown or as the library wrote it, and so is   *)
(* what memory, the dump, the rows and the new archive have of it.         *)
THEOREM OInvHolds == Spec => []OInv
BY OInvInit, OInvStep, PTL DEF Spec

-----------------------------------------------------------------------------
(* The properties.                                                         *)

(* The packet in memory.                                                   *)
LEMMA OInvInMemory ==
    ASSUME OInv, InMemory
    PROVE  WellRead(Reading, mem.at) /\ Carried(Reading, mem.at)
BY DEF OInv, WellRead

(* Type correctness: the program is at a packet of the archive, memory has *)
(* the members of that packet's struct, and what pueo_ll_write has written *)
(* those of the current version.                                           *)
THEOREM OldTypeCorrect == Spec => []OldTypeOK
<1>1. ASSUME OInv PROVE OldTypeOK
  <2>1. Len(copy) <= Len(file) /\ Len(rows) <= Len(file)
    BY <1>1, AtPacket DEF OInv, Progress, InMemory
  <2>2. ASSUME NEW i \in DOMAIN copy
        PROVE  DOMAIN copy[i].at =
                   WireMembers(copy[i].type, CurrentVersion(copy[i].type))
    BY <1>1, <2>2, CurrentCarried DEF OInv, CopyOK
  <2>3. InMemory => DOMAIN mem.at = Members(Reading.type)
    BY <1>1, OInvInMemory DEF WellRead
  <2> QED
    BY <1>1, <2>1, <2>2, <2>3 DEF OInv, Progress, OldTypeOK
<1> QED
  BY <1>1, OInvHolds, PTL

(* The members of the version a packet was flown as reach the memory of    *)
(* every program that reads it (pueo_read_packet_X), directly or from an   *)
(* archive that was converted any number of times, but for the two of slow *)
(* that the library misplaces.                                             *)
THEOREM OldFieldsAreKept == Spec => []OldFieldsKept
<1>1. ASSUME OInv PROVE OldFieldsKept
  BY <1>1, OInvInMemory DEF OldFieldsKept, Carried, Kept, Moved
<1> QED
  BY <1>1, OInvHolds, PTL

(* What the memset of SIMPLE_PUEO_I_IMPL promises: members the version did *)
(* not have are zero, if they begin behind the old struct, and remain so.  *)
THEOREM NewFieldsAreZero == Spec => []NewFieldsZero
<1>1. ASSUME OInv PROVE NewFieldsZero
  BY <1>1, OInvInMemory DEF NewFieldsZero, Carried, Added, Inside
<1> QED
  BY <1>1, OInvHolds, PTL

(* pueo_dump_packet prints nothing that memory held before the packet, but *)
(* behind the samples of a waveform that claims more of them than it has.  *)
THEOREM DumpIsHonest == Spec => []DumpHonest
<1>1. ASSUME OInv PROVE DumpHonest
  <2> SUFFICES ASSUME pc \in {"insert", "write"}, NEW name \in DOMAIN printed.at,
                      NEW from \in printed.at[name]
               PROVE  \/ from[1] = Reading.id \/ from \in Zero
                      \/ Reading.long /\ name \in {"wf", "wfs"}
    BY DEF DumpHonest
  <2>1. Carried(Reading, mem.at)
    BY <1>1, OInvInMemory DEF InMemory
  <2>2. name \in Dumped(Reading.type)
    BY <1>1 DEF OInv, Shown
  <2>3. from \in mem.at[name] \/ (Reading.long /\ name \in {"wf", "wfs"})
    BY <1>1, <2>2 DEF OInv, Shown
  <2> QED
    BY <2>1, <2>2, <2>3 DEF Carried
<1> QED
  BY <1>1, OInvHolds, PTL

(* The dump and every row name the sensor that the reading's own           *)
(* generation has under its id, whatever table is the current one and      *)
(* however often the packet was converted.                                 *)
THEOREM SensorsAreAsFlown == Spec => []SensorsAsFlown
<1>1. ASSUME OInv PROVE SensorsAsFlown
  BY <1>1 DEF OInv, RowsOK, SensorsAsFlown
<1> QED
  BY <1>1, OInvHolds, PTL

(* Reading and writing a packet of the current version is the identity.    *)
THEOREM ConversionIsSettled == Spec => []ConversionSettles
<1>1. ASSUME OInv PROVE ConversionSettles
  BY <1>1 DEF OInv, CopyOK, ConversionSettles
<1> QED
  BY <1>1, OInvHolds, PTL
=============================================================================
