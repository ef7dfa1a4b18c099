---------------------------- MODULE DevicesProofs ----------------------------
(***************************************************************************)
(* The other modules that keep to themselves, those that hold something    *)
(* for later, and what all of them promise, for every value of the         *)
(* constants that MCDevices assumes: a behaviour follows one of them, and  *)
(* keeps its invariant.                                                    *)
(***************************************************************************)
EXTENDS PartsProofs

-----------------------------------------------------------------------------
(* The tag reader.  Unless a character was lost, the buffer and the line    *)
(* hold the line of one tag, or no dash at all; a line ends with an end.   *)
(* The state the LED was given last is the last that will be sent.         *)
Letter == STRING \ {"-", "cr", "lf", "?"}
Chars == Letter \cup {"-", "cr", "lf", "?", ">", "M", "O"}

\* The characters of the lines and of the tags.
LEMMA CharSeqs ==
  /\ {"-", "cr", "lf", "?", ">", "M", "O"} \subseteq Chars /\ Letter \subseteq Chars
  /\ \A a, b \in Chars : <<a>> \in Seq(Chars) /\ <<a, b>> \in Seq(Chars)
  /\ <<>> \in Seq(Chars)
  /\ \A t \in RfidTags : t \in Seq(Chars)
  <1>1. {"-", "cr", "lf", "?", ">", "M", "O"} \subseteq Chars /\ Letter \subseteq Chars
    BY DEF Chars
  <1>2. ASSUME NEW a \in Chars, NEW b \in Chars PROVE <<a>> \in Seq(Chars) /\ <<a, b>> \in Seq(Chars)
    OBVIOUS
  <1>3. ASSUME NEW t \in RfidTags PROVE t \in Seq(Chars)
    <2>1. t \in Seq(Letter)
      BY RfidAssumption DEF Letter
    <2> QED BY <1>1, <2>1, SeqMonotonic
  <1> QED BY <1>1, <1>2, <1>3


RfidSet ==
  /\ v7 \in [freq : {0, 1}, led : {0, 1}] /\ v9 \in [freq : {0, 1}, led : {0, 1}]
  /\ v8 \in Seq({0, 1})
  /\ v10 => /\ v9.freq = v7.freq
            /\ v8 = <<>> => v9.led = v7.led
            /\ v8 # <<>> => v8[Len(v8)] = v7.led

\* The n-th character of a tag's line.
CharOf(t, n) ==
  IF n = 1 THEN "-" ELSE IF n <= Len(t) + 1 THEN t[n - 1]
  ELSE IF n = Len(t) + 2 THEN "cr" ELSE "lf"

TagLine(t) ==
  /\ Len(v2) + Len(v5) = Len(t) + 3
  /\ Len(v2) <= Len(t) + 1 /\ Len(v2) <= RfidBuffer - 2
  /\ \A i \in 1..Len(v2) : v2[i] = CharOf(t, i)
  /\ \A i \in 1..Len(v5) : v5[i] = CharOf(t, Len(v2) + i)

PlainLine ==
  /\ \A i \in 1..Len(v2) : v2[i] # "-"
  /\ \A i \in 1..Len(v5) : v5[i] # "-"
  /\ v5 = <<>> => v2 = <<>>
  /\ v5 # <<>> => v5[Len(v5)] \in Rfid!End

RfidLine ==
  /\ v2 \in Seq(Chars) /\ v5 \in Seq(Chars) /\ v6 \in BOOLEAN
  /\ ~ v6 => PlainLine \/ \E t \in RfidTags : TagLine(t)

RfidInv == RfidSet /\ RfidLine /\ Rfid!TagWhole

LEMMA RfidStarts == ASSUME Rfid!Init PROVE RfidInv
  <1>1. /\ v2 = <<>> /\ v5 = <<>> /\ v6 = FALSE /\ v8 = <<>> /\ v10 = FALSE /\ v11 = <<>>
        /\ v7 = [freq |-> 0, led |-> 1] /\ v9 = [freq |-> 0, led |-> 0]
    BY DEF Rfid!Init
  <1>2. RfidSet
    BY <1>1 DEF RfidSet
  <1>3. PlainLine
    <2>1. Len(v2) = 0 /\ Len(v5) = 0
      BY <1>1
    <2> QED BY <1>1, <2>1 DEF PlainLine
  <1>4. <<>> \in Seq(Chars)
    OBVIOUS
  <1>5. Rfid!TagWhole
    <2>1. <<>> # <<"?">>
      OBVIOUS
    <2> QED BY <1>1, <2>1 DEF Rfid!TagWhole
  <1> QED BY <1>1, <1>2, <1>3, <1>4, <1>5 DEF RfidInv, RfidLine

\* The timers set the LED in the order in which they were set (rfid_handler,
\* rfid_set_led).
LEMMA RfidSets ==
  ASSUME RfidSet,
         \/ UNCHANGED <<v7, v8, v9, v10>>
         \/ Rfid!rfid_set_led
         \/ \E freq, led \in Rfid!Values \cup {10} : Rfid!rfid_handler(freq, led)
  PROVE  RfidSet'
  <1>1. CASE UNCHANGED <<v7, v8, v9, v10>>
    BY <1>1 DEF RfidSet
  <1>2. CASE Rfid!rfid_set_led
    <2>1. v8 # <<>> /\ v8' = Tail(v8) /\ v9' = [v9 EXCEPT !.led = Head(v8)] /\ UNCHANGED <<v7, v10>>
      BY <1>2 DEF Rfid!rfid_set_led
    <2>2. v8 \in Seq({0, 1}) /\ v7 \in [freq : {0, 1}, led : {0, 1}] /\ v9 \in [freq : {0, 1}, led : {0, 1}]
      BY DEF RfidSet
    <2>3. /\ Head(v8) \in {0, 1} /\ v8' \in Seq({0, 1}) /\ Len(v8') = Len(v8) - 1
          /\ Len(v8) \in Nat /\ Len(v8) >= 1 /\ Head(v8) = v8[1]
          /\ \A i \in 1..Len(v8') : v8'[i] = v8[i + 1]
      BY <2>1, <2>2
    <2>4. v9' \in [freq : {0, 1}, led : {0, 1}] /\ v9'.freq = v9.freq /\ v9'.led = Head(v8)
      BY <2>1, <2>2, <2>3
    <2>5. v10' => v9'.freq = v7'.freq
      BY <2>1, <2>4 DEF RfidSet
    <2>6. v10' /\ v8' = <<>> => v9'.led = v7'.led
      <3>1. v8' = <<>> => Len(v8) = 1
        BY <2>3
      <3> QED BY <2>1, <2>3, <2>4, <3>1 DEF RfidSet
    <2>7. v10' /\ v8' # <<>> => v8'[Len(v8')] = v7'.led
      <3>1. v8' # <<>> => Len(v8') \in 1..Len(v8') /\ Len(v8') + 1 = Len(v8)
        BY <2>3
      <3> QED BY <2>1, <2>3, <3>1 DEF RfidSet
    <2> QED BY <2>1, <2>2, <2>3, <2>4, <2>5, <2>6, <2>7 DEF RfidSet
  <1>3. ASSUME NEW freq \in Rfid!Values \cup {10}, NEW led \in Rfid!Values \cup {10},
               Rfid!rfid_handler(freq, led)
        PROVE  RfidSet'
    <2>1. /\ v7' = [freq |-> IF freq \in {0, 1} THEN freq ELSE v7.freq,
                    led  |-> IF led \in {0, 1} THEN led ELSE v7.led]
          /\ v9' = [v9 EXCEPT !.freq = v7'.freq]
          /\ v8' = Append(v8, v7'.led)
      BY <1>3 DEF Rfid!rfid_handler, Rfid!Values
    <2>2. v8 \in Seq({0, 1}) /\ v7 \in [freq : {0, 1}, led : {0, 1}] /\ v9 \in [freq : {0, 1}, led : {0, 1}]
      BY DEF RfidSet
    <2>3. v7' \in [freq : {0, 1}, led : {0, 1}] /\ v7'.freq \in {0, 1} /\ v7'.led \in {0, 1}
      BY <2>1, <2>2
    <2>4. v9' \in [freq : {0, 1}, led : {0, 1}] /\ v9'.freq = v7'.freq
      BY <2>1, <2>2, <2>3
    <2>5. v8' \in Seq({0, 1}) /\ v8' # <<>> /\ v8'[Len(v8')] = v7'.led
      BY <2>1, <2>2, <2>3
    <2> QED BY <2>3, <2>4, <2>5 DEF RfidSet
  <1> QED BY <1>1, <1>2, <1>3

\* What stays of a line that ends, or is full, has no dash (rfid_char_in).
LEMMA PlainGoesOn ==
  ASSUME v2 \in Seq(Chars), v5 \in Seq(Chars), v5 # <<>>, PlainLine, v5' = Tail(v5),
         Rfid!Put(Head(v5))
  PROVE  /\ PlainLine' /\ v11' = v11 /\ v2' \in Seq(Chars) /\ v5' \in Seq(Chars)
  <1>1. PICK c : c = Head(v5)
    OBVIOUS
  <1>2. /\ c \in Chars /\ c = v5[1] /\ Len(v5) \in Nat /\ Len(v5) >= 1 /\ v5' \in Seq(Chars)
        /\ Len(v5') = Len(v5) - 1 /\ \A i \in 1..Len(v5') : v5'[i] = v5[i + 1]
    BY <1>1
  <1>3. c # "-" /\ (Len(v5) = 1 => c \in Rfid!End) /\ v5[Len(v5)] \in Rfid!End
    BY <1>2 DEF PlainLine
  <1>4. /\ \A i \in 1..Len(v5') : v5'[i] # "-"
        /\ v5' # <<>> => v5'[Len(v5')] \in Rfid!End
        /\ v5' = <<>> => c \in Rfid!End
    <2>1. \A i \in 1..Len(v5') : i + 1 \in 1..Len(v5)
      BY <1>2
    <2>2. v5' # <<>> => Len(v5') \in 1..Len(v5') /\ Len(v5') + 1 = Len(v5)
      BY <1>2
    <2>3. v5' = <<>> => Len(v5) = 1
      <3>1. v5' = <<>> => Len(v5') = 0
        OBVIOUS
      <3>2. Len(v5') = Len(v5) - 1 /\ Len(v5) \in Nat
        BY <1>2
      <3> QED BY ONLY <3>1, <3>2
    <2> QED BY <1>2, <1>3, <2>1, <2>2, <2>3 DEF PlainLine
  <1>5. PICK text : text = (IF c \in Rfid!End THEN v2 ELSE Append(v2, c))
    OBVIOUS
  <1>6. /\ text \in Seq(Chars)
        /\ \A i \in 1..Len(text) : text[i] # "-"
    <2>1. CASE c \in Rfid!End
      BY <1>5, <2>1 DEF PlainLine
    <2>2. CASE c \notin Rfid!End
      <3>1. /\ Append(v2, c) \in Seq(Chars) /\ Len(Append(v2, c)) = Len(v2) + 1 /\ Len(v2) \in Nat
            /\ \A i \in 1..Len(v2) : Append(v2, c)[i] = v2[i]
            /\ Append(v2, c)[Len(v2) + 1] = c
        BY <1>2
      <3>2. \A i \in 1..Len(Append(v2, c)) : i \in 1..Len(v2) \/ i = Len(v2) + 1
        BY <3>1
      <3> QED BY <1>3, <1>5, <2>2, <3>1, <3>2 DEF PlainLine
    <2> QED BY <2>1, <2>2
  <1>7. CASE c \in Rfid!End \/ Len(text) = RfidBuffer - 1
    <2>1. v2' = <<>> /\ Rfid!rfid_line(text)
      BY <1>1, <1>5, <1>7 DEF Rfid!Put
    <2>2. text = <<>> \/ text[1] # "-"
      <3>1. text # <<>> => 1 \in 1..Len(text)
        BY <1>6
      <3> QED BY <1>6, <3>1
    <2>3. v11' = v11
      BY <2>1, <2>2 DEF Rfid!rfid_line
    <2>4. \A i \in 1..Len(v2') : FALSE
      BY <2>1
    <2>5. v2' \in Seq(Chars)
      BY <2>1
    <2> QED BY <1>2, <1>4, <2>1, <2>3, <2>4, <2>5 DEF PlainLine
  <1>8. CASE ~ (c \in Rfid!End \/ Len(text) = RfidBuffer - 1)
    <2>1. v2' = text /\ v11' = v11
      BY <1>1, <1>5, <1>8 DEF Rfid!Put
    <2> QED BY <1>2, <1>4, <1>6, <1>8, <2>1 DEF PlainLine
  <1> QED BY <1>7, <1>8

\* A tag's line gives the tag, or as much of it as the buffer takes; what
\* stays of it then has no dash (rfid_char_in, rfid_line).
LEMMA TagGoesOn ==
  ASSUME v2 \in Seq(Chars), v5 \in Seq(Chars), v5 # <<>>, v5' = Tail(v5),
         Rfid!Put(Head(v5)), NEW t \in RfidTags, TagLine(t)
  PROVE  /\ PlainLine' \/ TagLine(t)'
         /\ v11' = v11 \/ v11' # <<"?">>
         /\ v2' \in Seq(Chars) /\ v5' \in Seq(Chars)
  <1>0. /\ t \in Seq(Letter) /\ RfidBuffer \in Nat /\ RfidBuffer >= 3
        /\ Len(t) \in Nat /\ \A i \in 1..Len(t) : t[i] \in Letter
    BY RfidAssumption DEF Letter
  <1>1. PICK c, k : c = Head(v5) /\ k = Len(v2)
    OBVIOUS
  <1>2. /\ c \in Chars /\ c = v5[1] /\ Len(v5) \in Nat /\ Len(v5) >= 1 /\ v5' \in Seq(Chars)
        /\ Len(v5') = Len(v5) - 1 /\ \A i \in 1..Len(v5') : v5'[i] = v5[i + 1]
    BY <1>1
  <1>3. /\ k \in Nat /\ k + Len(v5) = Len(t) + 3 /\ k <= Len(t) + 1 /\ k <= RfidBuffer - 2
        /\ \A i \in 1..k : v2[i] = CharOf(t, i)
    BY <1>1 DEF TagLine
  <1>4. c = CharOf(t, k + 1)
    BY <1>1, <1>2, <1>3 DEF TagLine
  <1>5. \A i \in 1..Len(v5') : v5'[i] = CharOf(t, k + 1 + i)
    <2>1. ASSUME NEW i \in 1..Len(v5') PROVE v5'[i] = CharOf(t, k + 1 + i)
      <3>1. i + 1 \in 1..Len(v5) /\ k + (i + 1) = k + 1 + i
        BY <1>2, <1>3
      <3>2. v5[i + 1] = CharOf(t, k + (i + 1))
        BY <1>1, <3>1 DEF TagLine
      <3> QED BY <1>2, <3>1, <3>2
    <2> QED BY <2>1
  <1>6. Len(v5') = Len(t) + 3 - (k + 1) /\ v5' # <<>>
    <2>1. Len(v5') = Len(v5) - 1 /\ Len(v5) \in Nat
      BY <1>2
    <2>2. Len(v5') = Len(t) + 3 - (k + 1) /\ Len(v5') >= 1
      BY ONLY <1>0, <1>3, <2>1
    <2>3. v5' = <<>> => Len(v5') = 0
      OBVIOUS
    <2> QED BY ONLY <2>2, <2>3
  <1>7. ASSUME v2' = <<>>, k >= 1 PROVE PlainLine'
    <2>1. ASSUME NEW n \in Nat, n > 1 PROVE CharOf(t, n) # "-"
      <3>1. n <= Len(t) + 1 => t[n - 1] # "-"
        BY <1>0, <2>1 DEF Letter
      <3> QED BY <2>1, <3>1 DEF CharOf
    <2>2. \A i \in 1..Len(v5') : v5'[i] # "-"
      <3>1. ASSUME NEW i \in 1..Len(v5') PROVE v5'[i] # "-"
        <4>1. k + 1 + i \in Nat /\ k + 1 + i > 1
          BY <1>3
        <4> QED BY <1>5, <2>1, <4>1
      <3> QED BY <3>1
    <2>3. v5'[Len(v5')] = "lf"
      <3>1. Len(v5') \in 1..Len(v5') /\ k + 1 + Len(v5') = Len(t) + 3
        BY <1>2, <1>3, <1>6
      <3>2. CharOf(t, Len(t) + 3) = "lf"
        BY <1>0 DEF CharOf
      <3> QED BY <1>5, <3>1, <3>2
    <2>4. \A i \in 1..Len(v2') : FALSE
      BY <1>7
    <2> QED BY <1>6, <1>7, <2>2, <2>3, <2>4 DEF PlainLine, Rfid!End
  <1>8. CASE k = Len(t) + 1
    <2>1. c = "cr"
      BY <1>0, <1>3, <1>4, <1>8 DEF CharOf
    <2>2. v2' = <<>> /\ Rfid!rfid_line(v2)
      BY <1>1, <2>1 DEF Rfid!Put, Rfid!End
    <2>3. v2[1] = "-" /\ v2 # <<>>
      <3>1. 1 \in 1..k /\ CharOf(t, 1) = "-"
        BY <1>0, <1>3, <1>8 DEF CharOf
      <3> QED BY <1>1, <1>3, <3>1
    <2>4. Tail(v2) = t
      <3>1. /\ Tail(v2) \in Seq(Chars) /\ Len(Tail(v2)) = Len(t)
            /\ \A i \in 1..Len(Tail(v2)) : Tail(v2)[i] = v2[i + 1]
        <4>1. /\ Tail(v2) \in Seq(Chars) /\ Len(Tail(v2)) = Len(v2) - 1
              /\ \A i \in 1..Len(Tail(v2)) : Tail(v2)[i] = v2[i + 1]
          BY <2>3, HeadTailProperties
        <4>2. Len(v2) = Len(t) + 1
          BY <1>1, <1>8
        <4>3. Len(v2) - 1 = Len(t)
          BY ONLY <1>0, <4>2
        <4> QED BY <4>1, <4>3
      <3>2. t \in Seq(Chars)
        BY CharSeqs
      <3>3. ASSUME NEW i \in 1..Len(Tail(v2)) PROVE Tail(v2)[i] = t[i]
        <4>1. i + 1 \in 1..k /\ i \in 1..Len(t)
          BY <1>3, <1>8, <3>1
        <4>2. CharOf(t, i + 1) = t[i]
          BY <1>0, <4>1 DEF CharOf
        <4> QED BY <1>3, <3>1, <4>1, <4>2
      <3> QED BY <3>1, <3>2, <3>3, SeqEqual
    <2>5. Rfid!Cut(t) = t
      <3>1. ~ (Len(t) > RfidBuffer - 2)
        BY <1>0, <1>3, <1>8
      <3>2. SubSeq(t, 1, Len(t)) = t
        BY <1>0, SubSeqFull
      <3> QED BY <3>1, <3>2 DEF Rfid!Cut
    <2>6. v11' = t
      BY <2>2, <2>3, <2>4, <2>5 DEF Rfid!rfid_line
    <2>7. t # <<"?">>
      <3>1. <<"?">>[1] = "?" /\ Len(<<"?">>) = 1
        OBVIOUS
      <3>2. t = <<"?">> => t[1] \in Letter
        BY <1>0, <3>1
      <3> QED BY <3>1, <3>2 DEF Letter
    <2>8. k >= 1 /\ v2' \in Seq(Chars)
      BY <1>0, <1>3, <1>8, <2>2
    <2> QED BY <1>2, <1>7, <2>2, <2>6, <2>7, <2>8
  <1>9. CASE k # Len(t) + 1
    <2>1. k + 1 <= Len(t) + 1
      BY <1>0, <1>3, <1>9
    <2>2. c \notin Rfid!End
      <3>1. k # 0 => t[k] \in Letter
        BY <1>0, <1>3, <2>1
      <3>2. CharOf(t, k + 1) = IF k = 0 THEN "-" ELSE t[k]
        BY <1>0, <1>3, <2>1 DEF CharOf
      <3> QED BY <1>4, <3>1, <3>2 DEF Letter, Rfid!End
    <2>3. PICK text : text = Append(v2, c)
      OBVIOUS
    <2>4. /\ text \in Seq(Chars) /\ Len(text) = k + 1
          /\ \A i \in 1..k : text[i] = v2[i]
          /\ text[k + 1] = c
      BY <1>1, <1>2, <1>3, <2>3
    <2>5. \A i \in 1..Len(text) : text[i] = CharOf(t, i)
      <3>1. \A i \in 1..Len(text) : i \in 1..k \/ i = k + 1
        BY <1>3, <2>4
      <3> QED BY <1>3, <1>4, <2>4, <3>1
    <2>6. CASE Len(text) = RfidBuffer - 1
      <3>1. v2' = <<>> /\ Rfid!rfid_line(text)
        BY <1>1, <2>2, <2>3, <2>6 DEF Rfid!Put
      <3>2. text # <<>> /\ text[1] = "-"
        <4>1. 1 \in 1..Len(text) /\ CharOf(t, 1) = "-"
          BY <1>0, <1>3, <2>4 DEF CharOf
        <4> QED BY <2>4, <2>5, <4>1
      <3>3. k = RfidBuffer - 2 /\ k \in 1..Len(t)
        BY <1>0, <1>3, <2>1, <2>4, <2>6
      <3>4. Rfid!Cut(t) = SubSeq(t, 1, k)
        <4>1. (IF Len(t) > RfidBuffer - 2 THEN RfidBuffer - 2 ELSE Len(t)) = k
          BY <1>0, <3>3
        <4> QED BY <4>1 DEF Rfid!Cut
      <3>5. /\ SubSeq(t, 1, k) \in Seq(Chars) /\ Len(SubSeq(t, 1, k)) = k
            /\ \A i \in 1..k : SubSeq(t, 1, k)[i] = t[i]
        <4>1. \A i \in 1..k : t[i] \in Chars
          BY <1>0, <3>3, CharSeqs
        <4>2. 1 \in Int /\ k \in Int
          BY <1>3
        <4>3. /\ SubSeq(t, 1, k) \in Seq(Chars)
              /\ Len(SubSeq(t, 1, k)) = IF 1 <= k THEN k - 1 + 1 ELSE 0
              /\ \A i \in 1..(k - 1 + 1) : SubSeq(t, 1, k)[i] = t[1 + i - 1]
          BY ONLY <4>1, <4>2, SubSeqProperties
        <4> QED BY <3>3, <4>3
      <3>6. Tail(text) = SubSeq(t, 1, k)
        <4>1. /\ Tail(text) \in Seq(Chars) /\ Len(Tail(text)) = k
              /\ \A i \in 1..Len(Tail(text)) : Tail(text)[i] = text[i + 1]
          BY <1>3, <2>4, <3>2
        <4>2. ASSUME NEW i \in 1..Len(Tail(text)) PROVE Tail(text)[i] = SubSeq(t, 1, k)[i]
          <5>1. i \in 1..k /\ i + 1 \in 1..Len(text)
            BY <1>3, <2>4, <4>1
          <5>2. CharOf(t, i + 1) = t[i]
            BY <1>0, <3>3, <5>1 DEF CharOf
          <5> QED BY <2>5, <3>5, <4>1, <5>1, <5>2
        <4> QED BY <3>5, <4>1, <4>2, SeqEqual
      <3>7. v11' = SubSeq(t, 1, k)
        BY <3>1, <3>2, <3>4, <3>6 DEF Rfid!rfid_line
      <3>8. SubSeq(t, 1, k) # <<"?">>
        <4>1. <<"?">>[1] = "?"
          OBVIOUS
        <4>2. SubSeq(t, 1, k)[1] = t[1] /\ t[1] \in Letter
          <5>1. 1 \in 1..k /\ 1 \in 1..Len(t)
            BY <1>0, <3>3
          <5> QED BY <1>0, <3>5, <5>1
        <4> QED BY <4>1, <4>2 DEF Letter
      <3>9. k >= 1 /\ v2' \in Seq(Chars)
        BY <3>1, <3>3
      <3> QED BY <1>2, <1>7, <3>1, <3>7, <3>8, <3>9
    <2>7. CASE Len(text) # RfidBuffer - 1
      <3>1. v2' = text /\ v11' = v11
        BY <1>1, <2>2, <2>3, <2>7 DEF Rfid!Put
      <3>2. TagLine(t)'
        <4>1. Len(v2') = k + 1 /\ Len(v2') + Len(v5') = Len(t) + 3
          BY <1>2, <1>3, <1>6, <2>4, <3>1
        <4>2. Len(v2') <= Len(t) + 1 /\ Len(v2') <= RfidBuffer - 2
          BY <1>0, <1>3, <2>1, <2>4, <2>7, <4>1
        <4>3. \A i \in 1..Len(v2') : v2'[i] = CharOf(t, i)
          BY <2>5, <3>1
        <4>4. \A i \in 1..Len(v5') : v5'[i] = CharOf(t, Len(v2') + i)
          BY <1>5, <4>1
        <4> QED BY <4>1, <4>2, <4>3, <4>4 DEF TagLine
      <3> QED BY <1>2, <2>4, <3>1, <3>2
    <2> QED BY <2>6, <2>7
  <1> QED BY <1>8, <1>9

\* A line the reader begins is a tag's, or has no dash (ReaderSays, rfid_info).
LEMMA LineBegins ==
  ASSUME v2' = <<>>, NEW l \in Rfid!Lines, v5' = l \o <<"cr", "lf">>
  PROVE  /\ PlainLine' \/ \E t \in RfidTags : TagLine(t)'
         /\ v2' \in Seq(Chars) /\ v5' \in Seq(Chars)
  <1>0. /\ v2' \in Seq(Chars) /\ Len(v2') = 0
        /\ \A i \in 1..Len(v2') : FALSE
        /\ <<"cr", "lf">> \in Seq(Chars) /\ Len(<<"cr", "lf">>) = 2
        /\ <<"cr", "lf">>[1] = "cr" /\ <<"cr", "lf">>[2] = "lf"
    BY CharSeqs
  <1>1. ASSUME l = <<">">> \/ l = Rfid!Name PROVE PlainLine' /\ v5' \in Seq(Chars)
    <2>1. /\ l \in Seq(Chars) /\ Len(l) \in 1..2 /\ \A i \in 1..Len(l) : l[i] # "-"
      <3>1. CASE l = <<">">>
        BY <3>1, CharSeqs
      <3>2. CASE l = <<"M", "O">>
        <4>1. l \in Seq(Chars)
          BY <3>2, CharSeqs
        <4> QED BY <3>2, <4>1
      <3> QED BY <1>1, <3>1, <3>2 DEF Rfid!Name
    <2>2. /\ v5' \in Seq(Chars) /\ Len(v5') = Len(l) + 2
          /\ \A i \in 1..Len(l) : v5'[i] = l[i]
          /\ v5'[Len(l) + 1] = "cr" /\ v5'[Len(l) + 2] = "lf"
      BY <1>0, <2>1
    <2>3. \A i \in 1..Len(v5') : i \in 1..Len(l) \/ i = Len(l) + 1 \/ i = Len(l) + 2
      BY <2>1, <2>2
    <2>4. \A i \in 1..Len(v5') : v5'[i] # "-"
      BY <2>1, <2>2, <2>3
    <2>5. v5' # <<>>
      <3>1. v5' = <<>> => Len(v5') = 0
        OBVIOUS
      <3> QED BY <2>1, <2>2, <3>1
    <2> QED BY <1>0, <2>2, <2>4, <2>5 DEF PlainLine, Rfid!End
  <1>2. ASSUME NEW t \in RfidTags, l = <<"-">> \o t PROVE TagLine(t)' /\ v5' \in Seq(Chars)
    <2>0. /\ t \in Seq(Chars) /\ RfidBuffer \in Nat /\ RfidBuffer >= 3 /\ Len(t) \in Nat
      BY RfidAssumption, CharSeqs
    <2>1. /\ l \in Seq(Chars) /\ Len(l) = Len(t) + 1 /\ l[1] = "-"
          /\ \A i \in 1..Len(t) : l[i + 1] = t[i]
      <3>1. <<"-">> \in Seq(Chars) /\ Len(<<"-">>) = 1 /\ <<"-">>[1] = "-"
        BY CharSeqs
      <3>2. l \in Seq(Chars) /\ Len(l) = Len(t) + 1 /\ l[1] = "-"
        BY <1>2, <2>0, <3>1
      <3>3. ASSUME NEW i \in 1..Len(t) PROVE l[i + 1] = t[i]
        BY <1>2, <2>0, <3>1
      <3> QED BY <3>2, <3>3
    <2>2. /\ v5' \in Seq(Chars) /\ Len(v5') = Len(l) + 2
          /\ \A i \in 1..Len(l) : v5'[i] = l[i]
          /\ v5'[Len(l) + 1] = "cr" /\ v5'[Len(l) + 2] = "lf"
      BY <1>0, <2>1
    <2>3. ASSUME NEW i \in 1..Len(v5') PROVE v5'[i] = CharOf(t, i)
      <3>1. i = 1 \/ i \in 2..Len(l) \/ i = Len(l) + 1 \/ i = Len(l) + 2
        BY <2>0, <2>1, <2>2
      <3>2. CASE i = 1
        BY <2>0, <2>1, <2>2, <3>2 DEF CharOf
      <3>3. CASE i \in 2..Len(l)
        <4>1. i - 1 \in 1..Len(t) /\ (i - 1) + 1 = i
          BY <2>0, <2>1, <3>3
        <4>2. l[i] = t[i - 1]
          BY <2>1, <4>1
        <4>3. i # 1 /\ i <= Len(t) + 1 /\ i \in 1..Len(l)
          BY <2>0, <2>1, <3>3
        <4> QED BY <2>2, <4>2, <4>3 DEF CharOf
      <3>4. CASE i = Len(l) + 1 \/ i = Len(l) + 2
        BY <2>0, <2>1, <2>2, <3>4 DEF CharOf
      <3> QED BY <3>1, <3>2, <3>3, <3>4
    <2>4. \A i \in 1..Len(v5') : v5'[i] = CharOf(t, Len(v2') + i)
      <3>1. ASSUME NEW i \in 1..Len(v5') PROVE v5'[i] = CharOf(t, Len(v2') + i)
        <4>1. Len(v2') + i = i
          BY <1>0
        <4> QED BY <2>3, <4>1
      <3> QED BY <3>1
    <2> QED BY <1>0, <2>0, <2>1, <2>2, <2>4 DEF TagLine
  <1>3. \/ l = <<">">> \/ l = Rfid!Name
        \/ \E t \in RfidTags : l = <<"-">> \o t
    BY DEF Rfid!Lines
  <1> QED BY <1>0, <1>1, <1>2, <1>3

LEMMA RfidKeeps == ASSUME RfidInv, Rfid!Next \/ UNCHANGED Rfid!vars PROVE RfidInv'
  <1>0. /\ RfidSet /\ v2 \in Seq(Chars) /\ v5 \in Seq(Chars) /\ v6 \in BOOLEAN
        /\ v11 = <<"?">> => v12
        /\ ~ v6 => PlainLine \/ \E t \in RfidTags : TagLine(t)
    BY DEF RfidInv, RfidLine, Rfid!TagWhole
  <1>1. ASSUME UNCHANGED <<v2, v5, v6, v11, v12>>, RfidSet' PROVE RfidInv'
    <2>1. PlainLine' = PlainLine /\ \A t : TagLine(t)' = TagLine(t)
      BY <1>1 DEF PlainLine, TagLine
    <2> QED BY <1>0, <1>1, <2>1 DEF RfidInv, RfidLine, Rfid!TagWhole
  <1>2. ASSUME UNCHANGED <<v7, v8, v9, v10, v11, v12>>, RfidLine' PROVE RfidInv'
    <2>1. RfidSet'
      BY <1>0, <1>2, RfidSets
    <2> QED BY <1>0, <1>2, <2>1 DEF RfidInv, Rfid!TagWhole
  <1>3. CASE Rfid!ReaderSays
    <2>1. /\ v5 = <<>> /\ v6' = (v6 /\ v2 # <<>>) /\ v2' = v2
          /\ UNCHANGED <<v7, v8, v9, v10, v11, v12>>
      BY <1>3 DEF Rfid!ReaderSays
    <2>2. PICK l \in Rfid!Lines : v5' = l \o <<"cr", "lf">>
      BY <1>3 DEF Rfid!ReaderSays
    <2>3. ~ v6 => v2 = <<>>
      <3>1. ASSUME NEW t \in RfidTags, TagLine(t) PROVE FALSE
        <4>1. Len(t) \in Nat /\ Len(v2) \in Nat
          BY <1>0, CharSeqs
        <4>2. Len(v5) = 0
          BY <2>1
        <4>3. Len(v2) + Len(v5) = Len(t) + 3 /\ Len(v2) <= Len(t) + 1
          BY <3>1 DEF TagLine
        <4> QED BY ONLY <4>1, <4>2, <4>3
      <3> QED BY <1>0, <2>1, <3>1 DEF PlainLine
    <2>4. v2 # <<>> => v6'
      BY <1>0, <2>1, <2>3
    <2>5. v5' \in Seq(Chars)
      <3>1. l \in Seq(Chars)
        <4>1. \A t \in RfidTags : t \in Seq(Chars)
          BY CharSeqs
        <4>2. \A t \in RfidTags : <<"-">> \o t \in Seq(Chars)
          <5>1. <<"-">> \in Seq(Chars)
            BY CharSeqs
          <5> QED BY <4>1, <5>1
        <4>3. <<">">> \in Seq(Chars) /\ <<"M", "O">> \in Seq(Chars)
          BY CharSeqs
        <4> QED BY <4>2, <4>3 DEF Rfid!Lines, Rfid!Name
      <3>2. <<"cr", "lf">> \in Seq(Chars)
        BY CharSeqs
      <3> QED BY <2>2, <3>1, <3>2
    <2>6. v2 = <<>> => PlainLine' \/ \E t \in RfidTags : TagLine(t)'
      BY <2>1, <2>2, LineBegins
    <2>7. v6' \in BOOLEAN
      BY <2>1
    <2>8. RfidLine'
      BY <1>0, <2>1, <2>4, <2>5, <2>6, <2>7 DEF RfidLine
    <2> QED BY <1>2, <2>1, <2>8
  <1>4. CASE Rfid!Lose
    <2>1. v5 # <<>> /\ v5' = Tail(v5) /\ v6' = TRUE /\ v2' = v2
          /\ UNCHANGED <<v7, v8, v9, v10, v11, v12>>
      BY <1>4 DEF Rfid!Lose
    <2>2. v5' \in Seq(Chars)
      BY <1>0, <2>1
    <2> QED BY <1>0, <1>2, <2>1, <2>2 DEF RfidLine
  <1>5. CASE Rfid!rfid_info
    <2>1. /\ v2' = <<>> /\ v5' = Rfid!Name \o <<"cr", "lf">> /\ v6' = (v6 \/ v2 # <<>>)
          /\ UNCHANGED <<v7, v8, v9, v10, v11, v12>>
      BY <1>5 DEF Rfid!rfid_info
    <2>2. Rfid!Name \in Rfid!Lines
      BY DEF Rfid!Lines
    <2>3. /\ PlainLine' \/ \E t \in RfidTags : TagLine(t)'
          /\ v2' \in Seq(Chars) /\ v5' \in Seq(Chars)
      BY <2>1, <2>2, LineBegins
    <2>4. v6' \in BOOLEAN
      BY <2>1
    <2> QED BY <1>2, <2>1, <2>3, <2>4 DEF RfidLine
  <1>6. CASE Rfid!rfid_char_in
    <2>1. v5 # <<>> /\ v5' = Tail(v5) /\ UNCHANGED <<v7, v8, v9, v10>>
      BY <1>6 DEF Rfid!rfid_char_in
    <2>2. v12' = IF v11' # v11 THEN v6 ELSE v12
      BY <1>6 DEF Rfid!rfid_char_in
    <2>3. RfidSet'
      BY <1>0, <2>1, RfidSets
    <2>4. CASE Rfid!Put(Head(v5)) /\ UNCHANGED v6
      <3>1. CASE ~ v6
        <4>1. /\ PlainLine' \/ \E t \in RfidTags : TagLine(t)'
              /\ v11' = v11 \/ v11' # <<"?">>
              /\ v2' \in Seq(Chars) /\ v5' \in Seq(Chars)
          <5>1. CASE PlainLine
            BY <1>0, <2>1, <2>4, <5>1, PlainGoesOn
          <5>2. ASSUME NEW t \in RfidTags, TagLine(t)
                PROVE  /\ PlainLine' \/ TagLine(t)'
                       /\ v11' = v11 \/ v11' # <<"?">>
                       /\ v2' \in Seq(Chars) /\ v5' \in Seq(Chars)
            BY <1>0, <2>1, <2>4, <5>2, TagGoesOn
          <5> QED BY <1>0, <3>1, <5>1, <5>2
        <4>2. Rfid!TagWhole'
          BY <1>0, <2>2, <4>1 DEF Rfid!TagWhole
        <4> QED BY <1>0, <2>3, <2>4, <4>1, <4>2 DEF RfidInv, RfidLine
      <3>2. CASE v6
        <4>1. v5' \in Seq(Chars)
          BY <1>0, <2>1
        <4>2. v2' \in Seq(Chars)
          <5>1. Head(v5) \in Chars
            BY <1>0, <2>1
          <5>2. Append(v2, Head(v5)) \in Seq(Chars)
            BY <1>0, <5>1
          <5>3. v2' = <<>> \/ v2' = v2 \/ v2' = Append(v2, Head(v5))
            BY <2>4 DEF Rfid!Put
          <5> QED BY <1>0, <5>2, <5>3, CharSeqs
        <4>3. v6' = v6
          BY <2>4
        <4>4. Rfid!TagWhole'
          BY <1>0, <2>2, <3>2 DEF Rfid!TagWhole
        <4>5. RfidLine'
          BY <1>0, <3>2, <4>1, <4>2, <4>3 DEF RfidLine
        <4> QED BY <2>3, <4>4, <4>5 DEF RfidInv
      <3> QED BY <3>1, <3>2
    <2>5. CASE v6' = TRUE /\ UNCHANGED <<v2, v11, v3>>
      <3>1. v5' \in Seq(Chars) /\ v2' = v2 /\ v11' = v11 /\ v6' = TRUE
        BY <1>0, <2>1, <2>5
      <3>2. v12' = v12
        BY <2>2, <3>1
      <3>3. RfidLine'
        BY <1>0, <3>1 DEF RfidLine
      <3> QED BY <1>2, <2>1, <3>1, <3>2, <3>3
    <2> QED BY <1>6, <2>4, <2>5 DEF Rfid!rfid_char_in
  <1>7. ASSUME NEW freq \in Rfid!Values \cup {10}, NEW led \in Rfid!Values \cup {10},
               Rfid!rfid_handler(freq, led)
        PROVE  RfidInv'
    <2>1. RfidSet'
      BY <1>0, <1>7, RfidSets
    <2>2. UNCHANGED <<v2, v5, v6, v11, v12>>
      BY <1>7 DEF Rfid!rfid_handler
    <2> QED BY <1>1, <2>1, <2>2
  <1>8. CASE Rfid!rfid_set_led
    <2>1. RfidSet'
      BY <1>0, <1>8, RfidSets
    <2>2. UNCHANGED <<v2, v5, v6, v11, v12>>
      BY <1>8 DEF Rfid!rfid_set_led
    <2> QED BY <1>1, <2>1, <2>2
  <1>9. CASE UNCHANGED Rfid!vars
    <2>1. UNCHANGED <<v2, v5, v6, v7, v8, v9, v10, v11, v12>>
      BY <1>9 DEF Rfid!vars
    <2>2. RfidSet'
      BY <1>0, <2>1 DEF RfidSet
    <2> QED BY <1>1, <2>1, <2>2
  <1> QED BY <1>3, <1>4, <1>5, <1>6, <1>7, <1>8, <1>9 DEF Rfid!Next

\* The reader is set to what the module was given last, once no timer waits.
LEMMA RfidTells == ASSUME RfidInv PROVE Rfid!ReaderSet
  <1>1. v9 \in [freq : {0, 1}, led : {0, 1}] /\ v7 \in [freq : {0, 1}, led : {0, 1}]
    BY DEF RfidInv, RfidSet
  <1>2. v10 /\ v8 = <<>> => v9.freq = v7.freq /\ v9.led = v7.led
    BY DEF RfidInv, RfidSet
  <1>3. v10 /\ v8 = <<>> => v9 = v7
    BY <1>1, <1>2
  <1> QED BY <1>3 DEF Rfid!ReaderSet
-----------------------------------------------------------------------------
(* The ultrasonic sensor.  The pin of a measurement interrupts at the edge  *)
(* it waits for and at no other; pin 0, whose interrupts stay, is excepted. *)
PingTyped ==
  /\ v1 \in 0..(2^ClockBits - 1) /\ v2 \in EchoPins /\ v4 \in [EchoPins -> {"off", "rise", "fall"}]
  /\ v8 \in Nat /\ v9 \in Nat /\ v10 \in {"idle", "low", "echo"} /\ v13 \in Int
  /\ v14 \in [told : Int, true : Int]

PingOwns ==
  /\ \A p \in EchoPins : p # 0 /\ p # v2 => v4[p] = "off"
  /\ IF v10 = "idle" THEN v5 = -1 ELSE v5 = IF v7 THEN -1 ELSE v2

PingPhase ==
  \/ v10 = "idle" /\ v4[v2] = "off" /\ (v14.told = -1 \/ v14.told = v14.true)
  \/ /\ v10 = "low" /\ v4[v2] = "off" /\ ~ v6 /\ ~ v7
     /\ v13 = -1 /\ v14.told = -1 /\ v14.true = -1
  \/ /\ v10 = "echo" /\ v4[v2] = "rise" /\ ~ v6 /\ ~ v7 /\ ~ v3
     /\ v13 = -1 /\ v14.told = -1 /\ v14.true = -1
  \/ /\ v10 = "echo" /\ v4[v2] = "fall" /\ v6 /\ ~ v7 /\ v3
     /\ v13 = v8 /\ v14.told = -1 /\ v14.true = -1
  \/ /\ v10 = "echo" /\ v4[v2] = "off" /\ v7
     /\ v13 # -1 /\ v14.told = -1 /\ (v9 >= v8 => v14.true = v9 - v8)

\* A measurement's clock has gone on by what it spent, if it does not run over.
PingSpent ==
  /\ v11 \in Nat /\ v12 \in Nat
  /\ v10 # "idle" /\ v11 \in EchoPeriod..(2^ClockBits - 2) =>
       v1 = v11 - EchoPeriod + v12 /\ v12 <= EchoPeriod + 1

PingInv == PingTyped /\ PingOwns /\ (v2 # 0 => PingPhase) /\ PingSpent

LEMMA PingStarts == ASSUME Ping!Init PROVE PingInv
  <1>1. /\ v1 \in 0..(2^ClockBits - 1) /\ v2 \in EchoPins /\ v3 = FALSE
        /\ v4 = [p \in EchoPins |-> "off"] /\ v5 = -1 /\ v8 = 0 /\ v9 = 0
        /\ v10 = "idle" /\ v11 = 0 /\ v12 = 0 /\ v13 = -1 /\ v14 = [told |-> -1, true |-> -1]
    BY PingAssumption DEF Ping!Init, Ping!Nothing
  <1>2. PingTyped
    BY <1>1 DEF PingTyped
  <1>3. PingOwns
    BY <1>1 DEF PingOwns
  <1>4. PingPhase
    BY <1>1 DEF PingPhase
  <1>5. PingSpent
    BY <1>1 DEF PingSpent
  <1> QED BY <1>2, <1>3, <1>4, <1>5 DEF PingInv

\* Time that is not past the period, nor runs over in it.
LEMMA PeriodStarts ==
  ASSUME NEW m \in Nat, NEW p \in Nat, p < m, NEW c \in 0..(m - 1), (c + p) % m >= p
  PROVE  (c + p) % m = c + p
  <1>1. PICK q, t : q = (c + p) \div m /\ t = (c + p) % m
    OBVIOUS
  <1>2. q \in Int /\ t \in Int /\ c + p = m * q + t /\ 0 <= t /\ t < m /\ t >= p
    BY <1>1
  <1>3. m * q < m /\ m * q > - m
    BY <1>2
  <1>4. q < 1
    <2>1. q >= 1 => m * (q - 1) >= 0
      BY <1>2
    <2>2. m * (q - 1) = m * q - m
      BY <1>2
    <2>3. m * q \in Int
      BY <1>2
    <2> QED BY <1>2, <1>3, <2>1, <2>2, <2>3
  <1>5. q > -1
    <2>1. q <= -1 => m * (-1 - q) >= 0
      BY <1>2
    <2>2. m * (-1 - q) = - m - m * q
      BY <1>2
    <2>3. m * q \in Int
      BY <1>2
    <2> QED BY <1>2, <1>3, <2>1, <2>2, <2>3
  <1>6. q = 0
    BY <1>2, <1>4, <1>5
  <1> QED BY <1>1, <1>2, <1>6

LEMMA DelayTyped ==
  ASSUME NEW m \in Nat \ {0}, NEW c \in Nat
  PROVE  c % m \in 0..(m - 1)
  OBVIOUS

\* A delay while the time is not over (Delay, WaitLow, WaitEcho).
LEMMA DelayKeeps ==
  ASSUME PingInv, Ping!Delay, ~ (v1 > v11), v10 # "idle",
         UNCHANGED <<v2, v3, v4, v5, v6, v7, v8, v9, v10, v11, v13, v14>>
  PROVE  PingInv'
  <1>0. PingTyped /\ PingOwns /\ (v2 # 0 => PingPhase) /\ PingSpent
    BY DEF PingInv
  <1>1. PICK m : m = 2^ClockBits
    OBVIOUS
  <1>2. m \in Nat \ {0} /\ v1 \in 0..(m - 1) /\ v12 \in Nat /\ v11 \in Nat /\ EchoPeriod \in Nat
    BY <1>0, <1>1, PingAssumption DEF PingTyped, PingSpent
  <1>3. /\ v1' = (v1 + 1) % m
        /\ v12' = IF v12 > EchoPeriod + 1 THEN v12 ELSE v12 + 1
    BY <1>1 DEF Ping!Delay
  <1>4. v1' \in 0..(m - 1)
    BY <1>2, <1>3, DelayTyped
  <1>5. PingTyped'
    BY <1>0, <1>1, <1>4 DEF PingTyped
  <1>6. PingOwns' /\ PingPhase' = PingPhase
    BY <1>0 DEF PingOwns, PingPhase
  <1>7. PingSpent'
    <2>1. v12' \in Nat /\ v11' = v11 /\ v10' = v10
      BY <1>2, <1>3
    <2>2. ASSUME v11 \in EchoPeriod..(m - 2)
          PROVE  v1' = v11 - EchoPeriod + v12' /\ v12' <= EchoPeriod + 1
      <3>1. v1 = v11 - EchoPeriod + v12 /\ v12 <= EchoPeriod + 1
        BY <1>0, <1>1, <2>2 DEF PingSpent
      <3>2. v12 <= EchoPeriod /\ v1 + 1 < m
        BY <1>2, <2>2, <3>1
      <3>3. (v1 + 1) % m = v1 + 1
        BY <1>2, <3>2
      <3> QED BY <1>2, <1>3, <3>1, <3>2, <3>3
    <2> QED BY <1>0, <1>1, <1>2, <2>1, <2>2 DEF PingSpent
  <1> QED BY <1>0, <1>5, <1>6, <1>7 DEF PingInv

\* A measurement that fails frees its pin (GiveUp, ping_disableInterrupt).
LEMMA GiveUpKeeps ==
  ASSUME PingInv, Ping!GiveUp, v10 # "idle", v10 = "echo" => ~ v7
  PROVE  PingInv'
  <1>0. PingTyped /\ PingOwns /\ (v2 # 0 => PingPhase) /\ PingSpent
    BY DEF PingInv
  <1>1. /\ v4' = IF v5 > 0 THEN [v4 EXCEPT ![v5] = "off"] ELSE v4
        /\ v5' = -1 /\ v10' = "idle"
        /\ UNCHANGED <<v1, v2, v3, v6, v7, v8, v9, v11, v12, v13, v14>>
    BY DEF Ping!GiveUp, Ping!ping_disableInterrupt
  <1>2. PingTyped'
    BY <1>0, <1>1 DEF PingTyped
  <1>3. PingOwns'
    BY <1>0, <1>1 DEF PingOwns, PingTyped
  <1>4. ASSUME v2 # 0 PROVE PingPhase'
    <2>1. v2 \in Nat /\ v2 > 0 /\ v4 \in [EchoPins -> {"off", "rise", "fall"}] /\ v2 \in EchoPins
      BY <1>0, <1>4, PingAssumption DEF PingTyped
    <2>2. v14.told = -1 /\ ~ v7
      BY <1>0, <1>4 DEF PingPhase
    <2>3. v5 = v2
      BY <1>0, <2>2 DEF PingOwns
    <2>4. v4'[v2] = "off"
      BY <1>1, <2>1, <2>3
    <2> QED BY <1>1, <2>2, <2>4 DEF PingPhase
  <1>5. PingSpent'
    BY <1>0, <1>1 DEF PingSpent
  <1> QED BY <1>1, <1>2, <1>3, <1>4, <1>5 DEF PingInv

\* An edge of the line, that interrupts or does not (Edge, ping_intr_handler).
LEMMA EdgeKeeps == ASSUME PingInv, Ping!Edge PROVE PingInv'
  <1>0. PingTyped /\ PingOwns /\ (v2 # 0 => PingPhase) /\ PingSpent
    BY DEF PingInv
  <1>1. /\ v3' = ~ v3
        /\ v13' = (IF v3' /\ v10 = "echo" /\ v13 = -1 THEN v1 ELSE v13)
        /\ v14' = (IF ~ v3' /\ v10 = "echo" /\ v13 # -1 /\ v14.true = -1
                   THEN [v14 EXCEPT !.true = v1 - v13] ELSE v14)
        /\ v1' = v1 /\ v2' = v2 /\ v10' = v10 /\ v11' = v11 /\ v12' = v12
    BY DEF Ping!Edge
  <1>2. /\ v2 \in Nat /\ v2 \in EchoPins /\ v1 \in Nat /\ v13 \in Int /\ v8 \in Nat /\ v9 \in Nat
        /\ v4 \in [EchoPins -> {"off", "rise", "fall"}] /\ v14 \in [told : Int, true : Int]
    BY <1>0, PingAssumption DEF PingTyped
  <1>3. v13' \in Int /\ v14' \in [told : Int, true : Int]
    BY <1>1, <1>2
  <1>4. PingSpent'
    BY <1>0, <1>1 DEF PingSpent
  <1>5. CASE /\ v4[v2] = (IF v3' THEN "rise" ELSE "fall")
             /\ v5 = v2
    <2>1. v10 # "idle" /\ ~ v7
      BY <1>0, <1>2, <1>5 DEF PingOwns
    <2>2. CASE ~ v6
      <3>1. /\ v4' = [v4 EXCEPT ![v2] = "fall"] /\ v8' = v1 /\ v6'
            /\ v5' = v5 /\ v7' = v7 /\ v9' = v9
        BY <1>5, <2>2 DEF Ping!Edge, Ping!ping_intr_handler
      <3>2. PingTyped'
        BY <1>0, <1>1, <1>3, <3>1 DEF PingTyped
      <3>3. PingOwns'
        BY <1>0, <1>1, <1>2, <3>1 DEF PingOwns
      <3>4. ASSUME v2 # 0 PROVE PingPhase'
        <4>1. v10 = "echo" /\ ~ v3 /\ v13 = -1 /\ v14.told = -1 /\ v14.true = -1
          <5>1. v4[v2] # "off"
            BY <1>5
          <5> QED BY <1>0, <2>1, <2>2, <3>4, <5>1 DEF PingPhase
        <4>2. v3' /\ v13' = v1 /\ v14' = v14
          BY <1>1, <4>1
        <4>3. v4'[v2'] = "fall"
          BY <1>1, <1>2, <3>1
        <4> QED BY <1>1, <2>1, <3>1, <4>1, <4>2, <4>3 DEF PingPhase
      <3> QED BY <1>1, <1>4, <3>2, <3>3, <3>4 DEF PingInv
    <2>3. CASE v6
      <3>1. /\ v9' = v1 /\ v7' /\ v5' = -1 /\ v6' = v6 /\ v8' = v8
            /\ v4' = IF v2 > 0 THEN [v4 EXCEPT ![v2] = "off"] ELSE v4
        BY <1>5, <2>3 DEF Ping!Edge, Ping!ping_intr_handler, Ping!ping_disableInterrupt
      <3>2. PingTyped'
        BY <1>0, <1>1, <1>3, <3>1 DEF PingTyped
      <3>3. PingOwns'
        BY <1>0, <1>1, <1>2, <2>1, <3>1 DEF PingOwns
      <3>4. ASSUME v2 # 0 PROVE PingPhase'
        <4>1. v10 = "echo" /\ v3 /\ v13 = v8 /\ v14.told = -1 /\ v14.true = -1
          <5>1. v4[v2] # "off"
            BY <1>5
          <5> QED BY <1>0, <2>1, <2>3, <3>4, <5>1 DEF PingPhase
        <4>2. v13 # -1 /\ ~ v3' /\ v13' = v13
          <5>1. v13 # -1
            BY <1>2, <4>1
          <5>2. ~ v3'
            BY <1>1, <4>1
          <5>3. v13' = v13
            BY <1>1, <5>1
          <5> QED BY <5>1, <5>2, <5>3
        <4>3. v14' = [v14 EXCEPT !.true = v1 - v13]
          BY <1>1, <4>1, <4>2
        <4>4. v14'.told = -1 /\ v14'.true = v9' - v8'
          BY <1>2, <3>1, <4>1, <4>3
        <4>5. v4'[v2'] = "off"
          BY <1>1, <1>2, <3>1, <3>4
        <4> QED BY <1>1, <3>1, <4>1, <4>2, <4>4, <4>5 DEF PingPhase
      <3> QED BY <1>1, <1>4, <3>2, <3>3, <3>4 DEF PingInv
    <2> QED BY <2>2, <2>3
  <1>6. CASE ~ (/\ v4[v2] = (IF v3' THEN "rise" ELSE "fall")
                /\ v5 = v2)
    <2>1. v4' = v4 /\ v5' = v5 /\ v6' = v6 /\ v7' = v7 /\ v8' = v8 /\ v9' = v9
      BY <1>6 DEF Ping!Edge, Ping!ping_intr_handler
    <2>2. PingTyped'
      BY <1>0, <1>1, <1>3, <2>1 DEF PingTyped
    <2>3. PingOwns'
      BY <1>0, <1>1, <2>1 DEF PingOwns
    <2>4. ASSUME v2 # 0 PROVE PingPhase'
      <3>1. CASE v10 # "echo"
        <4>1. v13' = v13 /\ v14' = v14
          BY <1>1, <3>1
        <4> QED BY <1>0, <1>1, <2>1, <2>4, <3>1, <4>1 DEF PingPhase
      <3>2. CASE v10 = "echo"
        <4>1. v7
          <5>1. ~ v7 => v5 = v2
            BY <1>0, <3>2 DEF PingOwns
          <5>2. ~ v7 => v4[v2] = (IF v3' THEN "rise" ELSE "fall")
            BY <1>0, <1>1, <2>4, <3>2 DEF PingPhase
          <5> QED BY <1>6, <5>1, <5>2
        <4>2. v4[v2] = "off" /\ v13 # -1 /\ v14.told = -1 /\ (v9 >= v8 => v14.true = v9 - v8)
          BY <1>0, <2>4, <3>2, <4>1 DEF PingPhase
        <4>3. v13' = v13
          BY <1>1, <4>2
        <4>4. v9 >= v8 => v14.true # -1
          BY <1>2, <4>2
        <4>5. v14'.told = -1 /\ (v9 >= v8 => v14'.true = v9 - v8)
          BY <1>1, <1>2, <4>2, <4>4
        <4> QED BY <1>1, <2>1, <3>2, <4>1, <4>2, <4>3, <4>5 DEF PingPhase
      <3> QED BY <3>1, <3>2
    <2> QED BY <1>1, <1>4, <2>2, <2>3, <2>4 DEF PingInv
  <1> QED BY <1>5, <1>6

LEMMA PingKeeps == ASSUME PingInv, Ping!Next \/ UNCHANGED Ping!vars PROVE PingInv'
  <1>0. PingTyped /\ PingOwns /\ (v2 # 0 => PingPhase) /\ PingSpent
    BY DEF PingInv
  <1>1. /\ v1 \in 0..(2^ClockBits - 1) /\ v2 \in EchoPins /\ v2 \in Nat /\ v2 # -1
        /\ v4 \in [EchoPins -> {"off", "rise", "fall"}] /\ v14 \in [told : Int, true : Int]
        /\ v8 \in Nat /\ v9 \in Nat
    BY <1>0, PingAssumption DEF PingTyped
  <1>2. CASE Ping!ping_pingUs
    <2>1. /\ v10 = "idle" /\ v6' = FALSE /\ v7' = FALSE
          /\ v11' = (v1 + EchoPeriod) % 2^ClockBits
          /\ v8' = v1 /\ v5' = v2 /\ v10' = "low" /\ v12' = 0 /\ v13' = -1
          /\ v14' = [told |-> -1, true |-> -1]
          /\ v1' = v1 /\ v2' = v2 /\ v3' = v3 /\ v4' = v4 /\ v9' = v9
      BY <1>2 DEF Ping!ping_pingUs, Ping!Forget, Ping!Nothing
    <2>2. PingTyped'
      BY <1>0, <1>1, <2>1, PingAssumption DEF PingTyped
    <2>3. PingOwns'
      BY <1>0, <2>1 DEF PingOwns
    <2>4. v2 # 0 => PingPhase'
      <3>1. v2 # 0 => v4[v2] = "off"
        BY <1>0, <2>1 DEF PingPhase
      <3> QED BY <2>1, <3>1 DEF PingPhase
    <2>5. PingSpent'
      <3>1. PICK m, t : m = 2^ClockBits /\ t = (v1 + EchoPeriod) % m
        OBVIOUS
      <3>2. m \in Nat \ {0} /\ EchoPeriod \in Nat /\ EchoPeriod < m /\ v1 \in 0..(m - 1)
        BY <1>1, <3>1, PingAssumption
      <3>3. t \in Nat /\ (t >= EchoPeriod => t = v1 + EchoPeriod)
        <4>1. v1 + EchoPeriod \in Nat
          BY <3>2
        <4>2. (v1 + EchoPeriod) % m \in 0..(m - 1)
          BY <3>2, <4>1, DelayTyped
        <4>3. t >= EchoPeriod => t = v1 + EchoPeriod
          <5>1. PICK c : c = v1
            OBVIOUS
          <5>2. c \in 0..(m - 1) /\ t = (c + EchoPeriod) % m
            BY <3>1, <3>2, <5>1
          <5>3. (c + EchoPeriod) % m >= EchoPeriod => (c + EchoPeriod) % m = c + EchoPeriod
            BY <3>2, <5>2, PeriodStarts
          <5> QED BY <5>1, <5>2, <5>3
        <4> QED BY <3>1, <4>2, <4>3
      <3>4. v11' = t
        BY <2>1, <3>1
      <3>5. v1' = v1 /\ v12' = 0
        BY <2>1
      <3> QED BY <3>1, <3>2, <3>3, <3>4, <3>5 DEF PingSpent
    <2> QED BY <2>1, <2>2, <2>3, <2>4, <2>5 DEF PingInv
  <1>3. CASE Ping!WaitLow
    <2>1. v10 = "low"
      BY <1>3 DEF Ping!WaitLow
    <2>2. CASE v1 > v11
      BY <1>3, <2>1, <2>2, GiveUpKeeps DEF Ping!WaitLow
    <2>3. CASE ~ (v1 > v11)
      BY <1>3, <2>1, <2>3, DelayKeeps DEF Ping!WaitLow
    <2> QED BY <2>2, <2>3
  <1>4. CASE Ping!Trigger
    <2>1. /\ v10 = "low" /\ ~ v3 /\ v4' = [v4 EXCEPT ![v2] = "rise"] /\ v10' = "echo"
          /\ v1' = v1 /\ v2' = v2 /\ v3' = v3 /\ v5' = v5 /\ v6' = v6 /\ v7' = v7 /\ v8' = v8
          /\ v9' = v9 /\ v11' = v11 /\ v12' = v12 /\ v13' = v13 /\ v14' = v14
      BY <1>4 DEF Ping!Trigger
    <2>2. PingTyped'
      BY <1>0, <2>1 DEF PingTyped
    <2>3. PingOwns'
      BY <1>0, <1>1, <2>1 DEF PingOwns
    <2>4. v2 # 0 => PingPhase'
      <3>1. v4'[v2'] = "rise"
        BY <1>1, <2>1
      <3> QED BY <1>0, <2>1, <3>1 DEF PingPhase
    <2>5. PingSpent'
      BY <1>0, <2>1 DEF PingSpent
    <2> QED BY <2>1, <2>2, <2>3, <2>4, <2>5 DEF PingInv
  <1>5. CASE Ping!WaitEcho
    <2>1. v10 = "echo" /\ ~ v7
      BY <1>5 DEF Ping!WaitEcho
    <2>2. CASE v1 > v11
      BY <1>5, <2>1, <2>2, GiveUpKeeps DEF Ping!WaitEcho
    <2>3. CASE ~ (v1 > v11)
      BY <1>5, <2>1, <2>3, DelayKeeps DEF Ping!WaitEcho
    <2> QED BY <2>2, <2>3
  <1>6. CASE Ping!Echoed
    <2>1. /\ v10 = "echo" /\ v7 /\ v10' = "idle"
          /\ v1' = v1 /\ v2' = v2 /\ v3' = v3 /\ v6' = v6 /\ v7' = v7 /\ v8' = v8
          /\ v9' = v9 /\ v11' = v11 /\ v12' = v12 /\ v13' = v13
      BY <1>6 DEF Ping!Echoed
    <2>2. v5 = -1
      BY <1>0, <2>1 DEF PingOwns
    <2>3. v4' = v4 /\ v5' = -1
      BY <1>6, <2>2 DEF Ping!Echoed, Ping!ping_disableInterrupt
    <2>4. \/ v14' = v14
          \/ v9 >= v8 /\ v14' = [v14 EXCEPT !.told = v9 - v8]
      BY <1>1, <1>6 DEF Ping!Echoed
    <2>5. v14' \in [told : Int, true : Int]
      BY <1>1, <2>4
    <2>6. PingTyped'
      BY <1>0, <2>1, <2>3, <2>5 DEF PingTyped
    <2>7. PingOwns'
      BY <1>0, <2>1, <2>3 DEF PingOwns
    <2>8. ASSUME v2 # 0 PROVE PingPhase'
      <3>1. v4[v2] = "off" /\ v14.told = -1 /\ (v9 >= v8 => v14.true = v9 - v8)
        BY <1>0, <2>1, <2>8 DEF PingPhase
      <3>2. v14'.told = -1 \/ v14'.told = v14'.true
        BY <1>1, <2>4, <3>1
      <3> QED BY <2>1, <2>3, <3>1, <3>2 DEF PingPhase
    <2>9. PingSpent'
      BY <1>0, <2>1 DEF PingSpent
    <2> QED BY <2>1, <2>6, <2>7, <2>8, <2>9 DEF PingInv
  <1>7. CASE Ping!Between
    <2>1. /\ v10 = "idle" /\ v10' = v10 /\ v3' = v3 /\ v4' = v4 /\ v5' = v5 /\ v6' = v6
          /\ v7' = v7 /\ v8' = v8 /\ v9' = v9 /\ v11' = v11 /\ v12' = v12 /\ v13' = v13
      BY <1>7 DEF Ping!Between
    <2>2. \/ v1' = (v1 + 1) % 2^ClockBits /\ v2' = v2 /\ v14' = v14
          \/ v2' \in EchoPins /\ v14' = [told |-> -1, true |-> -1] /\ v1' = v1
      BY <1>7 DEF Ping!Between, Ping!Nothing
    <2>3. v1' \in 0..(2^ClockBits - 1)
      <3>1. PICK m : m = 2^ClockBits
        OBVIOUS
      <3>2. m \in Nat \ {0} /\ v1 + 1 \in Nat
        BY <1>1, <3>1, PingAssumption
      <3>3. (v1 + 1) % m \in 0..(m - 1)
        BY <3>2, DelayTyped
      <3> QED BY <1>1, <2>2, <3>1, <3>3
    <2>4. v2' \in EchoPins /\ v14' \in [told : Int, true : Int]
      BY <1>1, <2>2
    <2>5. PingTyped'
      BY <1>0, <2>1, <2>3, <2>4 DEF PingTyped
    <2>6. \A p \in EchoPins : p # 0 => v4[p] = "off"
      <3>1. v2 # 0 => v4[v2] = "off"
        BY <1>0, <2>1 DEF PingPhase
      <3> QED BY <1>0, <3>1 DEF PingOwns
    <2>7. PingOwns'
      BY <1>0, <2>1, <2>6 DEF PingOwns
    <2>8. ASSUME v2' # 0 PROVE PingPhase'
      <3>1. v14'.told = -1 \/ v14'.told = v14'.true
        BY <1>0, <2>1, <2>2, <2>8 DEF PingPhase
      <3> QED BY <2>1, <2>4, <2>6, <2>8, <3>1 DEF PingPhase
    <2>9. PingSpent'
      BY <1>0, <2>1 DEF PingSpent
    <2> QED BY <2>5, <2>7, <2>8, <2>9 DEF PingInv
  <1>8. CASE UNCHANGED Ping!vars
    <2>1. /\ v1' = v1 /\ v2' = v2 /\ v3' = v3 /\ v4' = v4 /\ v5' = v5 /\ v6' = v6 /\ v7' = v7
          /\ v8' = v8 /\ v9' = v9 /\ v10' = v10 /\ v11' = v11 /\ v12' = v12 /\ v13' = v13
          /\ v14' = v14
      BY <1>8 DEF Ping!vars
    <2>2. PingTyped' /\ PingOwns' /\ PingSpent'
      BY <1>0, <2>1 DEF PingTyped, PingOwns, PingSpent
    <2>3. PingPhase' = PingPhase
      BY <2>1 DEF PingPhase
    <2> QED BY <1>0, <2>1, <2>2, <2>3 DEF PingInv
  <1> QED BY <1>2, <1>3, <1>4, <1>5, <1>6, <1>7, <1>8, EdgeKeeps DEF Ping!Next

\* What was told is what was measured; no measurement holds the pins when none
\* runs, and one gives up after its period.
LEMMA PingTells == ASSUME PingInv PROVE Ping!EchoIsMine /\ Ping!IdleIsFree /\ Ping!GivesUp
  <1>1. PingTyped /\ PingOwns /\ (v2 # 0 => PingPhase) /\ PingSpent
    BY DEF PingInv
  <1>2. Ping!EchoIsMine
    BY <1>1 DEF PingPhase, Ping!EchoIsMine
  <1>3. Ping!IdleIsFree
    <2>1. ASSUME v10 = "idle", NEW p \in EchoPins \ {0} PROVE v4[p] = "off"
      <3>1. v2 = p => v4[v2] = "off"
        BY <1>1, <2>1 DEF PingPhase
      <3> QED BY <1>1, <3>1 DEF PingOwns
    <2>2. v10 = "idle" => v5 = -1
      BY <1>1 DEF PingOwns
    <2> QED BY <2>1, <2>2 DEF Ping!IdleIsFree
  <1>4. Ping!GivesUp
    BY <1>1 DEF PingSpent, Ping!GivesUp
  <1> QED BY <1>2, <1>3, <1>4
-----------------------------------------------------------------------------
(* Requests in packets.  Of each connection: v1 is its line, v2 the        *)
(* request it sends, v3 how much of it, v4 how many it sent, v13 whether   *)
(* its header was taken up and v14 how much of it was handled.  Of the one *)
(* under way: v5 is what is to come, v6 its packets, v7 the buffer, v8 its *)
(* connection, v9 that it has a callback, v10 what its handler was given,  *)
(* v11 that this is all, v12 of how much; v15 tells that a line broke.     *)
RecvUnit == Conns \X Nat

RecvTyped ==
  /\ v2 \in [Conns -> Requests] /\ v3 \in [Conns -> Nat] /\ v4 \in [Conns -> Nat]
  /\ v5 \in Nat /\ v6 \in Nat /\ v7 \in [size : Nat, units : Seq(RecvUnit)]
  /\ v8 \in Conns \cup {NoConn} /\ v9 \in BOOLEAN
  /\ v10 \in Seq(RecvUnit) /\ v11 \in BOOLEAN /\ v12 \in Nat
  /\ v13 \in [Conns -> BOOLEAN] /\ v14 \in [Conns -> Nat] /\ v15 \in BOOLEAN

\* Nobody sends more than the request has.
RecvSent == \A c \in Conns : v3[c] <= v2[c].size

\* What came of a request that is collected is in the buffer.
RecvBuffered ==
  v7.size # 0 => /\ v7 = [size |-> v2[v8].size, units |-> Recv!Units(v8, 1, v3[v8])]
                 /\ v14[v8] = 0

\* What came of one that is not went to its handler and callback.
RecvStreamed ==
  v7.size = 0 =>
    /\ v6 # 0 /\ (v9 <=> v2[v8].streams)
    /\ IF v9 THEN /\ v10 = Recv!Units(v8, 1, v3[v8]) /\ ~ v11 /\ v12 = v2[v8].size
                  /\ v14[v8] = v3[v8]
             ELSE v2[v8].size >= MaxPacket

\* A request under way is the one its connection sends.
RecvUnderWay ==
  /\ v5 # 0 => /\ v8 \in Conns /\ v4[v8] > 0 /\ v13[v8] /\ v3[v8] > 0
               /\ v5 = v2[v8].size - v3[v8]
               /\ RecvBuffered /\ RecvStreamed
  /\ v5 = 0 => v7.size = 0

\* A request that was taken up is under way until it is handled.
RecvTaken(c) ==
  /\ ~ v13[c] => v14[c] = 0
  /\ v13[c] => v3[c] > 0
  /\ ~ v15 /\ v13[c] /\ v3[c] # v2[c].size => v5 # 0 /\ v8 = c
  /\ ~ v15 /\ v13[c] /\ Recv!Whole(c) /\ v3[c] = v2[c].size => v14[c] = v2[c].size

RecvInv ==
  /\ RecvTyped /\ RecvSent /\ Recv!DeliveredInOrder /\ RecvUnderWay
  /\ \A c \in Conns : RecvTaken(c)

\* The units of a request follow one another.
LEMMA UnitsAre ==
  ASSUME NEW c \in Conns, NEW a \in Nat, NEW b \in Nat
  PROVE  LET u == Recv!Units(c, a + 1, a + b)
         IN  /\ u \in Seq(RecvUnit) /\ Len(u) = b
             /\ \A i \in 1..b : u[i] = <<c, a + i>>
  <1> DEFINE u == Recv!Units(c, a + 1, a + b)
  <1>1. u = [i \in 1..b |-> <<c, a + i>>]
    <2>1. (a + b) - (a + 1) + 1 = b /\ \A i \in 1..b : a + 1 + i - 1 = a + i
      OBVIOUS
    <2> QED BY <2>1 DEF Recv!Units
  <1>2. \A i \in 1..b : <<c, a + i>> \in RecvUnit
    BY DEF RecvUnit
  <1> HIDE DEF u
  <1>3. u \in Seq(RecvUnit) /\ Len(u) = b
    <2>1. u \in [1..b -> RecvUnit]
      BY <1>1, <1>2
    <2>2. u \in Seq(RecvUnit)
      BY <2>1
    <2>3. Len(u) \in Nat /\ 1..Len(u) = 1..b
      BY <2>1, <2>2, LenProperties
    <2>4. Len(u) = b
      BY <2>3
    <2> QED BY <2>2, <2>4
  <1> QED BY <1>1, <1>3 DEF u

LEMMA UnitsFirst ==
  ASSUME NEW c \in Conns, NEW n \in Nat
  PROVE  LET u == Recv!Units(c, 1, n)
         IN  /\ u \in Seq(RecvUnit) /\ Len(u) = n
             /\ \A i \in 1..n : u[i] = <<c, i>>
             /\ Recv!InOrder(u)
  <1>1. 0 + 1 = 1 /\ 0 + n = n /\ \A i \in 1..n : 0 + i = i
    OBVIOUS
  <1> DEFINE u == Recv!Units(c, 1, n)
  <1>2. u = Recv!Units(c, 0 + 1, 0 + n)
    BY <1>1
  <1> HIDE DEF u
  <1>3. u \in Seq(RecvUnit) /\ Len(u) = n /\ \A i \in 1..n : u[i] = <<c, i>>
    <2>1. u \in Seq(RecvUnit) /\ Len(u) = n /\ \A i \in 1..n : u[i] = <<c, 0 + i>>
      BY ONLY <1>2, UnitsAre, c \in Conns, n \in Nat, 0 \in Nat
    <2> QED BY <1>1, <2>1
  <1>4. Recv!InOrder(u)
    <2>1. DOMAIN u = 1..n
      BY <1>3
    <2> SUFFICES ASSUME NEW i \in 1..n PROVE u[i] = <<u[1][1], i>>
      BY <2>1 DEF Recv!InOrder
    <2>2. u[1] = <<c, 1>>
      BY <1>3
    <2> QED BY <1>3, <2>2
  <1> QED BY <1>3, <1>4 DEF u

LEMMA UnitsJoin ==
  ASSUME NEW c \in Conns, NEW a \in Nat, NEW b \in Nat
  PROVE  Recv!Units(c, 1, a) \o Recv!Units(c, a + 1, a + b) = Recv!Units(c, 1, a + b)
  <1> DEFINE u == Recv!Units(c, 1, a)
             w == Recv!Units(c, a + 1, a + b)
             x == Recv!Units(c, 1, a + b)
  <1>1. u \in Seq(RecvUnit) /\ Len(u) = a /\ \A i \in 1..a : u[i] = <<c, i>>
    BY UnitsFirst
  <1>2. w \in Seq(RecvUnit) /\ Len(w) = b /\ \A i \in 1..b : w[i] = <<c, a + i>>
    BY UnitsAre
  <1>3. x \in Seq(RecvUnit) /\ Len(x) = a + b /\ \A i \in 1..(a + b) : x[i] = <<c, i>>
    <2>1. a + b \in Nat
      OBVIOUS
    <2> QED BY <2>1, UnitsFirst
  <1> HIDE DEF u, w, x
  <1>4. /\ (u \o w) \in Seq(RecvUnit) /\ Len(u \o w) = a + b
        /\ \A i \in 1..(a + b) : (u \o w)[i] = (IF i <= a THEN u[i] ELSE w[i - a])
    <2>1. u \in Seq(RecvUnit) /\ w \in Seq(RecvUnit)
      BY <1>1, <1>2
    <2>2. /\ u \o w \in Seq(RecvUnit) /\ Len(u \o w) = Len(u) + Len(w)
          /\ \A i \in 1..(Len(u) + Len(w)) :
               (u \o w)[i] = (IF i <= Len(u) THEN u[i] ELSE w[i - Len(u)])
      BY ONLY <2>1, ConcatProperties
    <2> QED BY <1>1, <1>2, <2>2
  <1>5. ASSUME NEW i \in 1..(a + b) PROVE (u \o w)[i] = x[i]
    <2>0. i \in Nat /\ i >= 1 /\ i <= a + b /\ (i <= a \/ i > a)
      OBVIOUS
    <2>1. CASE i <= a
      <3>1. (u \o w)[i] = u[i]
        BY <1>4, <2>0, <2>1
      <3>2. i \in 1..a
        BY <2>0, <2>1
      <3>3. u[i] = <<c, i>>
        BY <1>1, <3>2
      <3>4. x[i] = <<c, i>>
        BY <1>3
      <3> QED BY <3>1, <3>3, <3>4
    <2>2. CASE i > a
      <3>1. (u \o w)[i] = w[i - a]
        BY <1>4, <2>0, <2>2
      <3>2. i - a \in 1..b /\ a + (i - a) = i
        BY <2>2
      <3>3. w[i - a] = <<c, i>>
        BY <1>2, <3>2
      <3>4. x[i] = <<c, i>>
        BY <1>3
      <3> QED BY <3>1, <3>3, <3>4
    <2> QED BY <2>0, <2>1, <2>2
  <1>6. u \o w = x
    BY <1>3, <1>4, <1>5, SeqEqual
  <1> QED BY <1>6 DEF u, w, x

LEMMA RecvStarts == ASSUME Recv!Init PROVE RecvInv
  <1>1. /\ v2 \in [Conns -> Requests] /\ v3 = [c \in Conns |-> 0] /\ v4 = [c \in Conns |-> 0]
        /\ v5 = 0 /\ v6 = 0 /\ v7 = [size |-> 0, units |-> <<>>] /\ v8 = NoConn /\ v9 = FALSE
        /\ v10 = <<>> /\ v11 = FALSE /\ v12 = 0 /\ v13 = [c \in Conns |-> FALSE]
        /\ v14 = [c \in Conns |-> 0] /\ v15 = FALSE
    BY DEF Recv!Init, Recv!NoBuffer
  <1>2. <<>> \in Seq(RecvUnit) /\ DOMAIN <<>> = {}
    BY EmptySeq
  <1>3. RecvTyped
    BY <1>1, <1>2 DEF RecvTyped
  <1>4. RecvSent
    BY <1>1, ReceiveAssumption DEF RecvSent
  <1>5. Recv!DeliveredInOrder
    BY <1>1, <1>2 DEF Recv!DeliveredInOrder, Recv!InOrder
  <1>6. RecvUnderWay /\ \A c \in Conns : RecvTaken(c)
    BY <1>1 DEF RecvUnderWay, RecvTaken
  <1> QED BY <1>3, <1>4, <1>5, <1>6 DEF RecvInv

\* What a packet does to the connections it is not of.
LEMMA RecvOthers ==
  ASSUME NEW d, RecvTaken(d), UNCHANGED <<v2, v15>>, v3'[d] = v3[d], v13'[d] = v13[d],
         v14'[d] = v14[d], v5 = 0 \/ v8 # d \/ UNCHANGED <<v5, v8>>
  PROVE  RecvTaken(d)'
  BY DEF RecvTaken, Recv!Whole

\* What a packet is made of, and what its connection has sent then.
RecvPacket(c, k) ==
  /\ v4[c] > 0 /\ v3[c] + k <= v2[c].size
  /\ v3' = [v3 EXCEPT ![c] = @ + k]
  /\ UNCHANGED <<v2, v4>>

LEMMA RecvFacts ==
  ASSUME RecvTyped, RecvSent, NEW c \in Conns, NEW k \in Nat \ {0}, RecvPacket(c, k)
  PROVE  /\ v2[c].size \in Nat \ {0} /\ v2[c].streams \in BOOLEAN
         /\ v3[c] \in Nat /\ v4[c] \in Nat /\ v3'[c] = v3[c] + k /\ v2'[c] = v2[c]
         /\ v3' \in [Conns -> Nat] /\ RecvSent'
         /\ \A d \in Conns \ {c} : v3'[d] = v3[d]
  <1>1. v2[c] \in [size : Nat \ {0}, streams : BOOLEAN]
    BY ReceiveAssumption DEF RecvTyped
  <1>2. v3 \in [Conns -> Nat] /\ v4 \in [Conns -> Nat]
    BY DEF RecvTyped
  <1>3. v3'[c] = v3[c] + k /\ \A d \in Conns \ {c} : v3'[d] = v3[d]
    BY <1>2 DEF RecvPacket
  <1>4. v3' \in [Conns -> Nat]
    BY <1>2 DEF RecvPacket
  <1>5. RecvSent'
    BY <1>3 DEF RecvPacket, RecvSent
  <1> QED BY <1>1, <1>2, <1>3, <1>4, <1>5 DEF RecvPacket

\* A packet that begins a request with its header: the request is short, or is
\* collected, or is handled as it comes.
LEMMA RecvHeader ==
  ASSUME RecvInv, NEW c \in Conns, NEW k \in Nat \ {0}, RecvPacket(c, k), v3[c] = 0, v5 = 0,
         Recv!First(c, Recv!Units(c, 1, k))
  PROVE  RecvInv'
  <1> DEFINE u == Recv!Units(c, 1, k)
             n == v2[c].size
  <1>0. /\ RecvTyped /\ RecvSent /\ Recv!DeliveredInOrder /\ RecvUnderWay
        /\ \A d \in Conns : RecvTaken(d)
    BY DEF RecvInv
  <1>1. /\ n \in Nat \ {0} /\ v2[c].streams \in BOOLEAN /\ v4[c] \in Nat /\ v3'[c] = k
        /\ v3' \in [Conns -> Nat] /\ RecvSent' /\ \A d \in Conns \ {c} : v3'[d] = v3[d]
    BY <1>0, RecvFacts
  <1>2. k <= n /\ v4[c] > 0 /\ UNCHANGED <<v2, v4>>
    BY <1>1 DEF RecvPacket
  <1>3. u \in Seq(RecvUnit) /\ Len(u) = k /\ u[1] = <<c, 1>> /\ Recv!InOrder(u) /\ u # <<>>
    <2>1. u \in Seq(RecvUnit) /\ Len(u) = k /\ \A i \in 1..k : u[i] = <<c, i>> /\ Recv!InOrder(u)
      BY UnitsFirst
    <2>2. 1 \in 1..k /\ Len(<<>>) = 0
      BY EmptySeq
    <2> QED BY <2>1, <2>2
  <1> HIDE DEF u
  <1>4. u[1][2] = 1
    BY <1>3
  <1>5. ~ v13[c] /\ v14[c] = 0
    BY <1>0, <1>1 DEF RecvTaken, RecvTyped
  <1>6. /\ Recv!Take(c, u, n, Recv!Buffer(n, u), 0)
        /\ v8' = c /\ v13' = [v13 EXCEPT ![c] = @ \/ u[1][2] = 1] /\ v15' = v15
    BY <1>4 DEF Recv!First, Recv!TotalLen, u
  <1>7. v13' \in [Conns -> BOOLEAN] /\ v13'[c] = TRUE /\ \A d \in Conns \ {c} : v13'[d] = v13[d]
    BY <1>0, <1>4, <1>6 DEF RecvTyped
  <1>8. v5' = n - k /\ v6' = 1
    BY <1>3, <1>6 DEF Recv!Take, Recv!Left
  <1>9. CASE n # k /\ n < MaxPacket
    <2>1. Recv!Buffer(n, u) = [size |-> n, units |-> <<>>]
      BY <1>3, <1>9 DEF Recv!Buffer
    <2>2. <<>> \o u = u
      BY <1>3
    <2>3. v7' = [size |-> n, units |-> u] /\ UNCHANGED <<v9, v10, v11, v12, v14>>
      <3> DEFINE b == Recv!Buffer(n, u)
      <3>1. b.size = n /\ b.units = <<>> /\ [b EXCEPT !.units = u] = [size |-> n, units |-> u]
        BY <2>1
      <3>2. b.size # 0 /\ v5' # 0
        BY <1>1, <1>2, <1>8, <1>9, <3>1
      <3> HIDE DEF b, u, n
      <3>3. Recv!Take(c, u, n, b, 0)
        BY <1>6 DEF b
      <3> QED BY <2>2, <3>1, <3>2, <3>3 DEF Recv!Take
    <2>4. RecvTyped'
      <3>1. v2' \in [Conns -> Requests] /\ v3' \in [Conns -> Nat] /\ v4' \in [Conns -> Nat]
        BY <1>0, <1>1, <1>2, <1>3, <1>6, <1>7, <1>8, <2>3 DEF RecvTyped
      <3>2. v5' \in Nat /\ v6' \in Nat /\ v8' \in Conns \cup {NoConn} /\ v15' \in BOOLEAN
        BY <1>0, <1>1, <1>2, <1>3, <1>6, <1>7, <1>8, <2>3 DEF RecvTyped
      <3>3. v7' \in [size : Nat, units : Seq(RecvUnit)]
        BY <1>0, <1>1, <1>2, <1>3, <1>6, <1>7, <1>8, <2>3 DEF RecvTyped
      <3>4. v9' \in BOOLEAN /\ v10' \in Seq(RecvUnit) /\ v11' \in BOOLEAN /\ v12' \in Nat
        BY <1>0, <1>1, <1>2, <1>3, <1>6, <1>7, <1>8, <2>3 DEF RecvTyped
      <3>5. v13' \in [Conns -> BOOLEAN] /\ v14' \in [Conns -> Nat]
        BY <1>0, <1>1, <1>2, <1>3, <1>6, <1>7, <1>8, <2>3 DEF RecvTyped
      <3> QED BY ONLY <3>1, <3>2, <3>3, <3>4, <3>5 DEF RecvTyped
    <2>5. Recv!DeliveredInOrder'
      BY <1>0, <2>3 DEF Recv!DeliveredInOrder, Recv!InOrder
    <2>6. RecvUnderWay'
      BY <1>1, <1>2, <1>5, <1>6, <1>7, <1>8, <1>9, <2>3
         DEF RecvUnderWay, RecvBuffered, RecvStreamed, u
    <2>7. RecvTaken(c)'
      BY <1>1, <1>2, <1>6, <1>7, <1>8, <1>9 DEF RecvTaken, Recv!Whole
    <2>8. ASSUME NEW d \in Conns \ {c} PROVE RecvTaken(d)'
      BY <1>0, <1>1, <1>2, <1>6, <1>7, <2>3, RecvOthers
    <2> QED BY <1>1, <2>4, <2>5, <2>6, <2>7, <2>8 DEF RecvInv
  <1>10. CASE n = k \/ n >= MaxPacket
    <2>1. Recv!Buffer(n, u) = Recv!NoBuffer
      BY <1>1, <1>3, <1>10, ReceiveAssumption DEF Recv!Buffer
    <2>2. v7' = Recv!NoBuffer /\ Recv!WebserverRequest(c, u, 0, Len(u) = n)
      BY <1>6, <2>1 DEF Recv!Take, Recv!NoBuffer
    <2>3. /\ v9' = v2[c].streams /\ v10' = u /\ v11' = (k = n) /\ v12' = n
          /\ v14' = [v14 EXCEPT ![c] = @ + k]
      BY <1>3, <1>4, <2>2 DEF Recv!WebserverRequest
    <2>4. v14' \in [Conns -> Nat] /\ v14'[c] = k /\ \A d \in Conns \ {c} : v14'[d] = v14[d]
      BY <1>0, <1>5, <2>3 DEF RecvTyped
    <2>5. v11' \in BOOLEAN /\ (v11' <=> k = n)
      BY <2>3, Zenon
    <2>6. v7' \in [size : Nat, units : Seq(RecvUnit)] /\ v7'.size = 0
      BY <2>2, EmptySeq DEF Recv!NoBuffer
    <2>7. RecvTyped'
      <3>1. v2' \in [Conns -> Requests] /\ v3' \in [Conns -> Nat] /\ v4' \in [Conns -> Nat]
        BY <1>0, <1>1, <1>2, <1>3, <1>6, <1>7, <1>8, <2>3, <2>4, <2>5, <2>6 DEF RecvTyped
      <3>2. v5' \in Nat /\ v6' \in Nat /\ v8' \in Conns \cup {NoConn} /\ v15' \in BOOLEAN
        BY <1>0, <1>1, <1>2, <1>3, <1>6, <1>7, <1>8, <2>3, <2>4, <2>5, <2>6 DEF RecvTyped
      <3>3. v7' \in [size : Nat, units : Seq(RecvUnit)]
        BY <1>0, <1>1, <1>2, <1>3, <1>6, <1>7, <1>8, <2>3, <2>4, <2>5, <2>6 DEF RecvTyped
      <3>4. v9' \in BOOLEAN /\ v10' \in Seq(RecvUnit) /\ v11' \in BOOLEAN /\ v12' \in Nat
        BY <1>0, <1>1, <1>2, <1>3, <1>6, <1>7, <1>8, <2>3, <2>4, <2>5, <2>6 DEF RecvTyped
      <3>5. v13' \in [Conns -> BOOLEAN] /\ v14' \in [Conns -> Nat]
        BY <1>0, <1>1, <1>2, <1>3, <1>6, <1>7, <1>8, <2>3, <2>4, <2>5, <2>6 DEF RecvTyped
      <3> QED BY ONLY <3>1, <3>2, <3>3, <3>4, <3>5 DEF RecvTyped
    <2>8. Recv!DeliveredInOrder'
      BY <1>1, <1>3, <2>3, <2>5 DEF Recv!DeliveredInOrder, Recv!InOrder
    <2>9. RecvUnderWay'
      BY <1>1, <1>2, <1>6, <1>7, <1>8, <1>10, <2>3, <2>4, <2>5, <2>6
         DEF RecvUnderWay, RecvBuffered, RecvStreamed, u
    <2>10. RecvTaken(c)'
      BY <1>1, <1>2, <1>6, <1>7, <1>8, <2>4 DEF RecvTaken, Recv!Whole
    <2>11. ASSUME NEW d \in Conns \ {c} PROVE RecvTaken(d)'
      BY <1>0, <1>1, <1>2, <1>6, <1>7, <2>4, RecvOthers
    <2> QED BY <1>1, <2>7, <2>8, <2>9, <2>10, <2>11 DEF RecvInv
  <1> QED BY <1>1, <1>9, <1>10, ReceiveAssumption

\* A packet without a header, when none is under way, is handled as one and refused.
LEMMA RecvStray ==
  ASSUME RecvInv, NEW c \in Conns, NEW k \in Nat \ {0}, RecvPacket(c, k), v3[c] # 0, v5 = 0,
         Recv!First(c, Recv!Units(c, v3[c] + 1, v3[c] + k))
  PROVE  RecvInv'
  <1> DEFINE u == Recv!Units(c, v3[c] + 1, v3[c] + k)
             n == v2[c].size
  <1>0. /\ RecvTyped /\ RecvSent /\ Recv!DeliveredInOrder /\ RecvUnderWay
        /\ \A d \in Conns : RecvTaken(d)
    BY DEF RecvInv
  <1>1. /\ n \in Nat \ {0} /\ v4[c] \in Nat /\ v3[c] \in Nat /\ v3'[c] = v3[c] + k
        /\ v3' \in [Conns -> Nat] /\ RecvSent' /\ \A d \in Conns \ {c} : v3'[d] = v3[d]
    BY <1>0, RecvFacts
  <1>2. v3[c] + k <= n /\ UNCHANGED <<v2, v4>>
    BY <1>1 DEF RecvPacket
  <1>3. u \in Seq(RecvUnit) /\ Len(u) = k /\ u[1][2] # 1
    <2>1. u \in Seq(RecvUnit) /\ Len(u) = k /\ \A i \in 1..k : u[i] = <<c, v3[c] + i>>
      BY <1>1, UnitsAre
    <2>2. u[1] = <<c, v3[c] + 1>>
      BY <2>1
    <2> QED BY <1>1, <2>1, <2>2
  <1> HIDE DEF u
  <1>4. /\ Recv!Take(c, u, k, Recv!Buffer(k, u), 0)
        /\ v8' = c /\ v13' = [v13 EXCEPT ![c] = @ \/ u[1][2] = 1] /\ v15' = v15
    BY <1>3 DEF Recv!First, Recv!TotalLen, u
  <1>5. Recv!Buffer(k, u) = Recv!NoBuffer
    BY <1>3 DEF Recv!Buffer
  <1>6. v5' = 0 /\ v6' = 1
    BY <1>3, <1>4 DEF Recv!Take, Recv!Left
  <1>7. v7' = Recv!NoBuffer /\ Recv!WebserverRequest(c, u, 0, Len(u) = k)
    BY <1>4, <1>5 DEF Recv!Take, Recv!NoBuffer
  <1>8. v9' = FALSE /\ UNCHANGED <<v10, v11, v12, v14>>
    BY <1>3, <1>7 DEF Recv!WebserverRequest
  <1>9. v13' = v13
    <2>1. v13[c] \in BOOLEAN /\ v13 \in [Conns -> BOOLEAN]
      BY <1>0 DEF RecvTyped
    <2>2. (v13[c] \/ u[1][2] = 1) = v13[c]
      BY <1>3, <2>1, Zenon
    <2> QED BY <1>4, <2>1, <2>2
  <1>10. v7' \in [size : Nat, units : Seq(RecvUnit)] /\ v7'.size = 0
    BY <1>7, EmptySeq DEF Recv!NoBuffer
  <1>11. RecvTyped'
    <2>1. v2' \in [Conns -> Requests] /\ v3' \in [Conns -> Nat] /\ v4' \in [Conns -> Nat]
      BY <1>0, <1>1, <1>2, <1>4, <1>6, <1>8, <1>9, <1>10 DEF RecvTyped
    <2>2. v5' \in Nat /\ v6' \in Nat /\ v8' \in Conns \cup {NoConn} /\ v15' \in BOOLEAN
      BY <1>0, <1>1, <1>2, <1>4, <1>6, <1>8, <1>9, <1>10 DEF RecvTyped
    <2>3. v7' \in [size : Nat, units : Seq(RecvUnit)]
      BY <1>0, <1>1, <1>2, <1>4, <1>6, <1>8, <1>9, <1>10 DEF RecvTyped
    <2>4. v9' \in BOOLEAN /\ v10' \in Seq(RecvUnit) /\ v11' \in BOOLEAN /\ v12' \in Nat
      BY <1>0, <1>1, <1>2, <1>4, <1>6, <1>8, <1>9, <1>10 DEF RecvTyped
    <2>5. v13' \in [Conns -> BOOLEAN] /\ v14' \in [Conns -> Nat]
      BY <1>0, <1>1, <1>2, <1>4, <1>6, <1>8, <1>9, <1>10 DEF RecvTyped
    <2> QED BY ONLY <2>1, <2>2, <2>3, <2>4, <2>5 DEF RecvTyped
  <1>12. Recv!DeliveredInOrder'
    BY <1>0, <1>8 DEF Recv!DeliveredInOrder, Recv!InOrder
  <1>13. RecvUnderWay'
    BY <1>6, <1>10 DEF RecvUnderWay
  <1>14. RecvTaken(c)'
    <2>1. v15 \/ ~ v13[c]
      BY <1>0, <1>1, <1>2 DEF RecvTaken
    <2> QED BY <1>0, <1>1, <1>4, <1>8, <1>9, <2>1 DEF RecvTaken
  <1>15. ASSUME NEW d \in Conns \ {c} PROVE RecvTaken(d)'
    BY <1>0, <1>1, <1>2, <1>4, <1>8, <1>9, RecvOthers
  <1> QED BY <1>1, <1>11, <1>12, <1>13, <1>14, <1>15 DEF RecvInv

\* The next packet of a request that is collected.
LEMMA RecvCollected ==
  ASSUME RecvInv, NEW c \in Conns, NEW k \in Nat \ {0}, RecvPacket(c, k), v5 # 0, v7.size # 0,
         Recv!Later(c, Recv!Units(c, v3[c] + 1, v3[c] + k))
  PROVE  RecvInv'
  <1> DEFINE u == Recv!Units(c, v3[c] + 1, v3[c] + k)
             all == Recv!Units(c, 1, v3[c] + k)
             n == v2[c].size
  <1>0. /\ RecvTyped /\ RecvSent /\ Recv!DeliveredInOrder /\ RecvUnderWay
        /\ \A d \in Conns : RecvTaken(d)
    BY DEF RecvInv
  <1>1. /\ n \in Nat \ {0} /\ v2[c].streams \in BOOLEAN /\ v4[c] \in Nat /\ v3[c] \in Nat
        /\ v3'[c] = v3[c] + k
        /\ v3' \in [Conns -> Nat] /\ RecvSent' /\ \A d \in Conns \ {c} : v3'[d] = v3[d]
    BY <1>0, RecvFacts
  <1>2. v3[c] + k <= n /\ v4[c] > 0 /\ UNCHANGED <<v2, v4>>
    BY <1>1 DEF RecvPacket
  <1>3. Len(u) = k
    BY <1>1, UnitsAre
  <1>4. /\ v8 = c /\ Recv!Take(c, u, v5, v7, v6) /\ UNCHANGED <<v8, v13, v15>>
    BY DEF Recv!Later, Recv!Match
  <1>5. /\ v13[c] /\ v3[c] > 0 /\ v5 = n - v3[c] /\ v14[c] = 0
        /\ v7 = [size |-> n, units |-> Recv!Units(c, 1, v3[c])]
    BY <1>0, <1>4 DEF RecvUnderWay, RecvBuffered
  <1>6. v7.units \o u = all
    <2>1. v7.units = Recv!Units(c, 1, v3[c])
      BY <1>5
    <2> QED BY <1>1, <2>1, UnitsJoin
  <1>7. /\ all \in Seq(RecvUnit) /\ Len(all) = v3[c] + k /\ all[1] = <<c, 1>>
        /\ Recv!InOrder(all) /\ all # <<>>
    <2>1. PICK m \in Nat : m = v3[c] + k /\ 1 \in 1..m
      BY <1>1
    <2> DEFINE w == Recv!Units(c, 1, m)
    <2>2. all = w
      BY <2>1
    <2>3. w \in Seq(RecvUnit) /\ Len(w) = m /\ (\A i \in 1..m : w[i] = <<c, i>>) /\ Recv!InOrder(w)
      BY ONLY UnitsFirst, c \in Conns, m \in Nat
    <2> HIDE DEF w, all
    <2> QED BY <2>1, <2>2, <2>3, EmptySeq
  <1> HIDE DEF u, all
  <1>8. v5' = n - (v3[c] + k) /\ v6' = v6 + 1
    BY <1>1, <1>3, <1>4, <1>5 DEF Recv!Take, Recv!Left
  <1>9. v5' \in Nat /\ v6' \in Nat
    <2>1. v6 \in Nat
      BY <1>0 DEF RecvTyped
    <2> QED BY <1>1, <1>2, <1>8, <2>1
  <1>10. CASE v5' # 0
    <2>1. v7' = [v7 EXCEPT !.units = all] /\ UNCHANGED <<v9, v10, v11, v12, v14>>
      BY <1>4, <1>6, <1>10 DEF Recv!Take
    <2>2. v7' = [size |-> n, units |-> all]
      BY <1>5, <2>1
    <2>3. RecvTyped'
      <3>1. v7' \in [size : Nat, units : Seq(RecvUnit)]
        BY <1>1, <1>7, <2>2
      <3> QED BY <1>0, <1>1, <1>2, <1>4, <1>9, <2>1, <3>1 DEF RecvTyped
    <2>4. Recv!DeliveredInOrder'
      BY <1>0, <2>1 DEF Recv!DeliveredInOrder, Recv!InOrder
    <2>5. RecvUnderWay'
      BY <1>1, <1>2, <1>4, <1>5, <1>8, <1>10, <2>1, <2>2
         DEF RecvUnderWay, RecvBuffered, RecvStreamed, all
    <2>6. RecvTaken(c)'
      BY <1>1, <1>2, <1>4, <1>5, <1>8, <1>10 DEF RecvTaken, Recv!Whole
    <2>7. ASSUME NEW d \in Conns \ {c} PROVE RecvTaken(d)'
      BY <1>0, <1>1, <1>2, <1>4, <2>1, RecvOthers
    <2> QED BY <1>1, <2>3, <2>4, <2>5, <2>6, <2>7 DEF RecvInv
  <1>11. CASE v5' = 0
    <2>1. v7' = Recv!NoBuffer /\ Recv!WebserverRequest(c, all, 0, TRUE)
      BY <1>4, <1>6, <1>11 DEF Recv!Take
    <2>2. v3[c] + k = n
      BY <1>1, <1>8, <1>11
    <2>3. /\ v9' = v2[c].streams /\ v10' = all /\ v11' = TRUE /\ v12' = n
          /\ v14' = [v14 EXCEPT ![c] = @ + n]
      BY <1>7, <2>1, <2>2 DEF Recv!WebserverRequest
    <2>4. v14' \in [Conns -> Nat] /\ v14'[c] = n /\ \A d \in Conns \ {c} : v14'[d] = v14[d]
      BY <1>0, <1>1, <1>5, <2>3 DEF RecvTyped
    <2>5. v7' \in [size : Nat, units : Seq(RecvUnit)] /\ v7'.size = 0
      BY <2>1, EmptySeq DEF Recv!NoBuffer
    <2>6. RecvTyped'
      <3>1. v2' \in [Conns -> Requests] /\ v3' \in [Conns -> Nat] /\ v4' \in [Conns -> Nat]
        BY <1>0, <1>1, <1>2, <1>4, <1>7, <1>9, <2>3, <2>4, <2>5 DEF RecvTyped
      <3>2. v5' \in Nat /\ v6' \in Nat /\ v8' \in Conns \cup {NoConn} /\ v15' \in BOOLEAN
        BY <1>0, <1>1, <1>2, <1>4, <1>7, <1>9, <2>3, <2>4, <2>5 DEF RecvTyped
      <3>3. v7' \in [size : Nat, units : Seq(RecvUnit)]
        BY <1>0, <1>1, <1>2, <1>4, <1>7, <1>9, <2>3, <2>4, <2>5 DEF RecvTyped
      <3>4. v9' \in BOOLEAN /\ v10' \in Seq(RecvUnit) /\ v11' \in BOOLEAN /\ v12' \in Nat
        BY <1>0, <1>1, <1>2, <1>4, <1>7, <1>9, <2>3, <2>4, <2>5 DEF RecvTyped
      <3>5. v13' \in [Conns -> BOOLEAN] /\ v14' \in [Conns -> Nat]
        BY <1>0, <1>1, <1>2, <1>4, <1>7, <1>9, <2>3, <2>4, <2>5 DEF RecvTyped
      <3> QED BY ONLY <3>1, <3>2, <3>3, <3>4, <3>5 DEF RecvTyped
    <2>7. Recv!DeliveredInOrder'
      BY <1>7, <2>2, <2>3 DEF Recv!DeliveredInOrder, Recv!InOrder
    <2>8. RecvUnderWay'
      BY <1>11, <2>5 DEF RecvUnderWay
    <2>9. RecvTaken(c)'
      BY <1>1, <1>2, <1>4, <1>5, <2>2, <2>4 DEF RecvTaken, Recv!Whole
    <2>10. ASSUME NEW d \in Conns \ {c} PROVE RecvTaken(d)'
      BY <1>0, <1>1, <1>2, <1>4, <2>4, RecvOthers
    <2> QED BY <1>1, <2>6, <2>7, <2>8, <2>9, <2>10 DEF RecvInv
  <1> QED BY <1>10, <1>11

\* The next packet of a request that is not collected goes to its callback, if its
\* handler registered one.
LEMMA RecvChunk ==
  ASSUME RecvInv, NEW c \in Conns, NEW k \in Nat \ {0}, RecvPacket(c, k), v5 # 0, v7.size = 0,
         Recv!Later(c, Recv!Units(c, v3[c] + 1, v3[c] + k))
  PROVE  RecvInv'
  <1> DEFINE u == Recv!Units(c, v3[c] + 1, v3[c] + k)
             all == Recv!Units(c, 1, v3[c] + k)
             n == v2[c].size
  <1>0. /\ RecvTyped /\ RecvSent /\ Recv!DeliveredInOrder /\ RecvUnderWay
        /\ \A d \in Conns : RecvTaken(d)
    BY DEF RecvInv
  <1>1. /\ n \in Nat \ {0} /\ v2[c].streams \in BOOLEAN /\ v4[c] \in Nat /\ v3[c] \in Nat
        /\ v3'[c] = v3[c] + k
        /\ v3' \in [Conns -> Nat] /\ RecvSent' /\ \A d \in Conns \ {c} : v3'[d] = v3[d]
    BY <1>0, RecvFacts
  <1>2. v3[c] + k <= n /\ v4[c] > 0 /\ UNCHANGED <<v2, v4>>
    BY <1>1 DEF RecvPacket
  <1>3. Len(u) = k
    BY <1>1, UnitsAre
  <1>4. /\ v8 = c /\ Recv!Take(c, u, v5, v7, v6) /\ UNCHANGED <<v8, v13, v15>>
    BY DEF Recv!Later, Recv!Match
  <1>5. /\ v13[c] /\ v3[c] > 0 /\ v5 = n - v3[c] /\ v6 # 0 /\ (v9 <=> v2[c].streams)
        /\ IF v9 THEN v10 = Recv!Units(c, 1, v3[c]) /\ ~ v11 /\ v12 = n /\ v14[c] = v3[c]
                 ELSE n >= MaxPacket
    BY <1>0, <1>4 DEF RecvUnderWay, RecvStreamed
  <1>6. /\ all \in Seq(RecvUnit) /\ Len(all) = v3[c] + k /\ all[1] = <<c, 1>>
        /\ Recv!InOrder(all) /\ all # <<>>
    <2>1. PICK m \in Nat : m = v3[c] + k /\ 1 \in 1..m
      BY <1>1
    <2> DEFINE w == Recv!Units(c, 1, m)
    <2>2. all = w
      BY <2>1
    <2>3. w \in Seq(RecvUnit) /\ Len(w) = m /\ (\A i \in 1..m : w[i] = <<c, i>>) /\ Recv!InOrder(w)
      BY ONLY UnitsFirst, c \in Conns, m \in Nat
    <2> HIDE DEF w, all
    <2> QED BY <2>1, <2>2, <2>3, EmptySeq
  <1>7. v9 => v10 \o u = all
    <2>1. Recv!Units(c, 1, v3[c]) \o u = all
      BY <1>1, UnitsJoin
    <2> QED BY <1>5, <2>1
  <1> HIDE DEF u, all
  <1>8. v5' = n - (v3[c] + k) /\ v6' = v6 + 1
    BY <1>1, <1>3, <1>4, <1>5 DEF Recv!Take, Recv!Left
  <1>9. v5' \in Nat /\ v6' \in Nat /\ v6' # 0
    <2>1. v6 \in Nat
      BY <1>0 DEF RecvTyped
    <2> QED BY <1>1, <1>2, <1>8, <2>1
  <1>10. v7' = Recv!NoBuffer /\ Recv!WebserverRequest(c, u, v6, Len(u) = v5)
    BY <1>4 DEF Recv!Take
  <1>11. v7' \in [size : Nat, units : Seq(RecvUnit)] /\ v7'.size = 0
    BY <1>10, EmptySeq DEF Recv!NoBuffer
  <1>12. CASE v9
    <2>1. /\ v9' = v9 /\ v10' = v10 \o u /\ v11' = (k = v5) /\ v12' = v12
          /\ v14' = [v14 EXCEPT ![c] = @ + k]
      BY <1>3, <1>5, <1>10, <1>12 DEF Recv!WebserverRequest
    <2>2. v10' = all /\ v12' = n
      BY <1>5, <1>7, <1>12, <2>1
    <2>3. v11' \in BOOLEAN /\ (v11' <=> k = v5)
      BY <2>1, Zenon
    <2>4. k = v5 <=> v5' = 0
      BY <1>1, <1>5, <1>8
    <2>5. /\ v14' \in [Conns -> Nat] /\ v14'[c] = v3[c] + k
          /\ \A d \in Conns \ {c} : v14'[d] = v14[d]
      BY <1>0, <1>1, <1>5, <1>12, <2>1 DEF RecvTyped
    <2>6. RecvTyped'
      <3>1. v2' \in [Conns -> Requests] /\ v3' \in [Conns -> Nat] /\ v4' \in [Conns -> Nat]
        BY <1>0, <1>1, <1>2, <1>4, <1>6, <1>9, <1>11, <2>1, <2>2, <2>3, <2>5 DEF RecvTyped
      <3>2. v5' \in Nat /\ v6' \in Nat /\ v8' \in Conns \cup {NoConn} /\ v15' \in BOOLEAN
        BY <1>0, <1>1, <1>2, <1>4, <1>6, <1>9, <1>11, <2>1, <2>2, <2>3, <2>5 DEF RecvTyped
      <3>3. v7' \in [size : Nat, units : Seq(RecvUnit)]
        BY <1>0, <1>1, <1>2, <1>4, <1>6, <1>9, <1>11, <2>1, <2>2, <2>3, <2>5 DEF RecvTyped
      <3>4. v9' \in BOOLEAN /\ v10' \in Seq(RecvUnit) /\ v11' \in BOOLEAN /\ v12' \in Nat
        BY <1>0, <1>1, <1>2, <1>4, <1>6, <1>9, <1>11, <2>1, <2>2, <2>3, <2>5 DEF RecvTyped
      <3>5. v13' \in [Conns -> BOOLEAN] /\ v14' \in [Conns -> Nat]
        BY <1>0, <1>1, <1>2, <1>4, <1>6, <1>9, <1>11, <2>1, <2>2, <2>3, <2>5 DEF RecvTyped
      <3> QED BY ONLY <3>1, <3>2, <3>3, <3>4, <3>5 DEF RecvTyped
    <2>7. Recv!DeliveredInOrder'
      <3>1. v11' <=> Len(v10') = v12'
        BY <1>1, <1>6, <1>8, <2>2, <2>3, <2>4
      <3> QED BY <1>6, <2>2, <3>1 DEF Recv!DeliveredInOrder, Recv!InOrder
    <2>8. RecvUnderWay'
      BY <1>1, <1>2, <1>4, <1>5, <1>8, <1>9, <1>11, <1>12, <2>1, <2>2, <2>3, <2>4, <2>5
         DEF RecvUnderWay, RecvBuffered, RecvStreamed, all
    <2>9. RecvTaken(c)'
      BY <1>1, <1>2, <1>4, <1>5, <1>8, <2>5 DEF RecvTaken, Recv!Whole
    <2>10. ASSUME NEW d \in Conns \ {c} PROVE RecvTaken(d)'
      BY <1>0, <1>1, <1>2, <1>4, <2>5, RecvOthers
    <2> QED BY <1>1, <2>6, <2>7, <2>8, <2>9, <2>10 DEF RecvInv
  <1>13. CASE ~ v9
    <2>1. UNCHANGED <<v9, v10, v11, v12, v14>>
      BY <1>5, <1>10, <1>13 DEF Recv!WebserverRequest
    <2>2. RecvTyped'
      <3>1. v2' \in [Conns -> Requests] /\ v3' \in [Conns -> Nat] /\ v4' \in [Conns -> Nat]
        BY <1>0, <1>1, <1>2, <1>4, <1>9, <1>11, <2>1 DEF RecvTyped
      <3>2. v5' \in Nat /\ v6' \in Nat /\ v8' \in Conns \cup {NoConn} /\ v15' \in BOOLEAN
        BY <1>0, <1>1, <1>2, <1>4, <1>9, <1>11, <2>1 DEF RecvTyped
      <3>3. v7' \in [size : Nat, units : Seq(RecvUnit)]
        BY <1>0, <1>1, <1>2, <1>4, <1>9, <1>11, <2>1 DEF RecvTyped
      <3>4. v9' \in BOOLEAN /\ v10' \in Seq(RecvUnit) /\ v11' \in BOOLEAN /\ v12' \in Nat
        BY <1>0, <1>1, <1>2, <1>4, <1>9, <1>11, <2>1 DEF RecvTyped
      <3>5. v13' \in [Conns -> BOOLEAN] /\ v14' \in [Conns -> Nat]
        BY <1>0, <1>1, <1>2, <1>4, <1>9, <1>11, <2>1 DEF RecvTyped
      <3> QED BY ONLY <3>1, <3>2, <3>3, <3>4, <3>5 DEF RecvTyped
    <2>3. Recv!DeliveredInOrder'
      BY <1>0, <2>1 DEF Recv!DeliveredInOrder, Recv!InOrder
    <2>4. RecvUnderWay'
      BY <1>1, <1>2, <1>4, <1>5, <1>8, <1>9, <1>11, <1>13, <2>1
         DEF RecvUnderWay, RecvBuffered, RecvStreamed
    <2>5. RecvTaken(c)'
      BY <1>1, <1>2, <1>4, <1>5, <1>8, <1>13, ReceiveAssumption DEF RecvTaken, Recv!Whole
    <2>6. ASSUME NEW d \in Conns \ {c} PROVE RecvTaken(d)'
      BY <1>0, <1>1, <1>2, <1>4, <2>1, RecvOthers
    <2> QED BY <1>1, <2>2, <2>3, <2>4, <2>5, <2>6 DEF RecvInv
  <1> QED BY <1>12, <1>13

\* A packet of another connection is dropped.
LEMMA RecvDropped ==
  ASSUME RecvInv, NEW c \in Conns, NEW k \in Nat \ {0}, RecvPacket(c, k), Recv!Dropped(c)
  PROVE  RecvInv'
  <1>0. /\ RecvTyped /\ RecvSent /\ Recv!DeliveredInOrder /\ RecvUnderWay
        /\ \A d \in Conns : RecvTaken(d)
    BY DEF RecvInv
  <1>1. /\ v2[c].size \in Nat /\ v3[c] \in Nat /\ v3'[c] = v3[c] + k
        /\ v3' \in [Conns -> Nat] /\ RecvSent' /\ \A d \in Conns \ {c} : v3'[d] = v3[d]
    BY <1>0, RecvFacts
  <1>2. v3[c] + k <= v2[c].size /\ UNCHANGED <<v2, v4>>
    BY <1>1 DEF RecvPacket
  <1>3. v5 # 0 /\ v8 # c /\ UNCHANGED <<v5, v6, v7, v8, v9, v10, v11, v12, v13, v14, v15>>
    BY DEF Recv!Dropped, Recv!Match, Recv!historyVars
  <1>4. RecvTyped'
    <2>1. v2' \in [Conns -> Requests] /\ v3' \in [Conns -> Nat] /\ v4' \in [Conns -> Nat]
      BY <1>0, <1>1, <1>2, <1>3 DEF RecvTyped
    <2>2. v5' \in Nat /\ v6' \in Nat /\ v8' \in Conns \cup {NoConn} /\ v15' \in BOOLEAN
      BY <1>0, <1>1, <1>2, <1>3 DEF RecvTyped
    <2>3. v7' \in [size : Nat, units : Seq(RecvUnit)]
      BY <1>0, <1>1, <1>2, <1>3 DEF RecvTyped
    <2>4. v9' \in BOOLEAN /\ v10' \in Seq(RecvUnit) /\ v11' \in BOOLEAN /\ v12' \in Nat
      BY <1>0, <1>1, <1>2, <1>3 DEF RecvTyped
    <2>5. v13' \in [Conns -> BOOLEAN] /\ v14' \in [Conns -> Nat]
      BY <1>0, <1>1, <1>2, <1>3 DEF RecvTyped
    <2> QED BY ONLY <2>1, <2>2, <2>3, <2>4, <2>5 DEF RecvTyped
  <1>5. Recv!DeliveredInOrder'
    BY <1>0, <1>3 DEF Recv!DeliveredInOrder, Recv!InOrder
  <1>6. RecvUnderWay'
    BY <1>0, <1>1, <1>2, <1>3 DEF RecvUnderWay, RecvBuffered, RecvStreamed
  <1>7. RecvTaken(c)'
    <2>1. v15 \/ ~ v13[c]
      BY <1>0, <1>1, <1>2, <1>3 DEF RecvTaken
    <2> QED BY <1>0, <1>1, <1>3, <2>1 DEF RecvTaken
  <1>8. ASSUME NEW d \in Conns \ {c} PROVE RecvTaken(d)'
    BY <1>0, <1>1, <1>2, <1>3, RecvOthers
  <1> QED BY <1>1, <1>4, <1>5, <1>6, <1>7, <1>8 DEF RecvInv

\* There is a longest request.
LEMMA MaxSizeIs == Recv!MaxSize \in Nat
  <1> DEFINE S == {r.size : r \in Requests}
  <1>1. \E n \in S : \A r \in Requests : r.size <= n
    BY ReceiveAssumption
  <1>2. S \subseteq Nat
    BY ReceiveAssumption
  <1>3. Recv!MaxSize \in S
    BY <1>1 DEF Recv!MaxSize
  <1> QED BY <1>2, <1>3

LEMMA RecvReceives ==
  ASSUME RecvInv, NEW c \in Conns, NEW k \in Nat \ {0}, Recv!Receive(c, k)
  PROVE  RecvInv'
  <1> DEFINE u == Recv!Units(c, v3[c] + 1, v3[c] + k)
  <1>1. RecvPacket(c, k)
    BY DEF Recv!Receive, RecvPacket
  <1>2. Recv!First(c, u) \/ Recv!Later(c, u) \/ Recv!Dropped(c)
    BY DEF Recv!Receive
  <1>3. CASE Recv!First(c, u)
    <2>1. v5 = 0
      BY <1>3 DEF Recv!First
    <2>2. CASE v3[c] = 0
      <3>1. u = Recv!Units(c, 1, k)
        <4>1. v3[c] + 1 = 1 /\ v3[c] + k = k
          BY <2>2
        <4> QED BY <4>1
      <3> HIDE DEF u
      <3>2. Recv!First(c, Recv!Units(c, 1, k))
        BY <1>3, <3>1
      <3> QED BY <1>1, <2>1, <2>2, <3>2, RecvHeader
    <2>3. CASE v3[c] # 0
      BY <1>1, <1>3, <2>1, <2>3, RecvStray
    <2> QED BY <2>2, <2>3
  <1>4. CASE Recv!Later(c, u)
    <2>1. v5 # 0
      BY <1>4 DEF Recv!Later
    <2>2. CASE v7.size = 0
      BY <1>1, <1>4, <2>1, <2>2, RecvChunk
    <2>3. CASE v7.size # 0
      BY <1>1, <1>4, <2>1, <2>3, RecvCollected
    <2> QED BY <2>2, <2>3
  <1>5. CASE Recv!Dropped(c)
    BY <1>1, <1>5, RecvDropped
  <1> QED BY <1>2, <1>3, <1>4, <1>5

\* Only packets move the receiver, and a line that breaks empties it.
LEMMA RecvKeeps == ASSUME RecvInv, Recv!Next \/ UNCHANGED Recv!vars PROVE RecvInv'
  <1>0. /\ RecvTyped /\ RecvSent /\ Recv!DeliveredInOrder /\ RecvUnderWay
        /\ \A d \in Conns : RecvTaken(d)
    BY DEF RecvInv
  <1>1. ASSUME NEW c \in Conns, NEW r \in Requests, Recv!Ask(c, r) PROVE RecvInv'
    <2>1. /\ v4' = [v4 EXCEPT ![c] = @ + 1] /\ v2' = [v2 EXCEPT ![c] = r]
          /\ v3' = [v3 EXCEPT ![c] = 0] /\ v13' = [v13 EXCEPT ![c] = FALSE]
          /\ v14' = [v14 EXCEPT ![c] = 0]
          /\ UNCHANGED <<v5, v6, v7, v8, v9, v10, v11, v12, v15>>
          /\ v4[c] > 0 => v3[c] = v2[c].size
      BY <1>1 DEF Recv!Ask
    <2>2. r \in [size : Nat \ {0}, streams : BOOLEAN]
      BY ReceiveAssumption
    <2>3. /\ v2'[c] = r /\ v3'[c] = 0 /\ v13'[c] = FALSE /\ v14'[c] = 0
          /\ \A d \in Conns \ {c} : /\ v2'[d] = v2[d] /\ v3'[d] = v3[d] /\ v4'[d] = v4[d]
                                    /\ v13'[d] = v13[d] /\ v14'[d] = v14[d]
      BY <1>0, <2>1 DEF RecvTyped
    <2>4. RecvTyped'
      <3>1. v2' \in [Conns -> Requests] /\ v3' \in [Conns -> Nat] /\ v4' \in [Conns -> Nat]
        BY <1>0, <2>1 DEF RecvTyped
      <3>2. v5' \in Nat /\ v6' \in Nat /\ v8' \in Conns \cup {NoConn} /\ v15' \in BOOLEAN
        BY <1>0, <2>1 DEF RecvTyped
      <3>3. v7' \in [size : Nat, units : Seq(RecvUnit)]
        BY <1>0, <2>1 DEF RecvTyped
      <3>4. v9' \in BOOLEAN /\ v10' \in Seq(RecvUnit) /\ v11' \in BOOLEAN /\ v12' \in Nat
        BY <1>0, <2>1 DEF RecvTyped
      <3>5. v13' \in [Conns -> BOOLEAN] /\ v14' \in [Conns -> Nat]
        BY <1>0, <2>1 DEF RecvTyped
      <3> QED BY ONLY <3>1, <3>2, <3>3, <3>4, <3>5 DEF RecvTyped
    <2>5. RecvSent'
      BY <1>0, <2>2, <2>3 DEF RecvSent
    <2>6. Recv!DeliveredInOrder'
      BY <1>0, <2>1 DEF Recv!DeliveredInOrder, Recv!InOrder
    <2>7. v5 # 0 => v8 \in Conns \ {c}
      <3> SUFFICES ASSUME v5 # 0, v8 = c PROVE FALSE
        BY <1>0 DEF RecvUnderWay
      <3>1. v4[c] > 0 /\ v5 = v2[c].size - v3[c]
        BY <1>0 DEF RecvUnderWay
      <3>2. v3[c] \in Nat
        BY <1>0 DEF RecvTyped
      <3> QED BY <2>1, <3>1, <3>2
    <2>8. RecvUnderWay'
      BY <1>0, <2>1, <2>3, <2>7 DEF RecvUnderWay, RecvBuffered, RecvStreamed
    <2>9. RecvTaken(c)'
      BY <2>3 DEF RecvTaken
    <2>10. ASSUME NEW d \in Conns \ {c} PROVE RecvTaken(d)'
      BY <1>0, <2>1, <2>3 DEF RecvTaken, Recv!Whole
    <2> QED BY <2>4, <2>5, <2>6, <2>8, <2>9, <2>10 DEF RecvInv
  <1>2. ASSUME NEW c \in Conns, Recv!Broken(c) PROVE RecvInv'
    <2>1. /\ v5' = 0 /\ v7' = Recv!NoBuffer /\ v15' = TRUE
          /\ UNCHANGED <<v2, v3, v4, v6, v8, v9, v10, v11, v12, v13, v14>>
      BY <1>2 DEF Recv!Broken
    <2>2. v7' \in [size : Nat, units : Seq(RecvUnit)] /\ v7'.size = 0
      BY <2>1, EmptySeq DEF Recv!NoBuffer
    <2>3. RecvTyped' /\ RecvSent'
      <3>1. v2' \in [Conns -> Requests] /\ v3' \in [Conns -> Nat] /\ v4' \in [Conns -> Nat]
        BY <1>0, <2>1, <2>2 DEF RecvTyped
      <3>2. v5' \in Nat /\ v6' \in Nat /\ v8' \in Conns \cup {NoConn} /\ v15' \in BOOLEAN
        BY <1>0, <2>1, <2>2 DEF RecvTyped
      <3>3. v7' \in [size : Nat, units : Seq(RecvUnit)]
        BY <1>0, <2>1, <2>2 DEF RecvTyped
      <3>4. v9' \in BOOLEAN /\ v10' \in Seq(RecvUnit) /\ v11' \in BOOLEAN /\ v12' \in Nat
        BY <1>0, <2>1, <2>2 DEF RecvTyped
      <3>5. v13' \in [Conns -> BOOLEAN] /\ v14' \in [Conns -> Nat]
        BY <1>0, <2>1, <2>2 DEF RecvTyped
      <3>6. RecvSent'
        BY <1>0, <2>1, <2>2 DEF RecvSent
      <3> QED BY ONLY <3>1, <3>2, <3>3, <3>4, <3>5, <3>6 DEF RecvTyped
    <2>4. Recv!DeliveredInOrder'
      BY <1>0, <2>1 DEF Recv!DeliveredInOrder, Recv!InOrder
    <2>5. RecvUnderWay'
      BY <2>1, <2>2 DEF RecvUnderWay
    <2>6. ASSUME NEW d \in Conns PROVE RecvTaken(d)'
      BY <1>0, <2>1 DEF RecvTaken
    <2> QED BY <2>3, <2>4, <2>5, <2>6 DEF RecvInv
  <1>3. ASSUME \/ \E c \in Conns : Recv!Connect(c) \/ Recv!Disconnected(c)
               \/ UNCHANGED Recv!vars
        PROVE  RecvInv'
    <2>1. UNCHANGED <<v2, v3, v4, v5, v6, v7, v8, v9, v10, v11, v12, v13, v14, v15>>
      BY <1>3 DEF Recv!Connect, Recv!Disconnected, Recv!vars, Recv!clientVars, Recv!historyVars
    <2>2. RecvTyped' /\ RecvSent'
      <3>1. v2' \in [Conns -> Requests] /\ v3' \in [Conns -> Nat] /\ v4' \in [Conns -> Nat]
        BY <1>0, <2>1 DEF RecvTyped
      <3>2. v5' \in Nat /\ v6' \in Nat /\ v8' \in Conns \cup {NoConn} /\ v15' \in BOOLEAN
        BY <1>0, <2>1 DEF RecvTyped
      <3>3. v7' \in [size : Nat, units : Seq(RecvUnit)]
        BY <1>0, <2>1 DEF RecvTyped
      <3>4. v9' \in BOOLEAN /\ v10' \in Seq(RecvUnit) /\ v11' \in BOOLEAN /\ v12' \in Nat
        BY <1>0, <2>1 DEF RecvTyped
      <3>5. v13' \in [Conns -> BOOLEAN] /\ v14' \in [Conns -> Nat]
        BY <1>0, <2>1 DEF RecvTyped
      <3>6. RecvSent'
        BY <1>0, <2>1 DEF RecvSent
      <3> QED BY ONLY <3>1, <3>2, <3>3, <3>4, <3>5, <3>6 DEF RecvTyped
    <2>3. Recv!DeliveredInOrder'
      BY <1>0, <2>1 DEF Recv!DeliveredInOrder, Recv!InOrder
    <2>4. RecvUnderWay'
      BY <1>0, <2>1 DEF RecvUnderWay, RecvBuffered, RecvStreamed
    <2>5. ASSUME NEW d \in Conns PROVE RecvTaken(d)'
      BY <1>0, <2>1, RecvOthers
    <2> QED BY <2>2, <2>3, <2>4, <2>5 DEF RecvInv
  <1>4. ASSUME NEW c \in Conns, NEW k \in 1..Recv!MaxSize, Recv!Receive(c, k) PROVE RecvInv'
    <2>1. k \in Nat \ {0}
      BY MaxSizeIs
    <2> QED BY <1>4, <2>1, RecvReceives
  <1> QED BY <1>1, <1>2, <1>3, <1>4 DEF Recv!Next

\* A request is handled whole and in order, and the buffer has room for it.
LEMMA RecvTells ==
  ASSUME RecvInv
  PROVE  Recv!AcceptedIsHandled /\ Recv!DeliveredInOrder /\ Recv!BufferHasRoom
  <1>0. /\ RecvTyped /\ RecvSent /\ Recv!DeliveredInOrder /\ RecvUnderWay
        /\ \A d \in Conns : RecvTaken(d)
    BY DEF RecvInv
  <1>1. Recv!AcceptedIsHandled
    BY <1>0 DEF RecvTaken, Recv!AcceptedIsHandled
  <1>2. ASSUME v7.size # 0
        PROVE  /\ Len(v7.units) + v5 = v7.size /\ Recv!InOrder(v7.units)
               /\ v7.units # <<>> /\ v7.units[1][1] = v8
    <2>1. /\ v5 # 0 /\ v8 \in Conns /\ v3[v8] > 0 /\ v5 = v2[v8].size - v3[v8]
          /\ v7 = [size |-> v2[v8].size, units |-> Recv!Units(v8, 1, v3[v8])]
      BY <1>0, <1>2 DEF RecvUnderWay, RecvBuffered
    <2>2. PICK n \in Nat : n = v3[v8] /\ 1 \in 1..n
      BY <1>0, <2>1 DEF RecvTyped
    <2>3. PICK c \in Conns : c = v8
      BY <2>1
    <2> DEFINE w == Recv!Units(c, 1, n)
    <2>4. w \in Seq(RecvUnit) /\ Len(w) = n /\ (\A i \in 1..n : w[i] = <<c, i>>) /\ Recv!InOrder(w)
      BY ONLY UnitsFirst, c \in Conns, n \in Nat
    <2>5. v7.units = w /\ v7.size = v2[v8].size
      BY <2>1, <2>2, <2>3
    <2>6. v2[v8].size \in Nat
      BY <2>1, ReceiveAssumption, <1>0 DEF RecvTyped
    <2> HIDE DEF w
    <2>7. w # <<>> /\ w[1] = <<c, 1>>
      BY <2>2, <2>4, EmptySeq
    <2> QED BY <2>1, <2>2, <2>3, <2>4, <2>5, <2>6, <2>7
  <1>3. Recv!BufferHasRoom
    BY <1>2 DEF Recv!BufferHasRoom
  <1> QED BY <1>0, <1>1, <1>3
-----------------------------------------------------------------------------
(* The badge: v1 is what scrolls and its timers, v2 the text, v3 the one    *)
(* that was accepted, v4 tells that no battery text is put off.             *)
PanelInv ==
  /\ v1.on \in BOOLEAN /\ (~ v1.on => v1.of = "none")
  /\ v1 \in [on : BOOLEAN, of : {"none", "text", "battery"}, i : Int, timers : Int]
  /\ Panel!OneScroll /\ Panel!BatteryComes /\ Panel!TextStays

LEMMA PanelStarts == ASSUME Panel!Init PROVE PanelInv
  <1>1. v1 = [on |-> FALSE, of |-> "none", i |-> 0, timers |-> 0] /\ v2 = 0 /\ v3 = 0 /\ v4 = TRUE
    BY DEF Panel!Init
  <1> QED BY <1>1 DEF PanelInv, Panel!OneScroll, Panel!BatteryComes, Panel!TextStays

\* A text begins when none scrolls, when its timer is the only one.
LEMMA PanelBegins ==
  ASSUME PanelInv, ~ v1.on, NEW of \in {"text", "battery"}
  PROVE  /\ Panel!Scroll(v1, of) = [on |-> TRUE, of |-> of, i |-> 0, timers |-> 1]
         /\ v1.timers = 0
  BY DEF PanelInv, Panel!OneScroll, Panel!Scroll

\* A step that leaves a text at its beginning, or none.
LEMMA PanelOf ==
  ASSUME NEW of \in {"none", "text", "battery"},
         v1' = IF of = "none" THEN [on |-> FALSE, of |-> of, i |-> 0, timers |-> 0]
                              ELSE [on |-> TRUE, of |-> of, i |-> 0, timers |-> 1],
         of = "none" => v4', of = "text" => v2' = v3'
  PROVE  PanelInv'
  <1>1. CASE of = "none"
    <2>1. v1' = [on |-> FALSE, of |-> "none", i |-> 0, timers |-> 0]
      BY <1>1
    <2> QED BY <1>1, <2>1 DEF PanelInv, Panel!OneScroll, Panel!BatteryComes, Panel!TextStays
  <1>2. CASE of # "none"
    <2>1. v1' = [on |-> TRUE, of |-> of, i |-> 0, timers |-> 1]
      BY <1>2
    <2> QED BY <1>2, <2>1 DEF PanelInv, Panel!OneScroll, Panel!BatteryComes, Panel!TextStays
  <1> QED BY <1>1, <1>2

LEMMA PanelKeeps == ASSUME PanelInv, Panel!Next \/ UNCHANGED Panel!vars PROVE PanelInv'
  <1>1. ASSUME NEW new \in {0, 1}, Panel!Post(new) PROVE PanelInv'
    <2>1. v4' = v4
      BY <1>1 DEF Panel!Post
    <2>2. CASE v1.on
      <3>1. UNCHANGED <<v1, v2, v3>>
        BY <1>1, <2>2 DEF Panel!Post
      <3> QED BY <2>1, <3>1 DEF PanelInv, Panel!OneScroll, Panel!BatteryComes, Panel!TextStays
    <2>3. CASE ~ v1.on
      <3>1. v1' = [on |-> TRUE, of |-> "text", i |-> 0, timers |-> 1] /\ v2' = v3'
        BY <1>1, <2>3, PanelBegins DEF Panel!Post
      <3> QED BY <2>1, <3>1 DEF PanelInv, Panel!OneScroll, Panel!BatteryComes, Panel!TextStays
    <2> QED BY <2>2, <2>3
  <1>2. ASSUME Panel!Battery PROVE PanelInv'
    <2>1. UNCHANGED <<v2, v3>> /\ v4' = (~ v1.on) /\ v1' = Panel!Scroll(v1, "battery")
      BY <1>2 DEF Panel!Battery
    <2>2. CASE v1.on
      <3>1. v1' = v1
        BY <2>1, <2>2 DEF Panel!Scroll
      <3> QED BY <2>1, <2>2, <3>1 DEF PanelInv, Panel!OneScroll, Panel!BatteryComes, Panel!TextStays
    <2>3. CASE ~ v1.on
      <3>1. v1' = [on |-> TRUE, of |-> "battery", i |-> 0, timers |-> 1]
        BY <2>1, <2>3, PanelBegins
      <3> QED BY <3>1, PanelOf
    <2> QED BY <2>2, <2>3
  <1>3. ASSUME Panel!ScrollStep PROVE PanelInv'
    <2>1. UNCHANGED <<v2, v3>> /\ v1.timers > 0
      BY <1>3 DEF Panel!ScrollStep
    <2>2. v1.on /\ v1.timers = 1
      BY <2>1 DEF PanelInv, Panel!OneScroll
    <2>3. CASE v1.i + 1 >= BadgeColumns
      <3> DEFINE s == [v1 EXCEPT !.on = FALSE, !.of = "none", !.i = 0, !.timers = @ - 1]
      <3>1. v1' = (IF v4 THEN s ELSE Panel!Scroll(s, "battery")) /\ v4' = TRUE
        BY <1>3, <2>3 DEF Panel!ScrollStep, Panel!ScrollEnd
      <3>2. s = [on |-> FALSE, of |-> "none", i |-> 0, timers |-> 0]
        <4>1. v1 \in [on : BOOLEAN, of : {"none", "text", "battery"}, i : Int, timers : Int]
          BY DEF PanelInv
        <4>2. PICK on, of, i : v1 = [on |-> on, of |-> of, i |-> i, timers |-> 1]
          BY <2>2, <4>1
        <4>3. s = [[on |-> on, of |-> of, i |-> i, timers |-> 1]
                     EXCEPT !.on = FALSE, !.of = "none", !.i = 0, !.timers = 0]
          BY <4>2
        <4> HIDE DEF s
        <4> QED BY ONLY <4>3
      <3> HIDE DEF s
      <3>3. Panel!Scroll(s, "battery") = [on |-> TRUE, of |-> "battery", i |-> 0, timers |-> 1]
        BY <3>2 DEF Panel!Scroll
      <3>4. CASE v4
        <4>1. v1' = [on |-> FALSE, of |-> "none", i |-> 0, timers |-> 0] /\ v4'
          BY <3>1, <3>2, <3>4
        <4> QED BY <4>1, PanelOf
      <3>5. CASE ~ v4
        <4>1. v1' = [on |-> TRUE, of |-> "battery", i |-> 0, timers |-> 1]
          BY <3>1, <3>3, <3>5
        <4> QED BY <4>1, PanelOf
      <3> QED BY <3>4, <3>5
    <2>4. CASE ~ (v1.i + 1 >= BadgeColumns)
      <3>1. v1' = [v1 EXCEPT !.i = @ + 1] /\ v4' = v4
        BY <1>3, <2>4 DEF Panel!ScrollStep
      <3>2. /\ v1'.on = v1.on /\ v1'.of = v1.of /\ v1'.timers = v1.timers
            /\ v1' \in [on : BOOLEAN, of : {"none", "text", "battery"}, i : Int, timers : Int]
        BY <3>1 DEF PanelInv
      <3> QED BY <2>1, <3>1, <3>2
                 DEF PanelInv, Panel!OneScroll, Panel!BatteryComes, Panel!TextStays
    <2> QED BY <2>3, <2>4
  <1>4. ASSUME UNCHANGED <<v1, v2, v3, v4>> PROVE PanelInv'
    BY <1>4 DEF PanelInv, Panel!OneScroll, Panel!BatteryComes, Panel!TextStays
  <1>5. ASSUME NEW a \in Panel!Animation,
               \/ Panel!AnimationStart(a) \/ Panel!AnimationStop(a) \/ Panel!AnimationStep(a)
        PROVE  UNCHANGED <<v1, v2, v3, v4>>
    BY <1>5 DEF Panel!AnimationStart, Panel!AnimationStop, Panel!AnimationStep
  <1>6. ASSUME Panel!TestStep \/ Panel!TestClear \/ UNCHANGED Panel!vars
        PROVE  UNCHANGED <<v1, v2, v3, v4>>
    BY <1>6 DEF Panel!TestStep, Panel!TestClear, Panel!vars
  <1>7. ASSUME Panel!TestAnimation PROVE UNCHANGED <<v1, v2, v3, v4>>
    BY <1>7 DEF Panel!TestAnimation, Panel!AnimationStart
  <1> QED BY <1>1, <1>2, <1>3, <1>4, <1>5, <1>6, <1>7 DEF Panel!Next
-----------------------------------------------------------------------------
(* The LED modules: v2 is the layout, v3 the columns of each module, v4     *)
(* tells that a text scrolls, v5 is the last place, v6 counts the steps, v7 *)
(* the columns of the text, v9 the ends that are still to be told.          *)
LedLayout ==
  /\ v2[1] \in 0..LedMax
  /\ v3 # Led!NULL => v3 \in [1..v2[1] -> [1..LedSide -> Nat]]

\* The column of the text at a place when i steps were made, of n modules: it is
\* as far behind the one that came in last as the place is before the last one.
LedAt(n, i, m, c) ==
  LET q == i + (m - 1) * LedSide + c - 1 - n * LedSide
  IN  IF 0 <= q /\ q < v7 THEN q + 1 ELSE 0

LedColumn(m, c) == LedAt(v2[1], v6, m, c)

\* While a text scrolls it is what is shown; and of the last one nothing is left
\* but at the first place.
LedShown ==
  v3 # Led!NULL =>
    \A m \in 1..v2[1], c \in 1..LedSide :
      /\ v4 /\ v6 > 0 => v3[m][c] = LedColumn(m, c)
      /\ ~ (v4 /\ v6 > 0) /\ ~ (m = 1 /\ c = 1) => v3[m][c] = 0

LedCounts ==
  /\ v4 \in BOOLEAN /\ v6 \in Nat /\ v7 \in 0..LedText
  /\ v4 => v3 # Led!NULL /\ v5 = (v2[1] * LedSide - 1) % LedWord /\ v9 = -1
  /\ ~ v4 => v9 = 0
  /\ v4 /\ v2[1] > 0 => v6 < v7 + v5 \/ v6 = 0

LedInv == LedLayout /\ LedShown /\ LedCounts

\* A layout's places fit the counter, with a text's columns.
LEMMA LedFits ==
  ASSUME NEW n \in 1..LedMax
  PROVE  /\ n * LedSide \in Nat \ {0} /\ n * LedSide + LedText < LedWord
         /\ (n * LedSide - 1) % LedWord = n * LedSide - 1
  <1>1. /\ LedSide \in Nat \ {0} /\ LedMax \in Nat \ {0} /\ LedText \in Nat /\ LedWord \in Nat
        /\ LedText + LedMax * LedSide < LedWord
    BY LedAssumption
  <1>2. n * LedSide \in Nat /\ n * LedSide >= 1
    <2>1. (n - 1) * LedSide >= 0
      BY <1>1
    <2> QED BY <1>1, <2>1
  <1>3. n * LedSide <= LedMax * LedSide
    <2>1. (LedMax - n) * LedSide >= 0
      BY <1>1
    <2> QED BY <1>1, <2>1
  <1>4. PICK w \in Nat : w = n * LedSide
    BY <1>2
  <1>5. PICK x \in Nat : x = LedMax * LedSide
    BY <1>1
  <1>6. w \in Nat \ {0} /\ w + LedText < LedWord
    BY <1>1, <1>2, <1>3, <1>4, <1>5
  <1>7. (w - 1) % LedWord = w - 1
    <2>1. w - 1 \in 0..(LedWord - 1) /\ LedWord \in Nat \ {0}
      BY <1>1, <1>6
    <2> QED BY <2>1
  <1> QED BY <1>4, <1>6, <1>7

\* The module and the column of a place.
LEMMA LedPlace ==
  ASSUME NEW n \in Nat, NEW p \in 1..(LedSide * n)
  PROVE  /\ (p - 1) \div LedSide \in 0..(n - 1) /\ (p - 1) % LedSide \in 0..(LedSide - 1)
         /\ p - 1 = LedSide * ((p - 1) \div LedSide) + ((p - 1) % LedSide)
  <1> DEFINE q == (p - 1) \div LedSide
             r == (p - 1) % LedSide
  <1>1. LedSide \in Nat \ {0}
    BY LedAssumption
  <1>2. q \in Int /\ r \in Int /\ p - 1 = LedSide * q + r /\ 0 <= r /\ r < LedSide
    BY <1>1
  <1> HIDE DEF q, r
  <1>3. q >= 0
    <2>1. SUFFICES ASSUME q <= -1 PROVE FALSE
      BY <1>2
    <2>2. LedSide * (q + 1) <= 0
      BY <1>1, <1>2, <2>1
    <2> QED BY <1>1, <1>2, <2>2
  <1>4. q < n
    <2>1. SUFFICES ASSUME q >= n PROVE FALSE
      BY <1>2
    <2>2. LedSide * (q - n) >= 0
      BY <1>1, <1>2, <2>1
    <2> QED BY <1>1, <1>2, <2>2
  <1> QED BY <1>1, <1>2, <1>3, <1>4 DEF q, r

\* ... of the last place.
LEMMA LedLast ==
  ASSUME NEW n \in Nat \ {0}
  PROVE  (n * LedSide - 1) \div LedSide = n - 1 /\ (n * LedSide - 1) % LedSide = LedSide - 1
  <1>1. LedSide \in Nat \ {0}
    BY LedAssumption
  <1>2. PICK p \in Nat : p = LedSide * n
    BY <1>1
  <1>3. p >= 1
    <2>1. LedSide * (n - 1) >= 0
      BY <1>1
    <2> QED BY <1>1, <1>2, <2>1
  <1>4. PICK q \in Int, r \in Int : q = (p - 1) \div LedSide /\ r = (p - 1) % LedSide
    BY <1>1, <1>2
  <1>5. q \in 0..(n - 1) /\ r \in 0..(LedSide - 1) /\ p - 1 = LedSide * q + r
    <2>1. p \in 1..(LedSide * n)
      BY <1>2, <1>3
    <2> QED BY <1>4, <2>1, LedPlace
  <1>6. q = n - 1
    <2>1. SUFFICES ASSUME q <= n - 2 PROVE FALSE
      BY <1>5
    <2>2. LedSide * (n - 2 - q) >= 0
      BY <1>1, <1>5, <2>1
    <2> QED BY <1>1, <1>2, <1>5, <2>2
  <1>7. r = LedSide - 1
    BY <1>1, <1>2, <1>5, <1>6
  <1> QED BY <1>1, <1>2, <1>4, <1>6, <1>7

LEMMA LedStarts == ASSUME Led!Init PROVE LedInv
  <1>1. LedSide \in Nat \ {0} /\ LedMax \in Nat \ {0} /\ LedText \in Nat
    BY LedAssumption
  <1>2. /\ v2 = <<1, 1>> /\ v3 = [m \in 1..1 |-> [c \in 1..LedSide |-> 0]] /\ v4 = FALSE
        /\ v5 = 0 /\ v6 = 0 /\ v7 = 0 /\ v9 = 0
    BY DEF Led!Init, Led!Dark
  <1>3. v3 \in [1..v2[1] -> [1..LedSide -> Nat]] /\ v2[1] = 1
    BY <1>2
  <1>4. LedLayout
    BY <1>1, <1>3 DEF LedLayout
  <1>5. LedShown
    BY <1>2, <1>3 DEF LedShown
  <1>6. LedCounts
    <2>1. v4 = FALSE /\ v6 \in Nat /\ v7 \in 0..LedText /\ v9 = 0
      BY <1>1, <1>2
    <2> QED BY ONLY <2>1 DEF LedCounts
  <1> QED BY <1>4, <1>5, <1>6 DEF LedInv

\* What a request does to layout and columns: nothing, or all is dark.
LEMMA LedPosts ==
  ASSUME LedInv, Led!Post PROVE LedInv'
  <1>0. LedLayout /\ LedShown /\ LedCounts /\ ~ v4
    BY DEF LedInv, Led!Post
  <1>1. LedSide \in Nat \ {0} /\ LedMax \in Nat \ {0} /\ LedText \in Nat
    BY LedAssumption
  <1>2. PICK d \in (0..LedMax + 1) \X (1..2), n \in 0..LedText :
          /\ Led!SetDimensions(d)
          /\ IF Led!Settled(d)
               THEN /\ v8' = "ok" /\ v4' = TRUE
                    /\ v5' = (d[1] * LedSide - 1) % LedWord /\ v6' = 0 /\ v7' = n
                    /\ v9' = v9 - 1
               ELSE v8' = "error" /\ UNCHANGED <<v4, v5, v6, v7, v9>>
    BY DEF Led!Post
  <1>3. d[1] \in 0..(LedMax + 1) /\ d[2] \in 1..2
    BY <1>1, <1>2
  <1>4. v4' => Led!Settled(d)
    BY <1>0, <1>2
  <1>5. LedCounts' \/ ~ (v4' => v3' # Led!NULL /\ v2' = d)
    <2>1. SUFFICES ASSUME v4' => v3' # Led!NULL /\ v2' = d PROVE LedCounts'
      OBVIOUS
    <2>2. CASE Led!Settled(d)
      BY <1>0, <1>1, <1>2, <2>1, <2>2 DEF LedCounts
    <2>3. CASE ~ Led!Settled(d)
      BY <1>0, <1>2, <2>3 DEF LedCounts
    <2> QED BY <2>2, <2>3
  <1>6. CASE (v3 # Led!NULL /\ d = v2) \/ d[1] * d[2] > LedMax
    <2>1. UNCHANGED <<v2, v3>>
      BY <1>2, <1>6 DEF Led!SetDimensions
    <2>2. v4' => v3' # Led!NULL /\ v2' = d
      <3>1. PICK w \in Nat : w = d[1] * d[2]
        BY <1>1, <1>3
      <3> QED BY <1>1, <1>4, <1>6, <2>1, <3>1 DEF Led!Settled
    <2>3. LedLayout'
      BY <1>0, <2>1 DEF LedLayout
    <2>4. v4' => v6' = 0
      BY <1>0, <1>2
    <2>5. LedShown'
      BY <1>0, <2>1, <2>4 DEF LedShown
    <2> QED BY <1>5, <2>2, <2>3, <2>5 DEF LedInv
  <1>7. CASE ~ ((v3 # Led!NULL /\ d = v2) \/ d[1] * d[2] > LedMax)
    <2>1. v2' = d /\ v3' \in {Led!NULL, Led!Dark(d[1])}
      BY <1>2, <1>7 DEF Led!SetDimensions
    <2>2. d[1] \in 0..LedMax
      <3>1. CASE d[2] = 1
        BY <1>1, <1>3, <1>7, <3>1
      <3>2. CASE d[2] = 2
        BY <1>1, <1>3, <1>7, <3>2
      <3> QED BY <1>3, <3>1, <3>2
    <2>3. v4' => v3' # Led!NULL /\ v2' = d
      BY <1>4, <1>7, <2>1 DEF Led!Settled
    <2>4. v3' # Led!NULL => v3' = [m \in 1..d[1] |-> [c \in 1..LedSide |-> 0]]
      BY <2>1 DEF Led!Dark
    <2>5. LedLayout'
      BY <2>1, <2>2, <2>4 DEF LedLayout
    <2>6. v4' => v6' = 0
      BY <1>0, <1>2
    <2>7. LedShown'
      <3>1. ASSUME v3' # Led!NULL, NEW m \in 1..v2'[1], NEW c \in 1..LedSide
            PROVE  v3'[m][c] = 0
        <4>1. m \in 1..d[1]
          <5>1. v2'[1] = d[1]
            BY ONLY <2>1
          <5> QED BY ONLY <3>1, <5>1
        <4>2. v3' = [k \in 1..d[1] |-> [j \in 1..LedSide |-> 0]]
          BY ONLY <2>4, <3>1
        <4>3. v3'[m] = [j \in 1..LedSide |-> 0]
          BY ONLY <4>1, <4>2
        <4> QED BY ONLY <3>1, <4>3
      <3>2. ~ (v4' /\ v6' > 0)
        BY <2>6
      <3> QED BY <3>1, <3>2 DEF LedShown
    <2> QED BY <1>5, <2>3, <2>5, <2>7 DEF LedInv
  <1> QED BY <1>6, <1>7

\* A module's columns, shifted by one.
LEMMA ShiftOne ==
  ASSUME NEW f \in [1..LedSide -> Nat], NEW e \in Nat
  PROVE  /\ Append(Tail(f), e) \in [1..LedSide -> Nat]
         /\ Append(Tail(f), e)[LedSide] = e
         /\ \A c \in 1..(LedSide - 1) : Append(Tail(f), e)[c] = f[c + 1]
  <1>0. LedSide \in Nat \ {0}
    BY LedAssumption
  <1>1. f \in Seq(Nat) /\ Len(f) = LedSide
    BY <1>0
  <1>2. Tail(f) \in Seq(Nat) /\ Len(Tail(f)) = LedSide - 1 /\ \A c \in 1..(LedSide - 1) : Tail(f)[c] = f[c + 1]
    BY <1>0, <1>1
  <1> DEFINE t == Tail(f)
             a == Append(t, e)
  <1> HIDE DEF t
  <1>3. /\ a \in Seq(Nat) /\ Len(a) = Len(t) + 1 /\ a[Len(t) + 1] = e
        /\ \A c \in 1..Len(t) : a[c] = t[c]
    BY <1>2, AppendProperties DEF t
  <1>4. Len(t) + 1 = LedSide
    BY <1>0, <1>2 DEF t
  <1> HIDE DEF a
  <1>5. a \in [1..LedSide -> Nat]
    BY <1>3, <1>4, LenProperties
  <1> QED BY <1>2, <1>3, <1>4, <1>5 DEF a, t

\* Every column of b is one place further, and col came in at the last.
LedMoved(new, b, n, col) ==
  /\ new \in [1..n -> [1..LedSide -> Nat]]
  /\ \A m \in 1..n, c \in 1..LedSide :
       new[m][c] = (IF c < LedSide THEN b[m][c + 1] ELSE IF m < n THEN b[m + 1][1] ELSE col)

LedLastPlace(n, at) == n > 0 => at = n * LedSide - 1

\* A step moves every column to the place before it; a column of the text, or
\* none, comes in at the last.
LEMMA LedMoves ==
  ASSUME NEW n \in Nat, NEW b \in [1..n -> [1..LedSide -> Nat]], NEW col \in Nat,
         NEW at \in Nat, LedLastPlace(n, at),
         NEW new, new = Led!SetColumn(Led!ShiftLeft(b), at, col)
  PROVE  LedMoved(new, b, n, col)
  <1> DEFINE sh == Led!ShiftLeft(b)
             In(m) == IF m = n THEN 0 ELSE b[m + 1][1]
  <1>0. new = Led!SetColumn(sh, at, col)
    OBVIOUS
  <1>1. LedSide \in Nat \ {0}
    BY LedAssumption
  <1>2. b \in Seq([1..LedSide -> Nat]) /\ Len(b) = n /\ DOMAIN b = 1..n
    OBVIOUS
  <1>3. ASSUME NEW m \in 1..n
        PROVE  /\ sh[m] \in [1..LedSide -> Nat] /\ sh[m][LedSide] = In(m)
               /\ \A c \in 1..(LedSide - 1) : sh[m][c] = b[m][c + 1]
    <2>1. b[m] \in [1..LedSide -> Nat] /\ In(m) \in Nat
      BY <1>1
    <2>2. sh[m] = Append(Tail(b[m]), In(m))
      BY <1>2 DEF Led!ShiftLeft
    <2>3. PICK e \in Nat : e = In(m)
      BY <2>1
    <2>4. PICK f \in [1..LedSide -> Nat] : f = b[m]
      BY <2>1
    <2>5. PICK a : a = Append(Tail(f), e)
      OBVIOUS
    <2>6. /\ a \in [1..LedSide -> Nat] /\ a[LedSide] = e
          /\ \A c \in 1..(LedSide - 1) : a[c] = f[c + 1]
      BY <1>1, <2>5, ShiftOne
    <2>7. sh[m] = a
      BY <2>2, <2>3, <2>4, <2>5
    <2> HIDE DEF sh, In
    <2> QED BY <2>3, <2>4, <2>6, <2>7
  <1>4. sh \in [1..n -> [1..LedSide -> Nat]] /\ Len(sh) = n
    <2>1. sh = [m \in 1..n |-> sh[m]]
      BY <1>2 DEF Led!ShiftLeft
    <2> HIDE DEF sh
    <2>2. sh \in [1..n -> [1..LedSide -> Nat]]
      BY <1>3, <2>1
    <2> QED BY <2>2
  <1> HIDE DEF sh, In
  <1>5. CASE n = 0
    <2>1. new \in [1..n -> [1..LedSide -> Nat]]
      <3>1. new = sh
        <4>0. at \in Nat /\ at \div LedSide \in Int
          BY ONLY <1>1, at \in Nat
        <4>1. PICK q \in Int : q = at \div LedSide
          BY <4>0
        <4>2. q >= 0
          <5>1. SUFFICES ASSUME q <= -1 PROVE FALSE
            BY <4>1
          <5>2. at < LedSide * q + LedSide
            BY <1>1, <4>1
          <5>3. LedSide * (q + 1) <= 0
            BY <1>1, <5>1
          <5> QED BY <1>1, <5>2, <5>3
        <4> QED BY <1>0, <1>4, <1>5, <4>1, <4>2 DEF Led!SetColumn
      <3> QED BY <1>4, <3>1
    <2>2. \A m \in 1..n : FALSE
      BY <1>5
    <2> QED BY <2>1, <2>2 DEF LedMoved
  <1>6. CASE n > 0
    <2>1. at \div LedSide = n - 1 /\ at % LedSide = LedSide - 1
      BY <1>6, LedLast DEF LedLastPlace
    <2>2. new = [sh EXCEPT ![n][LedSide] = col]
      <3>1. ~ (n - 1 >= n) /\ n - 1 + 1 = n /\ LedSide - 1 + 1 = LedSide
        BY <1>1
      <3> QED BY <1>0, <1>4, <2>1, <3>1 DEF Led!SetColumn
    <2>3. /\ new \in [1..n -> [1..LedSide -> Nat]]
          /\ \A m \in 1..n, c \in 1..LedSide :
               new[m][c] = (IF m = n /\ c = LedSide THEN col ELSE sh[m][c])
      <3> DEFINE S == 1..n
                 R == 1..LedSide
      <3>1. sh \in [S -> [R -> Nat]] /\ n \in S /\ LedSide \in R /\ col \in Nat
        BY <1>1, <1>4, <1>6
      <3> HIDE DEF S, R
      <3>2. /\ new \in [S -> [R -> Nat]]
            /\ \A m \in S, c \in R : new[m][c] = (IF m = n /\ c = LedSide THEN col ELSE sh[m][c])
        BY ONLY <2>2, <3>1
      <3> QED BY <3>2 DEF S, R
    <2>4. ASSUME NEW m \in 1..n, NEW c \in 1..LedSide
          PROVE  new[m][c] = (IF c < LedSide THEN b[m][c + 1] ELSE IF m < n THEN b[m + 1][1] ELSE col)
      <3>1. new[m][c] = (IF m = n /\ c = LedSide THEN col ELSE sh[m][c])
        BY <2>3
      <3>2. CASE c < LedSide
        <4>1. new[m][c] = sh[m][c]
          BY <1>1, <3>1, <3>2
        <4>2. c \in 1..(LedSide - 1)
          BY <1>1, <3>2
        <4>3. sh[m][c] = b[m][c + 1]
          BY <1>3, <4>2
        <4> QED BY <3>2, <4>1, <4>3
      <3>3. CASE c = LedSide
        <4>1. new[m][c] = (IF m = n THEN col ELSE In(m))
          BY <1>3, <3>1, <3>3
        <4> QED BY <3>3, <4>1 DEF In
      <3> QED BY <1>1, <3>2, <3>3
    <2> QED BY <2>3, <2>4 DEF LedMoved
  <1> QED BY <1>5, <1>6

\* A step brings to a place what was at the next one; at the last place it is new,
\* and before the first step all but the first place is dark.
LEMMA LedNext ==
  ASSUME NEW n \in Nat, NEW i \in Nat, NEW m \in 1..n, NEW c \in 1..LedSide, v7 \in Nat
  PROVE  /\ c < LedSide => LedAt(n, i + 1, m, c) = LedAt(n, i, m, c + 1)
         /\ c = LedSide /\ m < n => LedAt(n, i + 1, m, c) = LedAt(n, i, m + 1, 1)
         /\ c = LedSide /\ m = n => LedAt(n, i + 1, m, c) = (IF i < v7 THEN i + 1 ELSE 0)
         /\ ~ (m = n /\ c = LedSide) => LedAt(n, 1, m, c) = 0
         /\ ~ (m = 1 /\ c = 1) /\ i + 1 >= v7 + (n * LedSide - 1) => LedAt(n, i + 1, m, c) = 0
  <1>1. LedSide \in Nat \ {0}
    BY LedAssumption
  <1>2. PICK a \in Int, z \in Int : a = (m - 1) * LedSide /\ z = n * LedSide
    BY <1>1
  <1>3. m * LedSide = a + LedSide /\ (m + 1 - 1) * LedSide = a + LedSide /\ a >= 0
    <2>1. (m - 1) * LedSide >= 0
      BY <1>1
    <2> QED BY <1>1, <1>2, <2>1
  <1>4. z >= a + LedSide /\ (m = n => z = a + LedSide) /\ (m < n => z >= a + LedSide + LedSide)
    <2>1. (n - m) * LedSide >= 0 /\ (m < n => (n - m - 1) * LedSide >= 0)
      BY <1>1
    <2> QED BY <1>1, <1>2, <2>1
  <1>5. c < LedSide => LedAt(n, i + 1, m, c) = LedAt(n, i, m, c + 1)
    BY <1>1, <1>2 DEF LedAt
  <1>6. c = LedSide /\ m < n => LedAt(n, i + 1, m, c) = LedAt(n, i, m + 1, 1)
    BY <1>1, <1>2, <1>3 DEF LedAt
  <1>7. c = LedSide /\ m = n => LedAt(n, i + 1, m, c) = (IF i < v7 THEN i + 1 ELSE 0)
    BY <1>1, <1>2, <1>4 DEF LedAt
  <1>8. ~ (m = n /\ c = LedSide) => LedAt(n, 1, m, c) = 0
    BY <1>1, <1>2, <1>4 DEF LedAt
  <1>9. ~ (m = 1 /\ c = 1) /\ i + 1 >= v7 + (n * LedSide - 1) => LedAt(n, i + 1, m, c) = 0
    <2>1. m > 1 => a >= LedSide
      <3>1. m > 1 => (m - 2) * LedSide >= 0
        BY <1>1
      <3> QED BY <1>1, <1>2, <3>1
    <2> QED BY <1>1, <1>2, <1>3, <2>1 DEF LedAt
  <1> QED BY <1>5, <1>6, <1>7, <1>8, <1>9

LEMMA LedScrolls == ASSUME LedInv, Led!Scroll PROVE LedInv'
  <1> DEFINE n == v2[1]
             col == IF v6 < v7 THEN v6 + 1 ELSE 0
             j == (v6 + 1) % LedWord
             Was(m, c) == LedAt(n, v6, m, c)
             Is(m, c) == LedAt(n, v6 + 1, m, c)
  <1>0. LedLayout /\ LedShown /\ LedCounts /\ v4 /\ v2' = v2
    BY DEF LedInv, Led!Scroll
  <1>1. /\ LedSide \in Nat \ {0} /\ LedMax \in Nat \ {0} /\ LedText \in Nat /\ LedWord \in Nat
        /\ LedText + LedMax * LedSide < LedWord
    BY LedAssumption
  <1>2. /\ v3 # Led!NULL /\ n \in 0..LedMax /\ v3 \in [1..n -> [1..LedSide -> Nat]]
        /\ v6 \in Nat /\ v7 \in 0..LedText /\ v7 \in Nat /\ v9 = -1
        /\ v5 = (n * LedSide - 1) % LedWord
    BY <1>0, <1>1 DEF LedLayout, LedCounts
  <1>3. /\ v3' = Led!SetColumn(Led!ShiftLeft(v3), v5, col)
        /\ \/ /\ j >= v7 + v5 /\ v4' = FALSE /\ v5' = 0 /\ v6' = 0 /\ v7' = 0 /\ v9' = v9 + 1
           \/ /\ ~ (j >= v7 + v5) /\ v6' = j /\ UNCHANGED <<v4, v5, v7, v9>>
    BY DEF Led!Scroll
  <1>4. LedWord \in Nat \ {0}
    <2>1. LedMax * LedSide >= 1
      <3>1. (LedMax - 1) * (LedSide - 1) >= 0
        BY <1>1
      <3> QED BY <1>1, <3>1
    <2> QED BY <1>1, <2>1
  <1>5. v5 \in Nat /\ j \in Nat
    <2>1. PICK w \in Int : w = n * LedSide - 1
      BY <1>1, <1>2
    <2>2. w % LedWord \in Nat
      BY <1>4, <2>1
    <2> QED BY <1>2, <1>4, <2>1, <2>2
  <1>6. n > 0 => v5 = n * LedSide - 1 /\ j = v6 + 1
    <2> SUFFICES ASSUME n > 0 PROVE v5 = n * LedSide - 1 /\ j = v6 + 1
      OBVIOUS
    <2>1. PICK w \in Nat : w = n * LedSide
      BY <1>1, <1>2
    <2>2. w >= 1 /\ w + LedText < LedWord /\ (w - 1) % LedWord = w - 1
      BY <1>2, <2>1, LedFits
    <2>3. v5 = w - 1
      BY <1>2, <2>1, <2>2
    <2>4. v6 < v7 + v5 \/ v6 = 0
      BY <1>0, <1>2 DEF LedCounts
    <2>5. v7 <= LedText /\ v6 + 1 < LedWord
      BY <1>1, <1>2, <2>2, <2>3, <2>4
    <2>6. PICK k \in Nat : k = v6 + 1
      BY <1>2
    <2>7. k % LedWord = k
      BY <1>4, <2>5, <2>6
    <2> QED BY <2>1, <2>3, <2>6, <2>7
  <1>7. col \in Nat
    BY <1>2
  <1> HIDE DEF j, col
  <1>8. /\ v3' \in [1..n -> [1..LedSide -> Nat]]
        /\ \A m \in 1..n, c \in 1..LedSide :
             v3'[m][c] = (IF c < LedSide THEN v3[m][c + 1] ELSE IF m < n THEN v3[m + 1][1] ELSE col)
    <2>1. PICK b \in [1..n -> [1..LedSide -> Nat]] : b = v3
      BY <1>2
    <2>2. PICK k \in Nat, at \in Nat, e \in Nat : k = n /\ at = v5 /\ e = col
      BY <1>2, <1>5, <1>7
    <2>3. LedLastPlace(k, at)
      BY <1>6, <2>2 DEF LedLastPlace
    <2>4. b \in [1..k -> [1..LedSide -> Nat]]
      BY <2>1, <2>2
    <2>5. PICK new : new = Led!SetColumn(Led!ShiftLeft(b), at, e)
      OBVIOUS
    <2>6. LedMoved(new, b, k, e)
      BY ONLY <2>3, <2>4, <2>5, k \in Nat, at \in Nat, e \in Nat, LedMoves
    <2>7. v3' = new
      BY <1>3, <2>1, <2>2, <2>5
    <2> HIDE DEF n
    <2> QED BY <2>1, <2>2, <2>6, <2>7 DEF LedMoved
  <1>9. \A m \in 1..n, c \in 1..LedSide : v3'[m][c] = Is(m, c)
    <2> TAKE m \in 1..n, c \in 1..LedSide
    <2>1. /\ c < LedSide => c + 1 \in 1..LedSide /\ ~ (m = 1 /\ c + 1 = 1)
          /\ m < n => m + 1 \in 1..n /\ ~ (m + 1 = 1 /\ 1 = 1)
          /\ 1 \in 1..LedSide
      BY <1>1, <1>2
    <2>0. /\ c < LedSide => Is(m, c) = Was(m, c + 1)
          /\ c = LedSide /\ m < n => Is(m, c) = Was(m + 1, 1)
          /\ c = LedSide /\ m = n => Is(m, c) = col
          /\ ~ (m = n /\ c = LedSide) => LedAt(n, 1, m, c) = 0
      <3>1. PICK k \in Nat, i \in Nat : k = n /\ i = v6
        BY <1>2
      <3>2. m \in 1..k /\ c \in 1..LedSide /\ v7 \in Nat
        BY <1>2, <3>1
      <3>3. /\ c < LedSide => LedAt(k, i + 1, m, c) = LedAt(k, i, m, c + 1)
            /\ c = LedSide /\ m < k => LedAt(k, i + 1, m, c) = LedAt(k, i, m + 1, 1)
            /\ c = LedSide /\ m = k => LedAt(k, i + 1, m, c) = (IF i < v7 THEN i + 1 ELSE 0)
            /\ ~ (m = k /\ c = LedSide) => LedAt(k, 1, m, c) = 0
        BY ONLY <3>2, k \in Nat, i \in Nat, LedNext
      <3> QED BY <3>1, <3>3 DEF col
    <2>2. CASE v6 > 0
      <3>1. \A a \in 1..n, d \in 1..LedSide : v3[a][d] = Was(a, d)
        BY <1>0, <1>2, <2>2 DEF LedShown, LedColumn, LedAt
      <3>2. v3'[m][c] = (IF c < LedSide THEN v3[m][c + 1] ELSE IF m < n THEN v3[m + 1][1] ELSE col)
        BY <1>8
      <3>3. c < LedSide \/ c = LedSide
        BY <1>1
      <3>4. m < n \/ m = n
        BY <1>2
      <3> HIDE DEF n, Was, Is
      <3>5. CASE c < LedSide
        BY <2>0, <2>1, <3>1, <3>2, <3>5
      <3>6. CASE c = LedSide
        BY <1>1, <1>2, <2>0, <2>1, <3>1, <3>2, <3>4, <3>6
      <3> QED BY <3>3, <3>5, <3>6
    <2>3. CASE v6 = 0
      <3>1. \A a \in 1..n, d \in 1..LedSide : ~ (a = 1 /\ d = 1) => v3[a][d] = 0
        BY <1>0, <1>2, <2>3 DEF LedShown
      <3>2. ~ (m = n /\ c = LedSide) => v3'[m][c] = 0
        <4>1. v3'[m][c] = (IF c < LedSide THEN v3[m][c + 1] ELSE IF m < n THEN v3[m + 1][1] ELSE col)
          BY <1>8
        <4> HIDE DEF n
        <4>2. c < LedSide => v3'[m][c] = 0
          BY <2>1, <3>1, <4>1
        <4>3. c = LedSide /\ m < n => v3'[m][c] = 0
          BY <1>1, <2>1, <3>1, <4>1
        <4> QED BY <1>1, <1>2, <4>2, <4>3
      <3>3. m = n /\ c = LedSide => v3'[m][c] = col
        BY <1>1, <1>2, <1>8
      <3>4. 0 \in Nat /\ 0 + 1 = 1 /\ v6 + 1 = 1
        BY <2>3
      <3>5. LedAt(n, 1, m, c) = Is(m, c)
        BY <3>4
      <3> HIDE DEF n, Is
      <3> QED BY <2>0, <3>2, <3>3, <3>5
    <2> QED BY <1>2, <2>2, <2>3
  <1>10. LedLayout'
    BY <1>0, <1>2, <1>8 DEF LedLayout
  <1>11. CASE v4' = FALSE /\ v6' = 0 /\ v7' = 0 /\ v9' = v9 + 1 /\ j >= v7 + v5
    <2>1. LedCounts'
      <3>1. v4' = FALSE /\ v6' \in Nat /\ v7' \in 0..LedText /\ v9' = 0
        BY <1>1, <1>2, <1>11
      <3> QED BY ONLY <3>1 DEF LedCounts
    <2>2. ASSUME NEW m \in 1..n, NEW c \in 1..LedSide, ~ (m = 1 /\ c = 1) PROVE v3'[m][c] = 0
      <3>1. v6 + 1 >= v7 + (n * LedSide - 1)
        BY <1>2, <1>6, <1>11
      <3>2. PICK k \in Nat, i \in Nat : k = n /\ i = v6
        BY <1>2
      <3>3. m \in 1..k /\ v7 \in Nat /\ i + 1 >= v7 + (k * LedSide - 1)
        BY <1>2, <3>1, <3>2
      <3>4. LedAt(k, i + 1, m, c) = 0
        BY ONLY <2>2, <3>3, c \in 1..LedSide, k \in Nat, i \in Nat, LedNext
      <3> QED BY <1>9, <3>2, <3>4
    <2>3. LedShown'
      BY <1>0, <1>11, <2>2 DEF LedShown
    <2> QED BY <1>10, <2>1, <2>3 DEF LedInv
  <1>12. CASE ~ (j >= v7 + v5) /\ v6' = j /\ UNCHANGED <<v4, v5, v7, v9>>
    <2>1. LedShown'
      <3>1. ASSUME NEW m \in 1..n, NEW c \in 1..LedSide
            PROVE  v3'[m][c] = LedColumn(m, c)' /\ v6' > 0
        <4>1. v6' = v6 + 1
          BY <1>2, <1>6, <1>12
        <4>2. LedColumn(m, c)' = LedAt(n, v6 + 1, m, c)
          BY <1>0, <1>12, <4>1 DEF LedColumn, LedAt
        <4> QED BY <1>2, <1>9, <4>1, <4>2
      <3> QED BY <1>0, <1>12, <3>1 DEF LedShown
    <2>2. LedCounts'
      <3>1. v3' # Led!NULL
        <4>1. CASE n = 0
          <5>1. DOMAIN v3' = {} /\ DOMAIN Led!NULL = {1}
            BY <1>8, <4>1 DEF Led!NULL
          <5> QED BY <5>1
        <4>2. CASE n > 0
          <5>1. v3'[1] \in [1..LedSide -> Nat] /\ Led!NULL[1] = <<>>
            BY <1>2, <1>8, <4>2 DEF Led!NULL
          <5>2. DOMAIN (v3'[1]) = 1..LedSide /\ 1 \in 1..LedSide
            BY <1>1, <5>1
          <5>3. DOMAIN <<>> = {}
            OBVIOUS
          <5> QED BY <5>1, <5>2, <5>3
        <4> QED BY <1>2, <4>1, <4>2
      <3>2. v4' /\ v4' \in BOOLEAN /\ v6' \in Nat /\ v7' \in 0..LedText /\ v9' = -1
        BY <1>0, <1>2, <1>5, <1>12 DEF LedCounts
      <3>3. v5' = (v2'[1] * LedSide - 1) % LedWord
        BY <1>0, <1>2, <1>12
      <3>4. v6' < v7' + v5'
        BY <1>2, <1>5, <1>12
      <3> HIDE DEF n
      <3> QED BY ONLY <3>1, <3>2, <3>3, <3>4 DEF LedCounts
    <2> QED BY <1>10, <2>1, <2>2 DEF LedInv
  <1> QED BY <1>3, <1>11, <1>12

LEMMA LedKeeps == ASSUME LedInv, Led!Next \/ UNCHANGED Led!vars PROVE LedInv'
  <1>1. ASSUME Led!PostBusy \/ UNCHANGED Led!vars PROVE LedInv'
    <2>1. UNCHANGED <<v2, v3, v4, v5, v6, v7, v9>>
      BY <1>1 DEF Led!PostBusy, Led!vars
    <2> QED BY <2>1 DEF LedInv, LedLayout, LedShown, LedColumn, LedAt, LedCounts
  <1> QED BY <1>1, LedPosts, LedScrolls DEF Led!Next

\* A text is shown whole, and to its end.
LEMMA LedTells == ASSUME LedInv PROVE Led!LayoutHolds /\ Led!TextWhole /\ Led!EndComes
  <1> DEFINE n == v2[1]
  <1>0. LedLayout /\ LedShown /\ LedCounts
    BY DEF LedInv
  <1>1. LedSide \in Nat \ {0} /\ LedMax \in Nat
    BY LedAssumption
  <1>2. n \in Nat /\ (v3 # Led!NULL => v3 \in [1..n -> [1..LedSide -> Nat]] /\ Len(v3) = n)
    <2>1. n \in Nat /\ (v3 # Led!NULL => v3 \in [1..n -> [1..LedSide -> Nat]])
      BY <1>0, <1>1 DEF LedLayout
    <2> QED BY <2>1
  <1>3. Led!LayoutHolds
    BY <1>0, <1>2 DEF LedCounts, Led!LayoutHolds
  <1>4. Led!EndComes
    BY <1>0 DEF LedCounts, Led!EndComes
  <1>5. Led!TextWhole
    <2> SUFFICES ASSUME v4, v6 > 0, NEW p \in 1..(LedSide * Len(v3))
                 PROVE  /\ p < LedSide * Len(v3) /\ Led!Shown[p] # 0
                             => Led!Shown[p + 1] \in {Led!Shown[p] + 1, 0, 1}
                        /\ Led!Shown[p] > 1 /\ p > 1 => Led!Shown[p - 1] = Led!Shown[p] - 1
      BY DEF Led!TextWhole
    <2>1. v3 # Led!NULL /\ v6 \in Nat /\ v7 \in Nat /\ Len(v3) = n
      BY <1>0, <1>2 DEF LedCounts
    <2>2. PICK z \in Nat : z = LedSide * n
      BY <1>1, <1>2
    <2> DEFINE At(k) == LET q == v6 + k - 1 - z IN IF 0 <= q /\ q < v7 THEN q + 1 ELSE 0
    <2>3. ASSUME NEW k \in 1..z PROVE Led!Shown[k] = At(k)
      <3>1. PICK q \in Int, r \in Int : q = (k - 1) \div LedSide /\ r = (k - 1) % LedSide
        BY <1>1
      <3>2. q \in 0..(n - 1) /\ r \in 0..(LedSide - 1) /\ k - 1 = LedSide * q + r
        <4>1. k \in 1..(LedSide * n)
          BY <2>2
        <4> QED BY <1>2, <3>1, <4>1, LedPlace
      <3>3. Led!Shown[k] = v3[q + 1][r + 1]
        <4>1. Led!Shown = [u \in 1..z |-> v3[(u - 1) \div LedSide + 1][((u - 1) % LedSide) + 1]]
          BY <2>1, <2>2 DEF Led!Shown
        <4> QED BY <3>1, <4>1
      <3>4. q + 1 \in 1..n /\ r + 1 \in 1..LedSide
        BY <1>1, <1>2, <3>2
      <3>5. v3[q + 1][r + 1] = LedColumn(q + 1, r + 1)
        BY <1>0, <2>1, <3>4 DEF LedShown
      <3>6. (q + 1 - 1) * LedSide + (r + 1) = k /\ n * LedSide = z
        BY <1>1, <1>2, <2>2, <3>2
      <3>7. LedColumn(q + 1, r + 1) = At(k)
        <4>1. PICK e \in Int : e = (q + 1 - 1) * LedSide
          BY <1>1
        <4>2. v6 + e + (r + 1) - 1 - z = v6 + k - 1 - z
          <5>1. e + (r + 1) = k
            BY <3>6, <4>1
          <5>2. v6 \in Int /\ e \in Int /\ r \in Int /\ z \in Int /\ k \in Int
            BY <2>1, <2>2, <3>1, <4>1
          <5> QED BY ONLY <5>1, <5>2
        <4> QED BY <3>6, <4>1, <4>2 DEF LedColumn, LedAt
      <3> HIDE DEF At
      <3> QED BY <3>3, <3>5, <3>7
    <2>4. p \in 1..z /\ (p < z => p + 1 \in 1..z) /\ (p > 1 => p - 1 \in 1..z)
          /\ LedSide * Len(v3) = z
      BY <2>1, <2>2
    <2>5. /\ Led!Shown[p] = At(p) /\ (p < z => Led!Shown[p + 1] = At(p + 1))
          /\ (p > 1 => Led!Shown[p - 1] = At(p - 1))
      <3> HIDE DEF At
      <3> QED BY <2>3, <2>4
    <2>6. /\ p < z /\ At(p) # 0 => At(p + 1) \in {At(p) + 1, 0, 1}
          /\ At(p) > 1 /\ p > 1 => At(p - 1) = At(p) - 1
      <3>1. v6 \in Int /\ v7 \in Int /\ p \in Int /\ z \in Int
        BY <2>1, <2>2, <2>4
      <3> DEFINE a == v6 + p - 1 - z
      <3>2. a \in Int /\ v6 + (p + 1) - 1 - z = a + 1 /\ v6 + (p - 1) - 1 - z = a - 1
        BY ONLY <3>1
      <3> HIDE DEF a
      <3>3. /\ At(p) = (IF 0 <= a /\ a < v7 THEN a + 1 ELSE 0)
            /\ At(p + 1) = (IF 0 <= a + 1 /\ a + 1 < v7 THEN a + 2 ELSE 0)
            /\ At(p - 1) = (IF 0 <= a - 1 /\ a - 1 < v7 THEN a ELSE 0)
        BY ONLY <3>1, <3>2 DEF a
      <3> HIDE DEF At
      <3> QED BY ONLY <3>1, <3>2, <3>3
    <2> HIDE DEF At
    <2> QED BY <2>4, <2>5, <2>6
  <1> QED BY <1>3, <1>4, <1>5

-----------------------------------------------------------------------------
(* Types.  Each module has, beside its invariant, what its variables are; a *)
(* step keeps it where the invariant holds.                                 *)
RfidFits ==
  /\ v2 \in Seq(Chars) /\ v8 \in Seq({0, 1})
  /\ Len(v2) <= RfidBuffer - 2 /\ Len(v8) <= RfidLeds
  /\ v3 \in BOOLEAN /\ v4 \in BOOLEAN /\ v10 \in BOOLEAN

LEMMA RfidFitsFirst == ASSUME Rfid!Init PROVE RfidFits
  <1>1. v2 = <<>> /\ v8 = <<>> /\ v3 \in BOOLEAN /\ v4 \in BOOLEAN /\ v10 = FALSE
    BY DEF Rfid!Init
  <1>2. Len(<<>>) = 0 /\ <<>> \in Seq(Chars) /\ <<>> \in Seq({0, 1})
    OBVIOUS
  <1>3. Len(v2) <= RfidBuffer - 2 /\ Len(v8) <= RfidLeds
    <2>1. Len(v2) = 0 /\ Len(v8) = 0
      BY <1>1, <1>2
    <2> QED BY <2>1, RfidAssumption
  <1>4. v2 \in Seq(Chars) /\ v8 \in Seq({0, 1})
    BY <1>1, <1>2
  <1> QED BY ONLY <1>1, <1>3, <1>4 DEF RfidFits

LEMMA RfidFitsOn ==
  ASSUME RfidInv, RfidInv', RfidFits, Rfid!Next \/ UNCHANGED Rfid!vars PROVE RfidFits'
  <1>0. /\ v2' \in Seq(Chars) /\ v8' \in Seq({0, 1})
        /\ RfidBuffer \in Nat /\ RfidBuffer >= 3 /\ RfidLeds \in Nat
    BY RfidAssumption DEF RfidInv, RfidSet, RfidLine
  <1>1. v4' \in BOOLEAN /\ v10' \in BOOLEAN
    BY DEF RfidFits, Rfid!Next, Rfid!vars, Rfid!ReaderSays, Rfid!Lose, Rfid!rfid_info,
       Rfid!rfid_char_in, Rfid!rfid_handler, Rfid!rfid_set_led
  <1>2. ASSUME NEW c, Rfid!Put(c) PROVE Len(v2') <= RfidBuffer - 2 /\ v3' \in BOOLEAN
    <2> DEFINE text == IF c \in Rfid!End THEN v2 ELSE Append(v2, c)
    <2>1. \/ v2' = <<>> /\ v3' = (v3 \/ text = Rfid!Name)
          \/ c \notin Rfid!End /\ Len(text) # RfidBuffer - 1 /\ v2' = text /\ v3' = v3
      BY <1>2 DEF Rfid!Put, Rfid!rfid_line
    <2>2. c \notin Rfid!End => Len(text) = Len(v2) + 1
      BY DEF RfidFits
    <2> HIDE DEF text
    <2>3. Len(<<>>) = 0 /\ Len(v2) \in Nat
      BY DEF RfidFits
    <2>4. Len(v2') <= RfidBuffer - 2
      BY <2>1, <2>2, <2>3, <1>0 DEF RfidFits
    <2>5. v3' \in BOOLEAN
      BY <2>1 DEF RfidFits
    <2> QED BY <2>4, <2>5
  <1>3. Len(v2') <= RfidBuffer - 2 /\ v3' \in BOOLEAN
    <2>1. Len(<<>>) = 0
      OBVIOUS
    <2>2. CASE Rfid!rfid_info
      <3>1. v2' = <<>> /\ v3' = FALSE
        BY <2>2 DEF Rfid!rfid_info
      <3>2. Len(v2') = 0
        BY <2>1, <3>1
      <3>3. 0 <= RfidBuffer - 2
        BY <1>0
      <3> QED BY ONLY <3>1, <3>2, <3>3
    <2>3. CASE \E c : Rfid!Put(c)
      <3>1. PICK c : Rfid!Put(c)
        BY <2>3
      <3> QED BY <1>2, <3>1
    <2>4. CASE UNCHANGED <<v2, v3>>
      BY <2>4 DEF RfidFits
    <2>5. Rfid!rfid_info \/ (\E c : Rfid!Put(c)) \/ UNCHANGED <<v2, v3>>
      BY DEF Rfid!Next, Rfid!vars, Rfid!ReaderSays, Rfid!Lose,
         Rfid!rfid_char_in, Rfid!rfid_handler, Rfid!rfid_set_led
    <2> QED BY <2>2, <2>3, <2>4, <2>5
  <1>4. Len(v8') <= RfidLeds
    <2>1. Len(v8) \in Nat /\ v8 \in Seq({0, 1}) /\ Len(v8) <= RfidLeds
      BY DEF RfidFits
    <2>2. CASE \E freq, led \in Rfid!Values \cup {10} : Rfid!rfid_handler(freq, led)
      <3>1. Len(v8) < RfidLeds /\ \E e : v8' = Append(v8, e)
        BY <2>2 DEF Rfid!rfid_handler
      <3>2. PICK e : v8' = Append(v8, e)
        BY <3>1
      <3>3. Len(v8') = Len(v8) + 1
        BY <2>1, <3>2
      <3> QED BY <2>1, <3>1, <3>3, <1>0
    <2>3. CASE Rfid!rfid_set_led
      <3>1. v8 # <<>> /\ v8' = Tail(v8)
        BY <2>3 DEF Rfid!rfid_set_led
      <3>2. Len(v8') = Len(v8) - 1
        BY <2>1, <3>1
      <3> QED BY <2>1, <3>2, <1>0
    <2>4. CASE UNCHANGED v8
      BY <2>1, <2>4
    <2> QED BY <2>2, <2>3, <2>4 DEF Rfid!Next, Rfid!vars, Rfid!ReaderSays, Rfid!Lose,
            Rfid!rfid_char_in, Rfid!rfid_info
  <1> QED BY <1>0, <1>1, <1>3, <1>4 DEF RfidFits

LEMMA RfidTypes == ASSUME RfidInv, RfidFits PROVE Rfid!TypeOK
  <1>1. v8 \in [1..Len(v8) -> {0, 1}] /\ Len(v8) \in 0..RfidLeds
    BY RfidAssumption DEF RfidFits
  <1>2. v8 \in UNION {[1..n -> {0, 1}] : n \in 0..RfidLeds}
    BY <1>1
  <1> QED BY <1>2 DEF RfidInv, RfidSet, RfidLine, RfidFits, Rfid!TypeOK, Rfid!Values

PingFits == v3 \in BOOLEAN /\ v6 \in BOOLEAN /\ v7 \in BOOLEAN /\ v11 \in 0..(2^ClockBits - 1)

LEMMA PingFitsFirst == ASSUME Ping!Init PROVE PingFits
  <1>1. v1 \in 0..(2^ClockBits - 1) /\ v3 = FALSE /\ v6 = FALSE /\ v7 = FALSE /\ v11 = 0
    BY DEF Ping!Init
  <1>2. \A w : v1 \in 0..(w - 1) /\ w \in Nat => 0 \in 0..(w - 1)
    OBVIOUS
  <1>3. 0 \in 0..(2^ClockBits - 1)
    BY <1>1, <1>2, PingAssumption
  <1> QED BY <1>1, <1>3 DEF PingFits

LEMMA PingFitsOn ==
  ASSUME PingInv, PingFits, Ping!Next \/ UNCHANGED Ping!vars PROVE PingFits'
  <1>1. v3' \in BOOLEAN /\ v6' \in BOOLEAN /\ v7' \in BOOLEAN
    BY DEF PingFits, Ping!Next, Ping!vars, Ping!ping_pingUs, Ping!Forget, Ping!WaitLow,
       Ping!GiveUp, Ping!Trigger, Ping!WaitEcho, Ping!Echoed, Ping!Edge, Ping!Between,
       Ping!ping_intr_handler
  <1>2. v11' = v11 \/ v11' = (v1 + EchoPeriod) % 2^ClockBits
    BY DEF Ping!Next, Ping!vars, Ping!ping_pingUs, Ping!WaitLow,
       Ping!GiveUp, Ping!Trigger, Ping!WaitEcho, Ping!Echoed, Ping!Edge, Ping!Between
  <1>3. v11' \in 0..(2^ClockBits - 1)
    <2>1. PICK w : w = 2^ClockBits
      OBVIOUS
    <2>2. w \in Nat /\ v1 \in 0..(w - 1) /\ v11 \in 0..(w - 1) /\ EchoPeriod \in Nat
      BY <2>1, PingAssumption DEF PingFits, PingInv, PingTyped
    <2>3. v11' = v11 \/ v11' = (v1 + EchoPeriod) % w
      BY <1>2, <2>1
    <2> QED BY <2>1, <2>2, <2>3
  <1> QED BY <1>1, <1>3 DEF PingFits

LEMMA PingTypes == ASSUME PingInv, PingFits PROVE Ping!TypeOK
  <1>1. v5 \in EchoPins \cup {-1}
    BY DEF PingInv, PingTyped, PingOwns
  <1> QED BY <1>1 DEF PingInv, PingTyped, PingFits, Ping!TypeOK

\* The counters of the scroll stay within their word.
LedRange == v5 \in 0..(LedWord - 1) /\ v6 \in 0..(LedWord - 1)

LEMMA LedWraps ==
  /\ LedWord \in Nat \ {0} /\ 0 \in 0..(LedWord - 1)
  /\ \A n \in Int : n % LedWord \in 0..(LedWord - 1)
  <1>1. /\ LedSide \in Nat \ {0} /\ LedMax \in Nat \ {0} /\ LedText \in Nat /\ LedWord \in Nat
        /\ LedText + LedMax * LedSide < LedWord
    BY LedAssumption
  <1>2. LedWord \in Nat \ {0}
    <2>1. LedMax * LedSide \in Nat
      BY <1>1
    <2> QED BY <1>1, <2>1
  <1> QED BY <1>2

LEMMA LedRangeFirst == ASSUME Led!Init PROVE LedRange
  BY LedWraps DEF Led!Init, LedRange

LEMMA LedRangeOn ==
  ASSUME LedInv, LedRange, Led!Next \/ UNCHANGED Led!vars PROVE LedRange'
  <1>1. CASE Led!Post
    <2>1. PICK d \in (0..LedMax + 1) \X (1..2) :
            \/ v5' = (d[1] * LedSide - 1) % LedWord /\ v6' = 0
            \/ UNCHANGED <<v5, v6>>
      BY <1>1 DEF Led!Post
    <2>2. d[1] * LedSide - 1 \in Int
      BY LedAssumption
    <2>3. PICK w \in Int : w = d[1] * LedSide - 1
      BY <2>2
    <2> QED BY <2>1, <2>3, LedWraps DEF LedRange
  <1>2. CASE Led!Scroll
    <2>1. v5' \in {v5, 0} /\ v6' \in {0, (v6 + 1) % LedWord}
      BY <1>2 DEF Led!Scroll
    <2>2. v6 + 1 \in Int
      BY DEF LedInv, LedCounts
    <2> QED BY <2>1, <2>2, LedWraps DEF LedRange
  <1>3. CASE Led!PostBusy \/ UNCHANGED Led!vars
    BY <1>3 DEF Led!PostBusy, Led!vars, LedRange
  <1> QED BY <1>1, <1>2, <1>3 DEF Led!Next

LEMMA LedTypes == ASSUME LedInv, LedRange PROVE Led!TypeOK
  BY DEF LedInv, LedCounts, LedRange, Led!TypeOK

LEMMA SizeFits == \A r \in Requests : r.size \in 0..Recv!MaxSize
  <1> DEFINE S == {r.size : r \in Requests}
             Top(n) == n \in S /\ \A r \in Requests : r.size <= n
  <1>1. Requests \subseteq [size : Nat \ {0}, streams : BOOLEAN]
        /\ \E r \in Requests : \A q \in Requests : q.size <= r.size
    BY ReceiveAssumption
  <1>2. \E n : Top(n)
    BY <1>1
  <1>3. Recv!MaxSize = CHOOSE n \in S : \A r \in Requests : r.size <= n
    BY DEF Recv!MaxSize
  <1>4. Top(Recv!MaxSize)
    BY <1>2, <1>3
  <1> QED BY <1>1, <1>4, MaxSizeIs

\* The receiver's numbers are those of a request, and what it has are its units.
RecvPart == Seq(Conns \X (1..Recv!MaxSize))

RecvFits ==
  /\ v1 \in [Conns -> {"new", "open", "closed"}]
  /\ \A c \in Conns : v4[c] \in 0..MaxRequests
  /\ v5 \in 0..Recv!MaxSize /\ v7.size \in 0..Recv!MaxSize /\ v7.units \in RecvPart
  /\ v10 \in RecvPart /\ v12 \in 0..Recv!MaxSize

LEMMA RecvFitsFirst == ASSUME Recv!Init PROVE RecvFits
  <1>1. /\ v1 = [c \in Conns |-> "new"] /\ v4 = [c \in Conns |-> 0]
        /\ v5 = 0 /\ v7 = [size |-> 0, units |-> <<>>] /\ v10 = <<>> /\ v12 = 0
    BY DEF Recv!Init, Recv!NoBuffer
  <1>2. 0 \in 0..Recv!MaxSize /\ 0 \in 0..MaxRequests
    BY MaxSizeIs, ReceiveAssumption
  <1>3. <<>> \in RecvPart
    BY EmptySeq DEF RecvPart
  <1> QED BY <1>1, <1>2, <1>3 DEF RecvFits

\* A packet is units of the request its connection sends.
LEMMA PacketFits ==
  ASSUME RecvInv, NEW c \in Conns, NEW k \in Nat \ {0}, v3[c] + k <= v2[c].size
  PROVE  /\ Recv!Units(c, v3[c] + 1, v3[c] + k) \in RecvPart
         /\ Len(Recv!Units(c, v3[c] + 1, v3[c] + k)) = k
  <1>1. /\ v3[c] \in Nat /\ v2[c] \in Requests /\ v2[c].size \in Nat
        /\ Recv!MaxSize \in Nat /\ v2[c].size <= Recv!MaxSize
    <2>1. v3[c] \in Nat /\ v2[c] \in Requests
      BY DEF RecvInv, RecvTyped
    <2> QED BY <2>1, MaxSizeIs, SizeFits
  <1>2. PICK n : n = v3[c]
    OBVIOUS
  <1> DEFINE u == Recv!Units(c, n + 1, n + k)
  <1>3. u \in Seq(RecvUnit) /\ Len(u) = k /\ \A i \in 1..k : u[i] = <<c, n + i>>
    <2>1. n \in Nat
      BY <1>1, <1>2
    <2> QED BY ONLY <2>1, UnitsAre, c \in Conns, k \in Nat \ {0}
  <1> HIDE DEF u
  <1>4. \A i \in 1..k : n + i \in 1..Recv!MaxSize
    BY <1>1, <1>2
  <1>5. ASSUME NEW i \in 1..Len(u) PROVE u[i] \in Conns \X (1..Recv!MaxSize)
    <2>1. u[i] = <<c, n + i>> /\ n + i \in 1..Recv!MaxSize
      BY <1>3, <1>4
    <2> QED BY <2>1
  <1>6. u \in RecvPart
    <2>1. u \in [1..Len(u) -> Conns \X (1..Recv!MaxSize)] /\ Len(u) \in Nat
      BY <1>3, <1>5
    <2> QED BY <2>1 DEF RecvPart
  <1> QED BY <1>2, <1>3, <1>6 DEF u

\* What a request and its packet leave.
LEMMA AskedFits ==
  ASSUME RecvFits, NEW c, NEW units \in RecvPart, NEW id, NEW isLast,
         v2[c].size \in 0..Recv!MaxSize, Recv!WebserverRequest(c, units, id, isLast)
  PROVE  v10' \in RecvPart /\ v12' \in 0..Recv!MaxSize
  <1>1. v10' \in {v10, v10 \o units, units} /\ v12' \in {v12, v2[c].size}
    BY DEF Recv!WebserverRequest
  <1>2. v10 \o units \in RecvPart
    BY ConcatProperties DEF RecvFits, RecvPart
  <1> QED BY <1>1, <1>2 DEF RecvFits

LEMMA TakenFits ==
  ASSUME RecvFits, NEW c, NEW units \in RecvPart, NEW n \in 0..Recv!MaxSize, NEW buffer, NEW id,
         v2[c].size \in 0..Recv!MaxSize, Len(units) \in 1..n,
         buffer.size \in 0..Recv!MaxSize, buffer.units \in RecvPart,
         buffer = [size |-> buffer.size, units |-> buffer.units],
         Recv!Take(c, units, n, buffer, id)
  PROVE  /\ v5' \in 0..Recv!MaxSize /\ v7'.size \in 0..Recv!MaxSize /\ v7'.units \in RecvPart
         /\ v10' \in RecvPart /\ v12' \in 0..Recv!MaxSize
  <1>1. v5' = n - Len(units) /\ v5' \in 0..Recv!MaxSize
    BY MaxSizeIs DEF Recv!Take, Recv!Left
  <1>2. 0 \in 0..Recv!MaxSize /\ <<>> \in RecvPart
    BY MaxSizeIs, EmptySeq DEF RecvPart
  <1>3. ASSUME v7' = Recv!NoBuffer PROVE v7'.size \in 0..Recv!MaxSize /\ v7'.units \in RecvPart
    BY <1>2, <1>3 DEF Recv!NoBuffer
  <1> DEFINE all == buffer.units \o units
  <1>4. all \in RecvPart
    BY ConcatProperties DEF RecvPart
  <1> HIDE DEF all
  <1>5. \/ v7' = Recv!NoBuffer /\ Recv!WebserverRequest(c, units, id, Len(units) = n)
        \/ v7' = Recv!NoBuffer /\ Recv!WebserverRequest(c, all, 0, TRUE)
        \/ v7' = [buffer EXCEPT !.units = all] /\ UNCHANGED <<v10, v12>>
    BY DEF Recv!Take, all
  <1>6. CASE v7' = Recv!NoBuffer /\ Recv!WebserverRequest(c, units, id, Len(units) = n)
    BY <1>1, <1>3, <1>6, AskedFits
  <1>7. CASE v7' = Recv!NoBuffer /\ Recv!WebserverRequest(c, all, 0, TRUE)
    BY <1>1, <1>3, <1>4, <1>7, AskedFits
  <1>8. CASE v7' = [buffer EXCEPT !.units = all] /\ UNCHANGED <<v10, v12>>
    <2>1. v7' = [size |-> buffer.size, units |-> all]
      BY <1>8
    <2> QED BY <1>1, <1>4, <1>8, <2>1 DEF RecvFits
  <1> QED BY <1>5, <1>6, <1>7, <1>8

LEMMA RecvFitsOn ==
  ASSUME RecvInv, RecvFits, Recv!Next \/ UNCHANGED Recv!vars PROVE RecvFits'
  <1>0. RecvTyped /\ Recv!MaxSize \in Nat
    BY MaxSizeIs DEF RecvInv
  <1>1. ASSUME NEW c \in Conns, NEW k \in 1..Recv!MaxSize, Recv!Receive(c, k) PROVE RecvFits'
    <2>1. /\ v3[c] + k <= v2[c].size /\ UNCHANGED <<v1, v4>> /\ k \in Nat \ {0}
          /\ \/ Recv!First(c, Recv!Units(c, v3[c] + 1, v3[c] + k))
             \/ Recv!Later(c, Recv!Units(c, v3[c] + 1, v3[c] + k)) \/ Recv!Dropped(c)
      BY <1>0, <1>1 DEF Recv!Receive
    <2>2. v2[c] \in Requests /\ v2[c].size \in 0..Recv!MaxSize
      BY <1>0, SizeFits DEF RecvTyped
    <2>3. PICK u : u = Recv!Units(c, v3[c] + 1, v3[c] + k)
      OBVIOUS
    <2>4. u \in RecvPart /\ Len(u) = k
      BY <2>1, <2>3, PacketFits
    <2>5. CASE Recv!First(c, u)
      <3> DEFINE n == Recv!TotalLen(c, u)
      <3>1. Recv!Take(c, u, n, Recv!Buffer(n, u), 0)
        BY <2>5 DEF Recv!First
      <3>2. n \in 0..Recv!MaxSize /\ Len(u) \in 1..n
        <4>1. v3[c] \in Nat
          BY <1>0 DEF RecvTyped
        <4> QED BY <1>0, <2>1, <2>2, <2>4, <4>1 DEF Recv!TotalLen
      <3> HIDE DEF n
      <3>3. PICK b : b = Recv!Buffer(n, u)
        OBVIOUS
      <3>4. /\ b = [size |-> b.size, units |-> b.units] /\ b.size \in 0..Recv!MaxSize
            /\ b.units \in RecvPart
        BY <1>0, <3>2, <3>3, EmptySeq DEF Recv!Buffer, Recv!NoBuffer, RecvPart
      <3>5. /\ v5' \in 0..Recv!MaxSize /\ v7'.size \in 0..Recv!MaxSize
            /\ v7'.units \in RecvPart /\ v10' \in RecvPart /\ v12' \in 0..Recv!MaxSize
        BY <2>2, <2>4, <3>1, <3>2, <3>3, <3>4, TakenFits
      <3> QED BY <2>1, <3>5 DEF RecvFits
    <2>6. CASE Recv!Later(c, u)
      <3>1. Recv!Take(c, u, v5, v7, v6) /\ v5 # 0 /\ v8 = c
        BY <2>6 DEF Recv!Later, Recv!Match
      <3>2. v5 \in 0..Recv!MaxSize /\ Len(u) \in 1..v5
        <4>1. v5 = v2[c].size - v3[c] /\ v3[c] \in Nat
          BY <3>1 DEF RecvInv, RecvUnderWay, RecvTyped
        <4> QED BY <2>1, <2>2, <2>4, <4>1 DEF RecvFits
      <3>3. v7 = [size |-> v7.size, units |-> v7.units]
        BY <1>0 DEF RecvTyped
      <3>5. /\ v5' \in 0..Recv!MaxSize /\ v7'.size \in 0..Recv!MaxSize
            /\ v7'.units \in RecvPart /\ v10' \in RecvPart /\ v12' \in 0..Recv!MaxSize
        BY <2>2, <2>4, <3>1, <3>2, <3>3, TakenFits DEF RecvFits
      <3> QED BY <2>1, <3>5 DEF RecvFits
    <2>7. CASE Recv!Dropped(c)
      BY <2>1, <2>7 DEF Recv!Dropped, Recv!historyVars, RecvFits
    <2> QED BY <2>1, <2>3, <2>5, <2>6, <2>7
  <1>2. ASSUME NEW c \in Conns, NEW r \in Requests, Recv!Ask(c, r) PROVE RecvFits'
    <2>1. /\ v4[c] < MaxRequests /\ v4' = [v4 EXCEPT ![c] = @ + 1]
          /\ UNCHANGED <<v1, v5, v7, v10, v12>>
      BY <1>2 DEF Recv!Ask
    <2>2. v4 \in [Conns -> Nat] /\ v4'[c] = v4[c] + 1 /\ \A d \in Conns \ {c} : v4'[d] = v4[d]
      BY <1>0, <2>1 DEF RecvTyped
    <2>3. \A d \in Conns : v4'[d] \in 0..MaxRequests
      BY <2>1, <2>2, ReceiveAssumption DEF RecvFits
    <2> QED BY <2>1, <2>3 DEF RecvFits
  <1>3. ASSUME NEW c \in Conns, Recv!Broken(c) PROVE RecvFits'
    <2>1. /\ v1' = [v1 EXCEPT ![c] = "closed"] /\ v5' = 0
          /\ v7' = [size |-> 0, units |-> <<>>] /\ UNCHANGED <<v4, v10, v12>>
      BY <1>3 DEF Recv!Broken, Recv!NoBuffer
    <2>2. v7'.size = 0 /\ v7'.units \in RecvPart /\ 0 \in 0..Recv!MaxSize
      BY <1>0, <2>1, EmptySeq DEF RecvPart
    <2>3. v1' \in [Conns -> {"new", "open", "closed"}]
      BY <2>1 DEF RecvFits
    <2> QED BY <2>1, <2>2, <2>3 DEF RecvFits
  <1>4. ASSUME NEW c \in Conns, Recv!Connect(c) \/ Recv!Disconnected(c) PROVE RecvFits'
    <2>1. /\ v1' \in [Conns -> {"new", "open", "closed"}]
          /\ UNCHANGED <<v4, v5, v7, v10, v12>>
      BY <1>4 DEF Recv!Connect, Recv!Disconnected, Recv!historyVars, RecvFits
    <2> QED BY <2>1 DEF RecvFits
  <1>5. CASE UNCHANGED Recv!vars
    BY <1>5 DEF Recv!vars, Recv!clientVars, Recv!historyVars, RecvFits
  <1> QED BY <1>1, <1>2, <1>3, <1>4, <1>5 DEF Recv!Next

LEMMA RecvTypes == ASSUME RecvInv, RecvFits PROVE Recv!TypeOK
  <1>0. RecvTyped /\ RecvSent
    BY DEF RecvInv
  <1>1. ASSUME NEW c \in Conns PROVE v3[c] \in 0..Recv!MaxSize
    <2>1. v2[c] \in Requests /\ v3[c] \in Nat /\ v3[c] <= v2[c].size
      BY <1>0 DEF RecvTyped, RecvSent
    <2>2. v2[c].size \in Nat /\ v2[c].size <= Recv!MaxSize /\ Recv!MaxSize \in Nat
      BY <2>1, MaxSizeIs, SizeFits
    <2> QED BY <2>1, <2>2
  <1>2. v3 \in [Conns -> 0..Recv!MaxSize] /\ v4 \in [Conns -> 0..MaxRequests]
    BY <1>0, <1>1 DEF RecvTyped, RecvFits
  <1>3. /\ v2 \in [Conns -> Requests] /\ v6 \in Nat /\ v8 \in Conns \cup {NoConn}
        /\ v9 \in BOOLEAN /\ v11 \in BOOLEAN /\ v15 \in BOOLEAN
        /\ v13 \in [Conns -> BOOLEAN] /\ v14 \in [Conns -> Nat]
    BY <1>0 DEF RecvTyped
  <1> QED BY <1>2, <1>3 DEF RecvFits, RecvPart, Recv!TypeOK, Recv!Unit

\* The test of the display ends, and an animation is not started without end.
PanelFits ==
  /\ v1.i \in 0..BadgeColumns
  /\ v2 \in {0, 1} /\ v3 \in {0, 1} /\ v4 \in BOOLEAN
  /\ v5 \in [Panel!Animation -> [on : BOOLEAN, timers : 0..BadgeChains]]
  /\ v6 \in [i : 0..BadgeTest, on : BOOLEAN] /\ (v6.on => v6.i < BadgeTest)
  /\ v7 \subseteq {"cls", "wifi"} /\ v8 \in {"blank", "text", "wifi", "server", "test"}

LEMMA PanelFitsFirst == ASSUME Panel!Init PROVE PanelFits
  <1>1. /\ v1.i = 0 /\ v2 = 0 /\ v3 = 0 /\ v4 = TRUE /\ v6 = [i |-> 1, on |-> TRUE]
        /\ v7 = {} /\ v8 = "test" /\ v5 = [a \in Panel!Animation |-> [on |-> FALSE, timers |-> 0]]
    BY DEF Panel!Init
  <1>2. 0 \in 0..BadgeColumns /\ 1 \in 0..BadgeTest /\ 1 < BadgeTest /\ 0 \in 0..BadgeChains
    BY BadgeAssumption
  <1>3. v5 \in [Panel!Animation -> [on : BOOLEAN, timers : 0..BadgeChains]]
    BY ONLY <1>1, <1>2
  <1>4. v6 \in [i : 0..BadgeTest, on : BOOLEAN] /\ v6.i = 1
    BY ONLY <1>1, <1>2
  <1> QED BY ONLY <1>1, <1>2, <1>3, <1>4 DEF PanelFits

LEMMA PanelStarts1 ==
  ASSUME PanelFits, NEW a \in Panel!Animation, Panel!AnimationStart(a)
  PROVE  /\ v5' \in [Panel!Animation -> [on : BOOLEAN, timers : 0..BadgeChains]]
         /\ v8' \in {"blank", "text", "wifi", "server", "test"}
  <1> DEFINE R == [on : BOOLEAN, timers : 0..BadgeChains]
  <1>1. /\ v5 \in [Panel!Animation -> R] /\ v5[a].timers < BadgeChains
        /\ v5' = [v5 EXCEPT ![a] = [on |-> TRUE, timers |-> v5[a].timers + 1]]
        /\ v8' \in {v8, a}
    BY DEF PanelFits, Panel!AnimationStart, Panel!Drawn
  <1>2. [on |-> TRUE, timers |-> v5[a].timers + 1] \in R
    <2>1. v5[a] \in R
      BY <1>1
    <2> QED BY <1>1, <2>1, BadgeAssumption
  <1> HIDE DEF R
  <1>3. v5' \in [Panel!Animation -> R]
    BY ONLY <1>1, <1>2
  <1> QED BY <1>1, <1>3 DEF R, PanelFits, Panel!Animation

LEMMA PanelFitsOn ==
  ASSUME PanelInv, PanelFits, Panel!Next \/ UNCHANGED Panel!vars PROVE PanelFits'
  <1> DEFINE R == [on : BOOLEAN, timers : 0..BadgeChains]
             Shows == {"blank", "text", "wifi", "server", "test"}
  <1>1. CASE \E new \in {0, 1} : Panel!Post(new)
    <2>1. UNCHANGED <<v4, v5, v6, v7>>
      BY <1>1 DEF Panel!Post
    <2>2. \/ UNCHANGED <<v1, v2, v3, v8>>
          \/ v1'.i = 0 /\ v2' \in {0, 1} /\ v3' \in {0, 1} /\ v8' = "blank"
      BY <1>1 DEF Panel!Post, Panel!Scroll
    <2>3. 0 \in 0..BadgeColumns
      BY BadgeAssumption
    <2> QED BY <2>1, <2>2, <2>3 DEF PanelFits
  <1>2. CASE Panel!Battery
    <2>1. /\ UNCHANGED <<v2, v3, v5, v6, v7>> /\ v4' \in BOOLEAN
          /\ v1' = v1 \/ v1'.i = 0
          /\ v8' \in {v8, "blank"}
      BY <1>2 DEF Panel!Battery, Panel!Scroll
    <2>2. v1'.i \in 0..BadgeColumns
      BY <2>1, BadgeAssumption DEF PanelFits
    <2> QED BY <2>1, <2>2 DEF PanelFits
  <1>3. CASE Panel!ScrollStep
    <2>1. /\ UNCHANGED <<v2, v3, v5, v6, v7>> /\ v4' \in {v4, TRUE} /\ v8' \in {"text", "blank"}
      BY <1>3 DEF Panel!ScrollStep, Panel!ScrollEnd
    <2>2. CASE v1.i + 1 >= BadgeColumns
      <3>1. v1'.i = 0
        <4>1. PICK s : /\ s = [v1 EXCEPT !.on = FALSE, !.of = "none", !.i = 0, !.timers = @ - 1]
                       /\ v1' = IF v4 THEN s ELSE Panel!Scroll(s, "battery")
          BY <1>3, <2>2 DEF Panel!ScrollStep, Panel!ScrollEnd
        <4>2. s.i = 0 /\ s.on = FALSE
          BY <4>1 DEF PanelInv
        <4> QED BY <4>1, <4>2 DEF Panel!Scroll
      <3>2. v1'.i \in 0..BadgeColumns
        BY <3>1, BadgeAssumption
      <3> QED BY <2>1, <3>2 DEF PanelFits
    <2>3. CASE ~ (v1.i + 1 >= BadgeColumns)
      <3>1. v1' = [v1 EXCEPT !.i = @ + 1]
        BY <1>3, <2>3 DEF Panel!ScrollStep
      <3>2. v1'.i = v1.i + 1
        BY <3>1 DEF PanelInv
      <3>3. v1'.i \in 0..BadgeColumns
        BY <2>3, <3>2, BadgeAssumption DEF PanelFits
      <3> QED BY <2>1, <3>3 DEF PanelFits
    <2> QED BY <2>2, <2>3
  <1>4. ASSUME NEW a \in Panel!Animation, Panel!AnimationStart(a), v7' \subseteq v7 PROVE PanelFits'
    <2>1. UNCHANGED <<v1, v2, v3, v4, v6>>
      BY <1>4 DEF Panel!AnimationStart
    <2>2. /\ v5' \in [Panel!Animation -> [on : BOOLEAN, timers : 0..BadgeChains]]
          /\ v8' \in {"blank", "text", "wifi", "server", "test"}
      BY <1>4, PanelStarts1
    <2> QED BY <1>4, <2>1, <2>2 DEF PanelFits
  <1>5. ASSUME NEW a \in Panel!Animation, Panel!AnimationStop(a) PROVE PanelFits'
    <2>1. UNCHANGED <<v1, v2, v3, v4, v6, v7, v8>> /\ v5' = [v5 EXCEPT ![a].on = FALSE]
      BY <1>5 DEF Panel!AnimationStop
    <2>2. v5 \in [Panel!Animation -> R]
      BY DEF PanelFits
    <2>3. v5' \in [Panel!Animation -> R]
      BY <2>1, <2>2
    <2> QED BY <2>1, <2>3 DEF PanelFits
  <1>6. ASSUME NEW a \in Panel!Animation, Panel!AnimationStep(a) PROVE PanelFits'
    <2>1. /\ UNCHANGED <<v1, v2, v3, v4, v6, v7>> /\ v8' \in {v8, a, "blank"}
          /\ v5[a].timers > 0 /\ (v5' = v5 \/ v5' = [v5 EXCEPT ![a].timers = v5[a].timers - 1])
      BY <1>6 DEF Panel!AnimationStep, Panel!Drawn
    <2>2. v5 \in [Panel!Animation -> R] /\ v5[a] \in R
      BY DEF PanelFits
    <2>3. v5[a].timers - 1 \in 0..BadgeChains
      BY <2>1, <2>2, BadgeAssumption
    <2>4. v5' \in [Panel!Animation -> R]
      BY <2>1, <2>2, <2>3
    <2>5. v8' \in Shows
      BY <2>1 DEF PanelFits, Panel!Animation
    <2> QED BY <2>1, <2>4, <2>5 DEF PanelFits
  <1>7. CASE Panel!TestStep
    <2>1. /\ UNCHANGED <<v1, v2, v3, v4, v5>> /\ v6.on /\ v8' \in {v8, "test"}
          /\ v7' = v7 \/ v7' = {"cls", "wifi"}
          /\ \/ v6' = [v6 EXCEPT !.on = FALSE]
             \/ v6' = [i |-> v6.i + 1, on |-> v6.i + 1 < BadgeTest]
      BY <1>7 DEF Panel!TestStep
    <2>2. v6' \in [i : 0..BadgeTest, on : BOOLEAN] /\ (v6'.on => v6'.i < BadgeTest)
      <3>1. v6.i \in 0..BadgeTest /\ v6.i < BadgeTest /\ v6 \in [i : 0..BadgeTest, on : BOOLEAN]
        BY <2>1 DEF PanelFits
      <3>2. v6.i + 1 \in 0..BadgeTest
        BY <3>1, BadgeAssumption
      <3>3. CASE v6' = [v6 EXCEPT !.on = FALSE]
        BY <3>1, <3>3
      <3>4. CASE v6' = [i |-> v6.i + 1, on |-> v6.i + 1 < BadgeTest]
        <4>1. (v6.i + 1 < BadgeTest) \in BOOLEAN
          OBVIOUS
        <4> QED BY <3>2, <3>4, <4>1
      <3> QED BY <2>1, <3>3, <3>4
    <2>3. v7' \subseteq {"cls", "wifi"}
      BY <2>1 DEF PanelFits
    <2> QED BY <2>1, <2>2, <2>3 DEF PanelFits
  <1>8. CASE Panel!TestClear
    BY <1>8 DEF Panel!TestClear, PanelFits
  <1>9. CASE Panel!TestAnimation
    <2>1. /\ v7' = {}
          /\ \/ UNCHANGED <<v1, v2, v3, v4, v5, v6, v8>>
             \/ Panel!AnimationStart("wifi")
      BY <1>9 DEF Panel!TestAnimation
    <2>2. "wifi" \in Panel!Animation
      BY DEF Panel!Animation
    <2>3. CASE Panel!AnimationStart("wifi")
      <3>1. PICK a \in Panel!Animation : a = "wifi"
        BY <2>2
      <3>2. Panel!AnimationStart(a) /\ v7' \subseteq v7
        BY <2>1, <2>3, <3>1
      <3> QED BY <1>4, <3>2
    <2>4. CASE UNCHANGED <<v1, v2, v3, v4, v5, v6, v8>>
      BY <2>1, <2>4 DEF PanelFits
    <2> QED BY <2>1, <2>3, <2>4
  <1>10. CASE UNCHANGED Panel!vars
    BY <1>10 DEF Panel!vars, PanelFits
  <1>11. ASSUME NEW a \in Panel!Animation,
                \/ Panel!AnimationStart(a) /\ UNCHANGED v7
                \/ Panel!AnimationStop(a) \/ Panel!AnimationStep(a)
         PROVE  PanelFits'
    BY <1>4, <1>5, <1>6, <1>11
  <1> QED BY <1>1, <1>2, <1>3, <1>7, <1>8, <1>9, <1>10, <1>11 DEF Panel!Next

LEMMA PanelTypes == ASSUME PanelInv, PanelFits PROVE Panel!TypeOK
  <1>1. v1.timers \in 0..2
    BY DEF PanelInv, Panel!OneScroll
  <1> QED BY <1>1 DEF PanelInv, PanelFits, Panel!TypeOK
-----------------------------------------------------------------------------
(* A behaviour follows one module: it starts as that module does, and its  *)
(* steps are the module's: its invariant holds, and its variables fit.     *)
IInv ==
  /\ device = "plug" => PlugInv
  /\ device = "switch1" => OneInv
  /\ device = "switch2" => TwoInv
  /\ device = "dio" => DioInv
  /\ device = "emtr" => EmtrInv /\ EmtrFits
  /\ device = "finger" => FingerInv /\ FingerFits
  /\ device = "keys" => KeysInv /\ KeysFits
  /\ device = "modules" => ModsInv /\ ModsFits
  /\ device = "thermo" => TempInv /\ TempFits
  /\ device = "sensors" => SensInv /\ SensFits
  /\ device = "config" => StoreInv /\ StoreFits
  /\ device = "emtrregs" => RegsInv /\ RegsFits
  /\ device = "gauges" => GaugeInv /\ GaugeFits
  /\ device = "rfid" => RfidInv /\ RfidFits
  /\ device = "ping" => PingInv /\ PingFits
  /\ device = "wifi" => WifiInv /\ WifiFits
  /\ device = "scan" => ScanInv /\ ScanFits
  /\ device = "dispatch" => HttpInv /\ HttpFits
  /\ device = "receive" => RecvInv /\ RecvFits
  /\ device = "frames" => WsInv /\ WsFits
  /\ device = "serial" => SerialInv /\ SerialFits
  /\ device = "badge" => PanelInv /\ PanelFits
  /\ device = "led8x8" => LedInv /\ LedRange

\* The invariant of whichever module a behaviour follows holds at its start.
LEMMA InitIInv == ASSUME Init PROVE IInv
  <1>1. device = "plug" => PlugInv
    BY PlugStarts DEF Init
  <1>2. device = "switch1" => OneInv
    BY OneStarts DEF Init
  <1>3. device = "switch2" => TwoInv
    BY TwoStarts DEF Init
  <1>4. device = "dio" => DioInv
    BY DioStarts DEF Init
  <1>5. device = "emtr" => EmtrInv /\ EmtrFits
    BY EmtrStarts, EmtrFitsFirst DEF Init
  <1>6. device = "finger" => FingerInv /\ FingerFits
    BY FingerStarts, FingerFitsFirst DEF Init
  <1>7. device = "keys" => KeysInv /\ KeysFits
    BY KeysStarts, KeysFitsFirst DEF Init
  <1>8. device = "modules" => ModsInv /\ ModsFits
    BY ModsStarts, ModsFitsFirst DEF Init
  <1>9. device = "thermo" => TempInv /\ TempFits
    BY TempStarts, TempFitsFirst DEF Init
  <1>10. device = "sensors" => SensInv /\ SensFits
    BY SensStarts, SensFitsFirst DEF Init
  <1>11. device = "config" => StoreInv /\ StoreFits
    BY StoreStarts, StoreFitsFirst DEF Init
  <1>12. device = "emtrregs" => RegsInv /\ RegsFits
    BY RegsStarts, RegsFitsFirst DEF Init
  <1>13. device = "gauges" => GaugeInv /\ GaugeFits
    BY GaugeStarts, GaugeFitsFirst DEF Init
  <1>14. device = "rfid" => RfidInv /\ RfidFits
    BY RfidStarts, RfidFitsFirst DEF Init
  <1>15. device = "ping" => PingInv /\ PingFits
    BY PingStarts, PingFitsFirst DEF Init
  <1>16. device = "wifi" => WifiInv /\ WifiFits
    BY WifiStarts, WifiFitsFirst DEF Init
  <1>17. device = "scan" => ScanInv /\ ScanFits
    BY ScanStarts, ScanFitsFirst DEF Init
  <1>18. device = "dispatch" => HttpInv /\ HttpFits
    BY HttpStarts, HttpFitsFirst DEF Init
  <1>19. device = "receive" => RecvInv /\ RecvFits
    BY RecvStarts, RecvFitsFirst DEF Init
  <1>20. device = "frames" => WsInv /\ WsFits
    BY WsStarts, WsFitsFirst DEF Init
  <1>21. device = "serial" => SerialInv /\ SerialFits
    BY SerialStarts, SerialFitsFirst DEF Init
  <1>22. device = "badge" => PanelInv /\ PanelFits
    BY PanelStarts, PanelFitsFirst DEF Init
  <1>23. device = "led8x8" => LedInv /\ LedRange
    BY LedStarts, LedRangeFirst DEF Init
  <1> QED BY <1>1, <1>2, <1>3, <1>4, <1>5, <1>6, <1>7, <1>8, <1>9, <1>10, <1>11, <1>12, <1>13, <1>14, <1>15, <1>16, <1>17, <1>18, <1>19, <1>20, <1>21, <1>22, <1>23 DEF IInv

\* ... and is kept by every step.
LEMMA NextIInv == ASSUME IInv, [Next]_vars PROVE IInv'
  <1>0. device' = device
    BY DEF Next, vars
  <1>1. device' = "plug" => PlugInv'
    <2> SUFFICES ASSUME device' = "plug" PROVE PlugInv'
      OBVIOUS
    <2>1. Plug!Next \/ UNCHANGED Plug!vars
      BY <1>0 DEF Next, vars, Plug!vars
    <2>2. PlugInv
      BY <1>0 DEF IInv
    <2> QED BY ONLY <2>1, <2>2, PlugKeeps
  <1>2. device' = "switch1" => OneInv'
    <2> SUFFICES ASSUME device' = "switch1" PROVE OneInv'
      OBVIOUS
    <2>1. One!Next \/ UNCHANGED One!vars
      BY <1>0 DEF Next, vars, One!vars
    <2>2. OneInv
      BY <1>0 DEF IInv
    <2> QED BY ONLY <2>1, <2>2, OneKeeps
  <1>3. device' = "switch2" => TwoInv'
    <2> SUFFICES ASSUME device' = "switch2" PROVE TwoInv'
      OBVIOUS
    <2>1. Two!Next \/ UNCHANGED Two!vars
      BY <1>0 DEF Next, vars, Two!vars
    <2>2. TwoInv
      BY <1>0 DEF IInv
    <2> QED BY ONLY <2>1, <2>2, TwoKeeps
  <1>4. device' = "dio" => DioInv'
    <2> SUFFICES ASSUME device' = "dio" PROVE DioInv'
      OBVIOUS
    <2>1. Dio!Next \/ UNCHANGED Dio!vars
      BY <1>0 DEF Next, vars, Dio!vars
    <2>2. DioInv
      BY <1>0 DEF IInv
    <2> QED BY ONLY <2>1, <2>2, DioKeeps
  <1>5. device' = "emtr" => (EmtrInv /\ EmtrFits)'
    <2> SUFFICES ASSUME device' = "emtr" PROVE (EmtrInv /\ EmtrFits)'
      OBVIOUS
    <2>1. Emtr!Next \/ UNCHANGED Emtr!vars
      BY <1>0 DEF Next, vars, Emtr!vars
    <2>2. EmtrInv /\ EmtrFits
      BY <1>0 DEF IInv
    <2>3. EmtrInv'
      BY ONLY <2>1, <2>2, EmtrKeeps
    <2> QED BY ONLY <2>1, <2>2, <2>3, EmtrFitsOn
  <1>6. device' = "finger" => (FingerInv /\ FingerFits)'
    <2> SUFFICES ASSUME device' = "finger" PROVE (FingerInv /\ FingerFits)'
      OBVIOUS
    <2>1. Finger!Next \/ UNCHANGED Finger!vars
      BY <1>0 DEF Next, vars, Finger!vars
    <2>2. FingerInv /\ FingerFits
      BY <1>0 DEF IInv
    <2>3. FingerInv'
      BY ONLY <2>1, <2>2, FingerKeeps
    <2> QED BY ONLY <2>1, <2>2, <2>3, FingerFitsOn
  <1>7. device' = "keys" => (KeysInv /\ KeysFits)'
    <2> SUFFICES ASSUME device' = "keys" PROVE (KeysInv /\ KeysFits)'
      OBVIOUS
    <2>1. Keys!Next \/ UNCHANGED Keys!vars
      BY <1>0 DEF Next, vars, Keys!vars
    <2>2. KeysInv /\ KeysFits
      BY <1>0 DEF IInv
    <2>3. KeysInv'
      BY ONLY <2>1, <2>2, KeysKeeps
    <2> QED BY ONLY <2>1, <2>2, <2>3, KeysFitsOn
  <1>8. device' = "modules" => (ModsInv /\ ModsFits)'
    <2> SUFFICES ASSUME device' = "modules" PROVE (ModsInv /\ ModsFits)'
      OBVIOUS
    <2>1. Mods!Next \/ UNCHANGED Mods!vars
      BY <1>0 DEF Next, vars, Mods!vars
    <2>2. ModsInv /\ ModsFits
      BY <1>0 DEF IInv
    <2>3. ModsInv'
      BY ONLY <2>1, <2>2, ModsKeeps
    <2> QED BY ONLY <2>1, <2>2, <2>3, ModsFitsOn
  <1>9. device' = "thermo" => (TempInv /\ TempFits)'
    <2> SUFFICES ASSUME device' = "thermo" PROVE (TempInv /\ TempFits)'
      OBVIOUS
    <2>1. Temp!Next \/ UNCHANGED Temp!vars
      BY <1>0 DEF Next, vars, Temp!vars
    <2>2. TempInv /\ TempFits
      BY <1>0 DEF IInv
    <2>3. TempInv'
      BY ONLY <2>1, <2>2, TempKeeps
    <2> QED BY ONLY <2>1, <2>2, <2>3, TempFitsOn
  <1>10. device' = "sensors" => (SensInv /\ SensFits)'
    <2> SUFFICES ASSUME device' = "sensors" PROVE (SensInv /\ SensFits)'
      OBVIOUS
    <2>1. Sens!Next \/ UNCHANGED Sens!vars
      BY <1>0 DEF Next, vars, Sens!vars
    <2>2. SensInv /\ SensFits
      BY <1>0 DEF IInv
    <2>3. SensInv'
      BY ONLY <2>1, <2>2, SensKeeps
    <2> QED BY ONLY <2>1, <2>2, <2>3, SensFitsOn
  <1>11. device' = "config" => (StoreInv /\ StoreFits)'
    <2> SUFFICES ASSUME device' = "config" PROVE (StoreInv /\ StoreFits)'
      OBVIOUS
    <2>1. Store!Next \/ UNCHANGED Store!vars
      BY <1>0 DEF Next, vars, Store!vars
    <2>2. StoreInv /\ StoreFits
      BY <1>0 DEF IInv
    <2>3. StoreInv'
      BY ONLY <2>1, <2>2, StoreKeeps
    <2> QED BY ONLY <2>1, <2>2, <2>3, StoreFitsOn
  <1>12. device' = "emtrregs" => (RegsInv /\ RegsFits)'
    <2> SUFFICES ASSUME device' = "emtrregs" PROVE (RegsInv /\ RegsFits)'
      OBVIOUS
    <2>1. Regs!Next \/ UNCHANGED Regs!vars
      BY <1>0 DEF Next, vars, Regs!vars
    <2>2. RegsInv /\ RegsFits
      BY <1>0 DEF IInv
    <2>3. RegsInv'
      BY ONLY <2>1, <2>2, RegsKeeps
    <2> QED BY ONLY <2>1, <2>2, <2>3, RegsFitsOn
  <1>13. device' = "gauges" => (GaugeInv /\ GaugeFits)'
    <2> SUFFICES ASSUME device' = "gauges" PROVE (GaugeInv /\ GaugeFits)'
      OBVIOUS
    <2>1. Gauge!Next \/ UNCHANGED Gauge!vars
      BY <1>0 DEF Next, vars, Gauge!vars
    <2>2. GaugeInv /\ GaugeFits
      BY <1>0 DEF IInv
    <2>3. GaugeInv'
      BY ONLY <2>1, <2>2, GaugeKeeps
    <2> QED BY ONLY <2>1, <2>2, <2>3, GaugeFitsOn
  <1>14. device' = "rfid" => (RfidInv /\ RfidFits)'
    <2> SUFFICES ASSUME device' = "rfid" PROVE (RfidInv /\ RfidFits)'
      OBVIOUS
    <2>1. Rfid!Next \/ UNCHANGED Rfid!vars
      BY <1>0 DEF Next, vars, Rfid!vars
    <2>2. RfidInv /\ RfidFits
      BY <1>0 DEF IInv
    <2>3. RfidInv'
      BY ONLY <2>1, <2>2, RfidKeeps
    <2> QED BY ONLY <2>1, <2>2, <2>3, RfidFitsOn
  <1>15. device' = "ping" => (PingInv /\ PingFits)'
    <2> SUFFICES ASSUME device' = "ping" PROVE (PingInv /\ PingFits)'
      OBVIOUS
    <2>1. Ping!Next \/ UNCHANGED Ping!vars
      BY <1>0 DEF Next, vars, Ping!vars
    <2>2. PingInv /\ PingFits
      BY <1>0 DEF IInv
    <2>3. PingInv'
      BY ONLY <2>1, <2>2, PingKeeps
    <2> QED BY ONLY <2>1, <2>2, <2>3, PingFitsOn
  <1>16. device' = "wifi" => (WifiInv /\ WifiFits)'
    <2> SUFFICES ASSUME device' = "wifi" PROVE (WifiInv /\ WifiFits)'
      OBVIOUS
    <2>1. Wifi!Next \/ UNCHANGED Wifi!vars
      BY <1>0 DEF Next, vars, Wifi!vars
    <2>2. WifiInv /\ WifiFits
      BY <1>0 DEF IInv
    <2>3. WifiInv'
      BY ONLY <2>1, <2>2, WifiKeeps
    <2> QED BY ONLY <2>1, <2>2, <2>3, WifiFitsOn
  <1>17. device' = "scan" => (ScanInv /\ ScanFits)'
    <2> SUFFICES ASSUME device' = "scan" PROVE (ScanInv /\ ScanFits)'
      OBVIOUS
    <2>1. Scan!Next \/ UNCHANGED Scan!vars
      BY <1>0 DEF Next, vars, Scan!vars
    <2>2. ScanInv /\ ScanFits
      BY <1>0 DEF IInv
    <2>3. ScanInv'
      BY ONLY <2>1, <2>2, ScanKeeps
    <2> QED BY ONLY <2>1, <2>2, <2>3, ScanFitsOn
  <1>18. device' = "dispatch" => (HttpInv /\ HttpFits)'
    <2> SUFFICES ASSUME device' = "dispatch" PROVE (HttpInv /\ HttpFits)'
      OBVIOUS
    <2>1. Http!Next \/ UNCHANGED Http!vars
      BY <1>0 DEF Next, vars, Http!vars
    <2>2. HttpInv /\ HttpFits
      BY <1>0 DEF IInv
    <2>3. HttpInv'
      BY ONLY <2>1, <2>2, HttpKeeps
    <2> QED BY ONLY <2>1, <2>2, <2>3, HttpFitsOn
  <1>19. device' = "receive" => (RecvInv /\ RecvFits)'
    <2> SUFFICES ASSUME device' = "receive" PROVE (RecvInv /\ RecvFits)'
      OBVIOUS
    <2>1. Recv!Next \/ UNCHANGED Recv!vars
      BY <1>0 DEF Next, vars, Recv!vars, Recv!clientVars, Recv!historyVars
    <2>2. RecvInv /\ RecvFits
      BY <1>0 DEF IInv
    <2>3. RecvInv'
      BY ONLY <2>1, <2>2, RecvKeeps
    <2> QED BY ONLY <2>1, <2>2, <2>3, RecvFitsOn
  <1>20. device' = "frames" => (WsInv /\ WsFits)'
    <2> SUFFICES ASSUME device' = "frames" PROVE (WsInv /\ WsFits)'
      OBVIOUS
    <2>1. Ws!Next \/ UNCHANGED Ws!vars
      BY <1>0 DEF Next, vars, Ws!vars
    <2>2. WsInv /\ WsFits
      BY <1>0 DEF IInv
    <2>3. WsInv'
      BY ONLY <2>1, <2>2, WsKeeps
    <2> QED BY ONLY <2>1, <2>2, <2>3, WsFitsOn
  <1>21. device' = "serial" => (SerialInv /\ SerialFits)'
    <2> SUFFICES ASSUME device' = "serial" PROVE (SerialInv /\ SerialFits)'
      OBVIOUS
    <2>1. Serial!Next \/ UNCHANGED Serial!vars
      BY <1>0 DEF Next, vars, Serial!vars
    <2>2. SerialInv /\ SerialFits
      BY <1>0 DEF IInv
    <2>3. SerialInv'
      BY ONLY <2>1, <2>2, SerialKeeps
    <2> QED BY ONLY <2>1, <2>2, <2>3, SerialFitsOn
  <1>22. device' = "badge" => (PanelInv /\ PanelFits)'
    <2> SUFFICES ASSUME device' = "badge" PROVE (PanelInv /\ PanelFits)'
      OBVIOUS
    <2>1. Panel!Next \/ UNCHANGED Panel!vars
      BY <1>0 DEF Next, vars, Panel!vars
    <2>2. PanelInv /\ PanelFits
      BY <1>0 DEF IInv
    <2>3. PanelInv'
      BY ONLY <2>1, <2>2, PanelKeeps
    <2> QED BY ONLY <2>1, <2>2, <2>3, PanelFitsOn
  <1>23. device' = "led8x8" => (LedInv /\ LedRange)'
    <2> SUFFICES ASSUME device' = "led8x8" PROVE (LedInv /\ LedRange)'
      OBVIOUS
    <2>1. Led!Next \/ UNCHANGED Led!vars
      BY <1>0 DEF Next, vars, Led!vars
    <2>2. LedInv /\ LedRange
      BY <1>0 DEF IInv
    <2>3. LedInv'
      BY ONLY <2>1, <2>2, LedKeeps
    <2> QED BY ONLY <2>1, <2>2, <2>3, LedRangeOn
  <1> QED BY <1>1, <1>2, <1>3, <1>4, <1>5, <1>6, <1>7, <1>8, <1>9, <1>10, <1>11, <1>12, <1>13, <1>14, <1>15, <1>16, <1>17, <1>18, <1>19, <1>20, <1>21, <1>22, <1>23 DEF IInv

\* Each module keeps its invariant in all its behaviours.
THEOREM InvHolds == Spec => []IInv
  <1>1. Init => IInv
    BY InitIInv
  <1>2. IInv /\ [Next]_vars => IInv'
    BY NextIInv
  <1> QED BY <1>1, <1>2, PTL DEF Spec

\* A timed relay is on, a pulse that is on will go off, and the plug's LED
\* shows its relay: what a request set for a time, only its timer ends
\* (user_relay_set, user_switch1_set, mb_dio_set_output).
THEOREM TimedHolds == Spec => []TimedIsOn
  <1>1. IInv => TimedIsOn
    BY DEF IInv, TimedIsOn, PlugInv, OneInv, DioInv
  <1> QED BY <1>1, InvHolds, PTL

\* A debounced input that has settled is what its pin is, however its pin
\* bounced (user_switch1_toggle, user_switch2_toggle, mb_dio_intr_timer).
THEOREM FilterHolds == Spec => []FilterAgrees
  <1>1. IInv => FilterAgrees
    BY DEF IInv, FilterAgrees, OneInv, TwoInv, DioInv
  <1> QED BY <1>1, InvHolds, PTL

\* The meter and the fingerprint reader are polled on, whatever answers, time-
\* outs and requests come between (emtr_start_read, finger_start_read).
THEOREM PollHolds == Spec => []PollGoesOn
  <1>1. IInv => PollGoesOn
    BY DEF IInv, PollGoesOn, EmtrInv, MeterLine, MeterPart, FingerInv
  <1> QED BY <1>1, InvHolds, PTL

\* The listeners know what is: of a relay, a switch, a dimmer, a sensor, a
\* temperature, the power, the battery and the analog input what they were told
\* last is what is, or as near as their thresholds; and the tag reader is set to
\* what its module was given (the user_event_raise of each module, rfid_set).
THEOREM ListenersHold == Spec => []ListenersKnow
  <1>1. IInv => ListenersKnow
    <2> SUFFICES ASSUME IInv PROVE ListenersKnow
      OBVIOUS
    <2>1. device = "plug" => Plug!ListenersKnow
      BY DEF IInv, PlugInv
    <2>2. device = "switch1" => One!ListenersKnow
      BY DEF IInv, OneInv
    <2>3. device = "switch2" => Two!ListenersKnow
      BY DEF IInv, TwoInv
    <2>4. device = "modules" => Mods!ListenersKnow
      BY DEF IInv, ModsInv, Mods!ListenersKnow
    <2>5. device = "sensors" => Sens!LimitsTold /\ Sens!NothingUntold
      BY SensTells DEF IInv
    <2>6. device = "thermo" => Temp!NoCreep
      BY DEF IInv, TempInv
    <2>7. device = "emtrregs" => Regs!ReadingTold
      BY DEF IInv, RegsInv, RegsTold
    <2>8. device = "gauges" => Gauge!ToldInTime /\ Gauge!FilterAmong
      <3>1. GaugeInv => Gauge!FilterAmong
        BY DEF GaugeInv
      <3> QED BY <3>1, GaugeTells DEF IInv
    <2>9. device = "rfid" => Rfid!ReaderSet
      BY RfidTells DEF IInv
    <2> QED BY <2>1, <2>2, <2>3, <2>4, <2>5, <2>6, <2>7, <2>8, <2>9 DEF ListenersKnow
  <1> QED BY <1>1, InvHolds, PTL

\* Whoever asked gets the answer to what was asked: a callback of the meter or
\* of the fingerprint reader the answer to its own command, a ping the echo of
\* its own trigger, a listener a tag that was read (emtr_char_in, finger_receive,
\* ping_intr_handler, rfid_char_in).
THEOREM AnswersHold == Spec => []Attributed
  <1>1. IInv => Attributed
    <2> SUFFICES ASSUME IInv PROVE Attributed
      OBVIOUS
    <2>1. device = "emtr" => Emtr!Attributed
      BY DEF IInv, EmtrInv, MeterLine
    <2>2. device = "finger" => Finger!Attributed
      BY DEF IInv, FingerInv
    <2>3. device = "ping" => Ping!EchoIsMine
      BY PingTells DEF IInv
    <2>4. device = "rfid" => Rfid!TagWhole
      BY DEF IInv, RfidInv
    <2> QED BY <2>1, <2>2, <2>3, <2>4 DEF Attributed
  <1> QED BY <1>1, InvHolds, PTL

\* No step tells of a press out of turn, answers OK with what a module has not,
\* or moves a temperature past what was read (button_intr_callback, the handlers
\* and polls of the I2C modules, tc_read).
THEOREM StepsDo == Spec => StepsHold
  <1>1. ASSUME IInv, [Next]_vars
        PROVE  [ /\ device = "keys" => Keys!InTurn
                 /\ device = "modules" => Mods!TellsTrue
                 /\ device = "thermo" => Temp!Approaches ]_vars
    <2> SUFFICES ASSUME Next
                 PROVE  /\ device = "keys" => Keys!InTurn
                        /\ device = "modules" => Mods!TellsTrue
                        /\ device = "thermo" => Temp!Approaches
      BY <1>1
    <2>1. ASSUME device = "keys" PROVE Keys!InTurn
      <3>1. KeysInv /\ Keys!Next
        BY <1>1, <2>1 DEF IInv, Next
      <3> QED BY <3>1, KeysTell
    <2>2. ASSUME device = "modules" PROVE Mods!TellsTrue
      <3>1. ModsInv /\ Mods!Next
        BY <1>1, <2>2 DEF IInv, Next
      <3> QED BY <3>1, ModsTell
    <2>3. ASSUME device = "thermo" PROVE Temp!Approaches
      <3>1. TempInv /\ Temp!Next
        BY <1>1, <2>3 DEF IInv, Next
      <3> QED BY <3>1, TempNears
    <2> QED BY <2>1, <2>2, <2>3
  <1> QED BY <1>1, InvHolds, PTL DEF Spec, StepsHold

\* What is in use is what the next start finds, an answer of OK says that all was
\* stored, and nothing torn is taken; no register of the meter is given a value
\* nobody asked for, and its counter never falls (user_config_store,
\* user_config_load, user_app_config_store_l, emtr_counter_add): of all modules
\* that keep settings but the calibration, whose products and bits are TLC's.
THEOREM SettingsHold == Spec => [](device # "calibration" => SettingsKept)
  <1>1. IInv => (device # "calibration" => SettingsKept)
    <2> SUFFICES ASSUME IInv, device # "calibration" PROVE SettingsKept
      OBVIOUS
    <2>1. device = "config" => Store!NeverTorn /\ Store!SurvivesRestart /\ Store!OkIsStored
      BY StoreTells DEF IInv
    <2>2. device = "emtrregs" => Regs!NeverInvented /\ Regs!CounterKept
      BY RegsTells DEF IInv
    <2> QED BY <2>1, <2>2 DEF SettingsKept
  <1> QED BY <1>1, InvHolds, PTL

\* Whoever waits is answered, and once: a scan of networks ends with its answer
\* and its list grows old, a scan of devices tells each device once, a request is
\* answered once and no poll waits for what is gone, a ping gives up (wifi_scan_done,
\* devices_handler and devices_scan_result, webserver_send_response and
\* long_poll_response, the period of ping.c): of all that wait but the calibration,
\* whose search for a gain is TLC's.
THEOREM AnswersCome == Spec => [](device # "calibration" => AnswerComes)
  <1>1. IInv => (device # "calibration" => AnswerComes)
    <2> SUFFICES ASSUME IInv, device # "calibration" PROVE AnswerComes
      OBVIOUS
    <2>1. device = "wifi" => Wifi!AnswerComes /\ Wifi!CacheAges /\ Wifi!LooksOn
      BY DEF IInv, WifiInv
    <2>2. device = "scan" => Scan!ScanAnswers /\ Scan!FoundOnce /\ Scan!ListedOnce
      BY DEF IInv, ScanInv, ScanRuns, Scan!ScanAnswers
    <2>3. device = "dispatch" => Http!OneAnswer /\ Http!NoDeadPoll
      BY HttpTells DEF IInv
    <2>4. device = "ping" => Ping!IdleIsFree /\ Ping!GivesUp
      BY PingTells DEF IInv
    <2> QED BY <2>1, <2>2, <2>3, <2>4 DEF AnswerComes
  <1> QED BY <1>1, InvHolds, PTL

\* What comes in parts is handled whole and in order: a request in packets, its
\* method letter by letter, a frame of the WebSocket, the debug output and the bytes
\* of the serial port (webserver_recv, webserver_method, websocket_recv,
\* wifi_write_char, uart_recv): of all but the ends of lines that
\* _uart_write_char_ makes, whose counts are TLC's.
THEOREM PartsMade == Spec => [](~ (device = "serial" /\ v1 = "out") => PartsMakeWhole)
  <1>1. IInv => (~ (device = "serial" /\ v1 = "out") => PartsMakeWhole)
    <2> SUFFICES ASSUME IInv, ~ (device = "serial" /\ v1 = "out") PROVE PartsMakeWhole
      OBVIOUS
    <2>1. device = "receive" =>
            Recv!AcceptedIsHandled /\ Recv!DeliveredInOrder /\ Recv!BufferHasRoom
      BY RecvTells DEF IInv
    <2>2. device = "dispatch" => Http!SplitUnderstood
      BY HttpTells DEF IInv
    <2>3. device = "frames" => Ws!FrameWhole /\ Ws!LastIsLast
      BY WsTells DEF IInv
    <2>4. device = "serial" => Serial!LinesEnd /\ Serial!DebugKept /\ Serial!BytesTaken
      BY SerialTells DEF IInv, Serial!LinesEnd
    <2> QED BY <2>1, <2>2, <2>3, <2>4 DEF PartsMakeWhole
  <1> QED BY <1>1, InvHolds, PTL

\* One text scrolls at a time, by one timer, and as it was asked for; a battery text
\* that found the badge busy comes when it is free; and the LED modules show the
\* columns of a text one after the other, up to its last, at the layout it began with
\* (badge_scroll, _badge_scroll_, led_8x8_rgb_scroll, led_8x8_rgb_shift_left).
THEOREM TextHolds == Spec => []TextScrolls
  <1>1. IInv => TextScrolls
    <2> SUFFICES ASSUME IInv PROVE TextScrolls
      OBVIOUS
    <2>1. device = "badge" => Panel!OneScroll /\ Panel!BatteryComes /\ Panel!TextStays
      BY DEF IInv, PanelInv
    <2>2. device = "led8x8" => Led!LayoutHolds /\ Led!TextWhole /\ Led!EndComes
      BY LedTells DEF IInv
    <2> QED BY <2>1, <2>2 DEF TextScrolls
  <1> QED BY <1>1, InvHolds, PTL

\* The variables of every module stay what they are declared as, whatever its
\* requests, timers, interrupts and restarts do: counters within their words,
\* indices within their buffers, a state in its set.  Left to TLC are the two
\* wires of I2C, whose transfers are flattened sequences, and the calibration,
\* whose words are sums of powers of two.
THEOREM TypesHold == Spec => [](device \notin {"i2c", "calibration"} => TypesOK)
  <1>1. IInv => (device \notin {"i2c", "calibration"} => TypesOK)
    <2> SUFFICES ASSUME IInv, device \notin {"i2c", "calibration"} PROVE TypesOK
      OBVIOUS
    <2>1. device = "plug" => Plug!TypeOK
      BY PlugTypes DEF IInv
    <2>2. device = "switch1" => One!TypeOK
      BY OneTypes DEF IInv
    <2>3. device = "switch2" => Two!TypeOK
      BY TwoTypes DEF IInv
    <2>4. device = "keys" => Keys!TypeOK
      BY KeysTypes DEF IInv
    <2>5. device = "badge" => Panel!TypeOK
      BY PanelTypes DEF IInv
    <2>6. device = "led8x8" => Led!TypeOK
      BY LedTypes DEF IInv
    <2>7. device = "dio" => Dio!TypeOK
      BY DioTypes DEF IInv
    <2>8. device = "sensors" => Sens!TypeOK
      BY SensTypes DEF IInv
    <2>9. device = "thermo" => Temp!TypeOK
      BY TempTypes DEF IInv
    <2>10. device = "modules" => Mods!TypeOK
      BY ModsTypes DEF IInv
    <2>11. device = "scan" => Scan!TypeOK
      BY ScanTypes DEF IInv
    <2>12. device = "emtr" => Emtr!TypeOK
      BY EmtrTypes DEF IInv
    <2>13. device = "finger" => Finger!TypeOK
      BY FingerTypes DEF IInv
    <2>14. device = "config" => Store!TypeOK
      BY StoreTypes DEF IInv
    <2>15. device = "wifi" => Wifi!TypeOK
      BY WifiTypes DEF IInv
    <2>16. device = "receive" => Recv!TypeOK
      BY RecvTypes DEF IInv
    <2>17. device = "dispatch" => Http!TypeOK
      BY HttpTypes DEF IInv
    <2>18. device = "frames" => Ws!TypeOK
      BY WsTypes DEF IInv
    <2>19. device = "emtrregs" => Regs!TypeOK
      BY RegsTypes DEF IInv
    <2>20. device = "gauges" => Gauge!TypeOK
      BY GaugeTypes DEF IInv
    <2>21. device = "ping" => Ping!TypeOK
      BY PingTypes DEF IInv
    <2>22. device = "rfid" => Rfid!TypeOK
      BY RfidTypes DEF IInv
    <2>23. device = "serial" => Serial!TypeOK
      BY SerialTypes DEF IInv
    <2> QED BY <2>1, <2>2, <2>3, <2>4, <2>5, <2>6, <2>7, <2>8, <2>9, <2>10, <2>11,
      <2>12, <2>13, <2>14, <2>15, <2>16, <2>17, <2>18, <2>19, <2>20, <2>21, <2>22, <2>23
      DEF TypesOK
  <1> QED BY <1>1, InvHolds, PTL
=============================================================================
