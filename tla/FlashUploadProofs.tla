-------------------------- MODULE FlashUploadProofs --------------------------
(***************************************************************************)
(* Proofs about FlashUpload, for every table of disjoint regions, every     *)
(* request, every split into packets, and every failure of the connection,  *)
(* the chip and the power.                                                  *)
(*                                                                         *)
(* The image that runs is never written: the handler protects it before    *)
(* the parser can open anything, and the protection lasts as long as the   *)
(* parser has input; so what is open is another region, the cursor stays   *)
(* in it, and regions share no sector (UInv).                              *)
(*                                                                         *)
(* A request that is committed is on the chip: the parser's state says at  *)
(* which byte of the request's text it is (Parsing); every byte of a file  *)
(* that was handed over is behind the region's cursor, in the buffer, or   *)
(* in the running write (Delivering, of FlashRegionProofs); and the files  *)
(* before are on the chip already, in regions of their own (SInv).         *)
(***************************************************************************)
EXTENDS FlashUpload, FlashRegionProofs, WellFoundedInduction

-----------------------------------------------------------------------------
(* The text of a request *)

\* A set of naturals that is not empty has a least member.
LEMMA NatMin ==
  ASSUME NEW T, T \subseteq Nat, T # {}
  PROVE  \E x \in T : \A y \in T : x <= y
  <1> DEFINE R == {p \in Nat \X Nat : p[1] < p[2]}
  <1>1. IsWellFoundedOn(R, Nat)
    BY NatLessThanWellFounded DEF OpToRel
  <1>2. \A x, y \in Nat : y < x => <<y, x>> \in R
    OBVIOUS
  <1> HIDE DEF R
  <1>3. PICK x \in T : \A y \in T : ~ (<<y, x>> \in R)
    BY <1>1, WFMin
  <1>4. ASSUME NEW y \in T PROVE x <= y
    <2>1. x \in Nat /\ y \in Nat
      OBVIOUS
    <2>2. ~ (y < x)
      BY <1>2, <1>3, <2>1
    <2> QED BY <2>1, <2>2
  <1> QED BY <1>4

\* Induction, for a set.
LEMMA SetInduction ==
  ASSUME NEW T, 0 \in T, \A n \in Nat : n \in T => n + 1 \in T
  PROVE  Nat \subseteq T
  <1> SUFFICES ASSUME Nat \ T # {} PROVE FALSE
    OBVIOUS
  <1>1. PICK x \in Nat \ T : \A y \in Nat \ T : x <= y
    BY NatMin
  <1>2. x # 0 /\ x - 1 \in Nat
    BY <1>1
  <1>3. x - 1 \in T
    BY <1>1, <1>2
  <1> QED BY <1>1, <1>2, <1>3

\* The sequences g[0] .. g[n] that grow from a by one piece at a time.
Grows(g, a, piece, n) ==
  /\ g[0] = a
  /\ \A i \in 1 .. n : g[i] = g[i - 1] \o piece[i]

LEMMA GrowsFrom ==
  ASSUME NEW a, NEW piece, NEW n \in Nat
  PROVE  \E g : Grows(g, a, piece, n)
  <1> DEFINE Is(g, m) == Grows(g, a, piece, m)
             T == {m \in Nat : \E g : Is(g, m)}
  <1> USE DEF Grows
  <1>1. 0 \in T
    <2> DEFINE g == [i \in 0 .. 0 |-> a]
    <2>1. Is(g, 0)
      OBVIOUS
    <2> QED BY <2>1
  <1>2. ASSUME NEW m \in Nat, m \in T PROVE m + 1 \in T
    <2>1. PICK g : Is(g, m)
      BY <1>2
    <2> DEFINE h == [i \in 0 .. m + 1 |-> IF i <= m THEN g[i] ELSE g[m] \o piece[i]]
    <2> HIDE DEF Is
    <2>3. \A i \in 0 .. m : h[i] = g[i]
      OBVIOUS
    <2>4. h[m + 1] = g[m] \o piece[m + 1]
      OBVIOUS
    <2> HIDE DEF h
    <2>5. h[0] = a
      BY <2>1, <2>3 DEF Is
    <2>6. ASSUME NEW i \in 1 .. m + 1 PROVE h[i] = h[i - 1] \o piece[i]
      <3>1. CASE i \in 1 .. m
        <4>1. g[i] = g[i - 1] \o piece[i]
          BY <2>1, <3>1 DEF Is
        <4>2. h[i] = g[i] /\ h[i - 1] = g[i - 1]
          BY <2>3, <3>1
        <4> QED BY <4>1, <4>2
      <3>2. CASE i = m + 1
        <4>1. h[i - 1] = g[m]
          BY <2>3, <3>2
        <4>2. h[i] = g[m] \o piece[i]
          BY <2>4, <3>2, Zenon
        <4> QED BY ONLY <4>1, <4>2
      <3>3. i \in 1 .. m \/ i = m + 1
        OBVIOUS
      <3> QED BY ONLY <3>1, <3>2, <3>3
    <2>7. Is(h, m + 1)
      BY <2>5, <2>6 DEF Is
    <2> QED BY <2>7
  <1>3. n \in T
    <2> HIDE DEF T
    <2> QED BY <1>1, <1>2, SetInduction
  <1> QED BY <1>3

\* The recursion of Texts has a solution, so its defining equation holds.
LEMMA TextsDef ==
  ASSUME NEW u, NEW files, Len(files) \in Nat
  PROVE  /\ Texts(u, files)[0] = <<Json>>
         /\ \A i \in 1 .. Len(files) :
              Texts(u, files)[i] = Texts(u, files)[i - 1] \o FileText(u, files[i])
  <1> DEFINE piece == [i \in 1 .. Len(files) |-> FileText(u, files[i])]
             Is(g) == g = [i \in 0 .. Len(files) |->
                             IF i = 0 THEN <<Json>> ELSE g[i - 1] \o FileText(u, files[i])]
  <1>1. PICK f : /\ f[0] = <<Json>>
                 /\ \A i \in 1 .. Len(files) : f[i] = f[i - 1] \o piece[i]
    <2> HIDE DEF piece
    <2>1. \E f : Grows(f, <<Json>>, piece, Len(files))
      BY ONLY GrowsFrom, Len(files) \in Nat
    <2> QED BY ONLY <2>1 DEF Grows
  <1>2. \A i \in 1 .. Len(files) : piece[i] = FileText(u, files[i])
    OBVIOUS
  <1> HIDE DEF piece
  <1> DEFINE g == [i \in 0 .. Len(files) |-> f[i]]
  <1>3. ASSUME NEW i \in 0 .. Len(files)
        PROVE  g[i] = IF i = 0 THEN <<Json>> ELSE g[i - 1] \o FileText(u, files[i])
    <2>1. CASE i = 0
      BY <1>1, <2>1
    <2>2. CASE i # 0
      <3>1. g[i] = f[i] /\ g[i - 1] = f[i - 1] /\ i \in 1 .. Len(files)
        BY <2>2
      <3> HIDE DEF g
      <3> QED BY <1>1, <1>2, <2>2, <3>1
    <2> QED BY <2>1, <2>2
  <1>4. Is(g)
    <2>1. g = [i \in 0 .. Len(files) |-> g[i]]
      OBVIOUS
    <2> HIDE DEF g
    <2> QED BY ONLY <1>3, <2>1, Zenon DEF Is
  <1>5. Is(CHOOSE h : Is(h))
    <2> HIDE DEF Is
    <2> QED BY <1>4
  <1>6. Texts(u, files) = CHOOSE h : Is(h)
    BY DEF Texts
  <1>7. Is(Texts(u, files))
    <2> HIDE DEF Is
    <2> QED BY <1>5, <1>6
  <1>8. PICK t : t = Texts(u, files)
    OBVIOUS
  <1>9. t = [i \in 0 .. Len(files) |->
               IF i = 0 THEN <<Json>> ELSE t[i - 1] \o FileText(u, files[i])]
    BY <1>7, <1>8, Zenon
  <1>10. t[0] = <<Json>>
    BY <1>9
  <1>11. ASSUME NEW i \in 1 .. Len(files) PROVE t[i] = t[i - 1] \o FileText(u, files[i])
    <2>1. i \in 0 .. Len(files) /\ i # 0
      OBVIOUS
    <2> QED BY ONLY <1>9, <2>1
  <1> QED BY <1>8, <1>10, <1>11

\* Whatever a body is made of.
Token == Byte \union DOMAIN Digit \union {Json, Delim, Junk}

LEMMA Joined ==
  ASSUME NEW S, NEW a \in Seq(S), NEW b \in Seq(S), NEW c, c = a \o b
  PROVE  /\ c \in Seq(S)
         /\ Len(c) = Len(a) + Len(b)
         /\ \A k \in 1 .. Len(a) : c[k] = a[k]
         /\ \A k \in 1 .. Len(b) : c[Len(a) + k] = b[k]
  <1>1. c \in Seq(S) /\ Len(c) = Len(a) + Len(b)
    OBVIOUS
  <1>2. \A k \in 1 .. Len(a) : c[k] = a[k]
    OBVIOUS
  <1>3. \A k \in 1 .. Len(b) : c[Len(a) + k] = b[k]
    OBVIOUS
  <1> QED BY <1>1, <1>2, <1>3

\* The parts of a file's text t lie one behind the other.
FileLaid(t, f, digits, bytes, n, w) ==
  /\ w \in Nat \ {0} /\ n \in Nat \ {0} /\ Len(bytes) = n
  /\ t \in Seq(Token) /\ Len(t) = 3 + w + n
  /\ t[1] = f.name /\ t[1] # Delim /\ t[2] = Delim /\ t[3 + w] = Delim
  /\ \A k \in 1 .. w : t[2 + k] = digits[k] /\ digits[k] \in DOMAIN Digit /\ digits[k] # Delim
  /\ \A k \in 1 .. n : t[3 + w + k] = bytes[k] /\ bytes[k] \in Byte \ {Json}

LEMMA FileTextLaid ==
  ASSUME NEW files \in Upload, NEW u \in 1 .. MaxUploads, NEW i \in DOMAIN files,
         NEW t, t = FileText(u, files[i]),
         NEW digits, digits = Numeral(files[i].size),
         NEW bytes, bytes = FileBytes(u, files[i]),
         NEW n, n = files[i].size, NEW w, w = Len(digits)
  PROVE  FileLaid(t, files[i], digits, bytes, n, w)
  <1>1. digits \in Seq(DOMAIN Digit) /\ digits # <<>> /\ Delim \notin DOMAIN Digit
    BY NumeralAssumption, TokenAssumption
  <1>2. bytes \in Seq(Byte \ {Json})
    <2>1. FileBytes(u, files[i]) \in Seq(Byte \ {Json})
      BY UploadAssumption
    <2> QED BY <2>1
  <1>15. files[i] \in [name : Byte \ {Delim}, size : Nat \ {0}]
    <2>1. files \in Seq([name : Byte \ {Delim}, size : Nat \ {0}])
      BY UploadAssumption
    <2> DEFINE File == [name : Byte \ {Delim}, size : Nat \ {0}]
    <2>2. files \in Seq(File) /\ i \in DOMAIN files
      BY <2>1
    <2> HIDE DEF File
    <2>3. files[i] \in File
      BY ONLY <2>2
    <2> QED BY <2>3 DEF File
  <1>3. n \in Nat \ {0} /\ Len(bytes) = n
    <2>1. n \in Nat \ {0}
      BY <1>15
    <2>2. DOMAIN bytes = 1 .. n
      BY DEF FileBytes
    <2> QED BY <1>2, <2>1, <2>2
  <1>4. w \in Nat \ {0}
    BY <1>1
  <1>5. t = <<files[i].name, Delim>> \o digits \o <<Delim>> \o bytes
    BY DEF FileText
  <1>18. PICK a, b : a = <<files[i].name, Delim>> /\ b = <<Delim>>
    OBVIOUS
  <1>6. a \in Seq(Token) /\ b \in Seq(Token) /\ digits \in Seq(Token) /\ bytes \in Seq(Token)
    BY <1>1, <1>2, <1>15, <1>18 DEF Token
  <1>19. /\ Len(a) = 2 /\ a[1] = files[i].name /\ a[2] = Delim
         /\ Len(b) = 1 /\ b[1] = Delim
    BY <1>18
  <1>7. PICK d : d = a \o digits
    OBVIOUS
  <1>8. /\ d \in Seq(Token) /\ Len(d) = 2 + w
        /\ d[1] = a[1] /\ d[2] = a[2]
        /\ \A k \in 1 .. w : d[2 + k] = digits[k]
    <2>1. /\ d \in Seq(Token) /\ Len(d) = Len(a) + Len(digits)
          /\ \A k \in 1 .. Len(a) : d[k] = a[k]
          /\ \A k \in 1 .. Len(digits) : d[Len(a) + k] = digits[k]
      BY ONLY Joined, <1>6, <1>7
    <2> QED BY ONLY <1>6, <1>19, <2>1, w = Len(digits)
  <1>9. PICK e : e = d \o b
    OBVIOUS
  <1>10. /\ e \in Seq(Token) /\ Len(e) = 3 + w
         /\ \A k \in 1 .. 2 + w : e[k] = d[k]
         /\ e[3 + w] = Delim
    <2>4. b \in Seq(Token) /\ d \in Seq(Token)
      BY <1>6, <1>8
    <2>1. /\ e \in Seq(Token) /\ Len(e) = Len(d) + Len(b)
          /\ \A k \in 1 .. Len(d) : e[k] = d[k]
          /\ \A k \in 1 .. Len(b) : e[Len(d) + k] = b[k]
      BY ONLY Joined, <1>9, <2>4
    <2>2. e[Len(d) + 1] = Delim
      BY ONLY <2>1, <1>19
    <2>3. Len(d) + 1 = 3 + w
      BY ONLY <1>4, <1>8
    <2> QED BY ONLY <1>4, <1>8, <1>19, <2>1, <2>2, <2>3
  <1>11. t = e \o bytes
    BY <1>5, <1>7, <1>9, <1>18
  <1>12. /\ t \in Seq(Token) /\ Len(t) = 3 + w + n
         /\ \A k \in 1 .. 3 + w : t[k] = e[k]
         /\ \A k \in 1 .. n : t[3 + w + k] = bytes[k]
    <2>2. bytes \in Seq(Token) /\ e \in Seq(Token)
      BY <1>6, <1>10
    <2>1. /\ t \in Seq(Token) /\ Len(t) = Len(e) + Len(bytes)
          /\ \A k \in 1 .. Len(e) : t[k] = e[k]
          /\ \A k \in 1 .. Len(bytes) : t[Len(e) + k] = bytes[k]
      BY ONLY Joined, <1>11, <2>2
    <2> QED BY ONLY <1>3, <1>4, <1>10, <2>1
  <1>16. t[1] = files[i].name /\ t[2] = Delim /\ t[3 + w] = Delim
    <2>1. t[1] = e[1] /\ t[2] = e[2] /\ t[3 + w] = e[3 + w]
      BY ONLY <1>4, <1>12
    <2>2. e[1] = d[1] /\ e[2] = d[2]
      BY ONLY <1>4, <1>10
    <2> QED BY ONLY <1>8, <1>10, <1>19, <2>1, <2>2
  <1>17. ASSUME NEW k \in 1 .. w
         PROVE  t[2 + k] = digits[k] /\ digits[k] \in DOMAIN Digit /\ digits[k] # Delim
    <2>1. 2 + k \in 1 .. 3 + w /\ 2 + k \in 1 .. 2 + w
      BY <1>4
    <2>2. t[2 + k] = e[2 + k] /\ e[2 + k] = d[2 + k]
      BY ONLY <1>10, <1>12, <2>1
    <2>3. d[2 + k] = digits[k]
      BY ONLY <1>8, k \in 1 .. w
    <2>4. digits[k] \in DOMAIN Digit
      BY ONLY <1>1, <1>4, w = Len(digits), k \in 1 .. w
    <2> QED BY ONLY <1>1, <2>2, <2>3, <2>4
  <1>13. \A k \in 1 .. n : bytes[k] \in Byte \ {Json}
    BY <1>2, <1>3
  <1>14. files[i].name # Delim
    BY <1>15
  <1> QED BY <1>3, <1>4, <1>12, <1>13, <1>14, <1>16, <1>17 DEF FileLaid

\* Each text is the one before and a file's, and holds the ones before.
Longer(T, u, files, i) == T[i] = T[i - 1] \o FileText(u, files[i])

LEMMA TextGrows ==
  ASSUME NEW files \in Upload, NEW u \in 1 .. MaxUploads, NEW n, n = Len(files),
         NEW T, T = Texts(u, files)
  PROVE  /\ n \in Nat \ {0} /\ DOMAIN files = 1 .. n
         /\ T[0] = <<Json>>
         /\ \A i \in 1 .. n : /\ Longer(T, u, files, i)
                              /\ FileText(u, files[i]) \in Seq(Token)
         /\ \A i \in 0 .. n : T[i] \in Seq(Token)
  <1>1. n \in Nat \ {0} /\ DOMAIN files = 1 .. n
    <2>1. PICK S : files \in Seq(S) /\ files # <<>>
      BY UploadAssumption
    <2> QED BY ONLY <2>1, n = Len(files)
  <1>2. T[0] = <<Json>>
    BY ONLY TextsDef, <1>1, n = Len(files), T = Texts(u, files)
  <1>3. ASSUME NEW i \in 1 .. n PROVE T[i] = T[i - 1] \o FileText(u, files[i])
    BY ONLY TextsDef, <1>1, n = Len(files), T = Texts(u, files), i \in 1 .. n
  <1>4. ASSUME NEW i \in 1 .. n PROVE FileText(u, files[i]) \in Seq(Token)
    <2>1. i \in DOMAIN files
      BY <1>1
    <2>2. PICK t, digits, bytes, s, w :
            /\ t = FileText(u, files[i]) /\ digits = Numeral(files[i].size)
            /\ bytes = FileBytes(u, files[i]) /\ s = files[i].size /\ w = Len(digits)
      OBVIOUS
    <2>3. FileLaid(t, files[i], digits, bytes, s, w)
      BY ONLY FileTextLaid, <2>1, <2>2, files \in Upload, u \in 1 .. MaxUploads
    <2> QED BY <2>2, <2>3 DEF FileLaid
  <1> DEFINE S == {i \in Nat : i <= n => T[i] \in Seq(Token)}
  <1>5. 0 \in S
    <2>1. <<Json>> \in Seq(Token)
      BY DEF Token
    <2> QED BY <1>2, <2>1
  <1>6. ASSUME NEW i \in Nat, i \in S PROVE i + 1 \in S
    <2>1. CASE i + 1 <= n
      <3>1. i <= n /\ i + 1 \in 1 .. n /\ (i + 1) - 1 = i
        BY <1>1, <2>1
      <3>2. T[i] \in Seq(Token) /\ FileText(u, files[i + 1]) \in Seq(Token)
        BY <1>4, <1>6, <3>1
      <3>3. T[i + 1] = T[i] \o FileText(u, files[i + 1])
        <4>1. T[i + 1] = T[(i + 1) - 1] \o FileText(u, files[i + 1])
          BY <1>3, <3>1
        <4> QED BY ONLY <3>1, <4>1
      <3>4. T[i + 1] \in Seq(Token)
        BY ONLY <3>2, <3>3
      <3> QED BY <3>4
    <2>2. CASE ~ (i + 1 <= n)
      BY <2>2
    <2> QED BY <2>1, <2>2
  <1>7. Nat \subseteq S
    <2> HIDE DEF S
    <2> QED BY <1>5, <1>6, SetInduction
  <1>8. ASSUME NEW i \in 0 .. n PROVE T[i] \in Seq(Token)
    <2>1. i \in S /\ i <= n
      BY <1>1, <1>7
    <2> QED BY <2>1
  <1> QED BY <1>1, <1>2, <1>3, <1>4, <1>8 DEF Longer

\* a is what b begins with.
Begins(a, b) == Len(a) <= Len(b) /\ \A k \in 1 .. Len(a) : b[k] = a[k]

LEMMA TextHolds ==
  ASSUME NEW files \in Upload, NEW u \in 1 .. MaxUploads, NEW n, n = Len(files),
         NEW T, T = Texts(u, files), NEW i \in 0 .. n, NEW m \in i .. n
  PROVE  Begins(T[i], T[m])
  <1> DEFINE Holds(j) == /\ Len(T[i]) <= Len(T[j])
                         /\ \A k \in 1 .. Len(T[i]) : T[j][k] = T[i][k]
             S == {d \in Nat : i + d <= n => Holds(i + d)}
  <1>1. n \in Nat \ {0} /\ \A j \in 0 .. n : T[j] \in Seq(Token)
    BY TextGrows
  <1>9. \A r \in 1 .. n : Longer(T, u, files, r)
    BY ONLY TextGrows, files \in Upload, u \in 1 .. MaxUploads, n = Len(files), T = Texts(u, files)
  <1>2. T[i] \in Seq(Token) /\ Len(T[i]) \in Nat
    BY <1>1
  <1>3. 0 \in S
    <2>1. i + 0 = i
      OBVIOUS
    <2>2. Holds(i)
      BY <1>2
    <2> HIDE DEF Holds
    <2> QED BY <2>1, <2>2
  <1>4. ASSUME NEW d \in Nat, d \in S PROVE d + 1 \in S
    <2>1. CASE i + (d + 1) <= n
      <3>1. /\ i + d <= n /\ i + d \in 0 .. n
            /\ i + (d + 1) \in 1 .. n /\ (i + (d + 1)) - 1 = i + d
        BY <1>1, <2>1
      <3>2. PICK a, b, c : a = T[i + d] /\ b = FileText(u, files[i + (d + 1)]) /\ c = T[i + (d + 1)]
        OBVIOUS
      <3>3. a \in Seq(Token) /\ b \in Seq(Token)
        BY TextGrows, <3>1, <3>2
      <3>4. c = a \o b
        <4>1. PICK r \in 1 .. n : r = i + (d + 1)
          BY <3>1
        <4>2. T[r] = T[r - 1] \o FileText(u, files[r])
          BY ONLY <1>9, r \in 1 .. n DEF Longer
        <4>3. r - 1 = i + d
          BY <3>1, <4>1
        <4>4. T[r - 1] = a /\ T[r] = c /\ FileText(u, files[r]) = b
          BY ONLY <3>2, <4>1, <4>3
        <4> QED BY ONLY <4>2, <4>4
      <3>5. Len(c) = Len(a) + Len(b) /\ \A k \in 1 .. Len(a) : c[k] = a[k]
        BY ONLY Joined, <3>3, <3>4
      <3>6. Len(T[i]) <= Len(a) /\ \A k \in 1 .. Len(T[i]) : a[k] = T[i][k]
        BY <1>4, <3>1, <3>2
      <3>7. Len(a) \in Nat /\ Len(b) \in Nat
        BY <3>3
      <3>8. Len(T[i]) <= Len(c) /\ \A k \in 1 .. Len(T[i]) : c[k] = T[i][k]
        BY ONLY <1>2, <3>5, <3>6, <3>7
      <3>9. Holds(i + (d + 1))
        BY ONLY <3>2, <3>8
      <3> HIDE DEF Holds
      <3> QED BY <3>9
    <2>2. CASE ~ (i + (d + 1) <= n)
      BY <2>2
    <2> QED BY <2>1, <2>2
  <1>5. Nat \subseteq S
    <2> HIDE DEF S
    <2> QED BY <1>3, <1>4, SetInduction
  <1>6. m - i \in Nat /\ i + (m - i) = m /\ m <= n
    BY <1>1
  <1>7. Holds(i + (m - i))
    <2> HIDE DEF Holds
    <2> QED BY <1>5, <1>6
  <1>8. Holds(m)
    <2> HIDE DEF Holds, S
    <2> QED BY ONLY <1>6, <1>7
  <1> QED BY <1>8 DEF Begins

\* b follows a in c.
Follows(b, a, c) ==
  /\ Len(a) \in Nat /\ Len(b) \in Nat
  /\ Len(c) = Len(a) + Len(b)
  /\ \A k \in 1 .. Len(b) : c[Len(a) + k] = b[k]

LEMMA OneLonger ==
  ASSUME NEW files \in Upload, NEW u \in 1 .. MaxUploads, NEW n, n = Len(files),
         NEW T, T = Texts(u, files), NEW j \in 1 .. n, NEW t, t = FileText(u, files[j])
  PROVE  Follows(t, T[j - 1], T[j])
  <1>1. PICK a, c : a = T[j - 1] /\ c = T[j]
    OBVIOUS
  <1>2. n \in Nat \ {0} /\ (\A i \in 0 .. n : T[i] \in Seq(Token))
        /\ (\A i \in 1 .. n : FileText(u, files[i]) \in Seq(Token))
    BY TextGrows
  <1>3. a \in Seq(Token) /\ t \in Seq(Token)
    BY <1>1, <1>2
  <1>4. c = a \o t
    <2>1. \A i \in 1 .. n : Longer(T, u, files, i)
      BY ONLY TextGrows, files \in Upload, u \in 1 .. MaxUploads, n = Len(files), T = Texts(u, files)
    <2>2. T[j] = T[j - 1] \o FileText(u, files[j])
      BY ONLY <2>1, j \in 1 .. n DEF Longer
    <2> QED BY ONLY <1>1, <2>2, t = FileText(u, files[j])
  <1>5. Len(c) = Len(a) + Len(t) /\ \A k \in 1 .. Len(t) : c[Len(a) + k] = t[k]
    BY ONLY Joined, <1>3, <1>4
  <1>6. Len(a) \in Nat /\ Len(t) \in Nat
    BY <1>3
  <1> QED BY ONLY <1>1, <1>5, <1>6 DEF Follows

\* The parts of a file f lie in the body x from e + 1 to end.
LaidOut(x, f, digits, bytes, e, w, s, end, j, n) ==
  /\ x \in Seq(Token)
  /\ e \in Nat \ {0} /\ w \in Nat \ {0} /\ s \in Nat \ {0} /\ Len(bytes) = s
  /\ end = e + 3 + w + s /\ end <= Len(x)
  /\ j = 1 => e = 1
  /\ j < n => end < Len(x)
  /\ j = n => end = Len(x)
  /\ x[e + 1] = f.name /\ f.name # Delim
  /\ x[e + 2] = Delim /\ x[e + 3 + w] = Delim
  /\ \A k \in 1 .. w : x[e + 2 + k] = digits[k] /\ digits[k] \in DOMAIN Digit /\ digits[k] # Delim
  /\ \A k \in 1 .. s : x[e + 3 + w + k] = bytes[k] /\ bytes[k] \in Byte \ {Json}

\* Where the parts of the j-th file lie in the body x.
LEMMA TextLaid ==
  ASSUME NEW files \in Upload, NEW u \in 1 .. MaxUploads, NEW n, n = Len(files),
         NEW T, T = Texts(u, files), NEW x, x = BodyOf(u, files),
         NEW j \in 1 .. n, NEW e, e = Len(T[j - 1]),
         NEW digits, digits = Numeral(files[j].size),
         NEW bytes, bytes = FileBytes(u, files[j]),
         NEW s, s = files[j].size, NEW w, w = Len(digits)
  PROVE  LaidOut(x, files[j], digits, bytes, e, w, s, Len(T[j]), j, n)
  <1>1. /\ n \in Nat \ {0} /\ DOMAIN files = 1 .. n /\ T[0] = <<Json>>
        /\ \A i \in 0 .. n : T[i] \in Seq(Token)
    BY TextGrows
  <1>2. x = T[n]
    BY DEF BodyOf
  <1>3. x \in Seq(Token) /\ Len(x) \in Nat
    BY <1>1, <1>2
  <1>4. PICK t : t = FileText(u, files[j])
    OBVIOUS
  <1>5. /\ w \in Nat \ {0} /\ s \in Nat \ {0} /\ Len(bytes) = s
        /\ Len(t) = 3 + w + s
        /\ t[1] = files[j].name /\ t[1] # Delim /\ t[2] = Delim /\ t[3 + w] = Delim
        /\ \A k \in 1 .. w : t[2 + k] = digits[k] /\ digits[k] \in DOMAIN Digit /\ digits[k] # Delim
        /\ \A k \in 1 .. s : t[3 + w + k] = bytes[k] /\ bytes[k] \in Byte \ {Json}
    <2>1. j \in DOMAIN files
      BY <1>1
    <2>2. FileLaid(t, files[j], digits, bytes, s, w)
      BY ONLY FileTextLaid, <1>4, <2>1, files \in Upload, u \in 1 .. MaxUploads,
              digits = Numeral(files[j].size), bytes = FileBytes(u, files[j]), s = files[j].size, w = Len(digits)
    <2> QED BY ONLY <2>2 DEF FileLaid
  <1>6. /\ e \in Nat /\ Len(T[j]) = e + Len(t)
        /\ \A k \in 1 .. Len(t) : T[j][e + k] = t[k]
    <2>1. Follows(t, T[j - 1], T[j])
      BY ONLY OneLonger, <1>4, files \in Upload, u \in 1 .. MaxUploads, n = Len(files), T = Texts(u, files),
              j \in 1 .. n
    <2> QED BY ONLY <2>1, e = Len(T[j - 1]) DEF Follows
  <1>7. Len(T[j]) <= Len(x) /\ \A k \in 1 .. Len(T[j]) : x[k] = T[j][k]
    <2>1. j \in 0 .. n /\ n \in j .. n
      BY <1>1
    <2>2. Begins(T[j], T[n])
      BY ONLY TextHolds, <2>1, files \in Upload, u \in 1 .. MaxUploads, n = Len(files), T = Texts(u, files)
    <2> QED BY ONLY <1>2, <2>2 DEF Begins
  <1>8. e # 0 /\ (j = 1 => e = 1)
    <2>1. Len(T[0]) = 1
      BY <1>1
    <2>2. 0 \in 0 .. n /\ j - 1 \in 0 .. n
      BY <1>1
    <2>5. j - 1 \in 0 .. n
      BY <1>1
    <2>3. Len(T[0]) <= Len(T[j - 1])
      <3>1. Begins(T[0], T[j - 1])
        BY ONLY TextHolds, <2>2, <2>5, files \in Upload, u \in 1 .. MaxUploads, n = Len(files),
                T = Texts(u, files)
      <3> QED BY ONLY <3>1 DEF Begins
    <2>4. j = 1 => e = 1
      BY <2>1
    <2> QED BY ONLY <1>6, <2>1, <2>3, <2>4, e = Len(T[j - 1])
  <1>9. ASSUME j < n PROVE Len(T[j]) < Len(x)
    <2>1. PICK i \in 1 .. n : i = j + 1
      BY <1>9
    <2>2. PICK d : d = FileText(u, files[i])
      OBVIOUS
    <2>3. Len(T[i - 1]) \in Nat /\ Len(T[i]) = Len(T[i - 1]) + Len(d)
      <3>1. Follows(d, T[i - 1], T[i])
        BY ONLY OneLonger, <2>2, files \in Upload, u \in 1 .. MaxUploads, n = Len(files), T = Texts(u, files),
                i \in 1 .. n
      <3> QED BY ONLY <3>1 DEF Follows
    <2>4. Len(d) >= 3 /\ Len(d) \in Nat
      <3>1. i \in DOMAIN files
        BY <1>1
      <3>2. PICK k1, k2, k3, k4 : /\ k1 = Numeral(files[i].size) /\ k2 = FileBytes(u, files[i])
                                  /\ k3 = files[i].size /\ k4 = Len(k1)
        OBVIOUS
      <3>3. FileLaid(d, files[i], k1, k2, k3, k4)
        BY ONLY FileTextLaid, <2>2, <3>1, <3>2, files \in Upload, u \in 1 .. MaxUploads
      <3>4. k4 \in Nat \ {0} /\ k3 \in Nat \ {0} /\ Len(d) = 3 + k4 + k3
        BY ONLY <3>3 DEF FileLaid
      <3> QED BY ONLY <3>4
    <2>5. i \in 0 .. n /\ n \in i .. n
      BY <1>1
    <2>6. Len(T[i]) <= Len(x)
      <3>1. Begins(T[i], T[n])
        BY ONLY TextHolds, <2>5, files \in Upload, u \in 1 .. MaxUploads, n = Len(files), T = Texts(u, files)
      <3> QED BY ONLY <1>2, <3>1 DEF Begins
    <2>7. i - 1 = j
      BY <2>1
    <2> QED BY ONLY <1>3, <2>3, <2>4, <2>6, <2>7
  <1>10. \A k \in 1 .. Len(t) : x[e + k] = t[k]
    <2> SUFFICES ASSUME NEW k \in 1 .. Len(t) PROVE x[e + k] = t[k]
      OBVIOUS
    <2>1. e + k \in 1 .. Len(T[j])
      BY ONLY <1>5, <1>6, k \in 1 .. Len(t)
    <2> QED BY ONLY <1>6, <1>7, <2>1, k \in 1 .. Len(t)
  <1>11. x[e + 1] = t[1] /\ x[e + 2] = t[2]
    BY ONLY <1>5, <1>10
  <1>12. x[e + 3 + w] = t[3 + w]
    <2>1. 3 + w \in 1 .. Len(t) /\ e + (3 + w) = e + 3 + w
      BY ONLY <1>5, <1>6
    <2>2. x[e + (3 + w)] = t[3 + w]
      BY ONLY <1>10, <2>1
    <2> QED BY ONLY <2>1, <2>2
  <1>13. ASSUME NEW k \in 1 .. w PROVE x[e + 2 + k] = t[2 + k]
    <2>1. 2 + k \in 1 .. Len(t) /\ e + (2 + k) = e + 2 + k
      BY ONLY <1>5, <1>6, k \in 1 .. w
    <2>2. x[e + (2 + k)] = t[2 + k]
      BY ONLY <1>10, <2>1
    <2> QED BY ONLY <2>1, <2>2
  <1>14. ASSUME NEW k \in 1 .. s PROVE x[e + 3 + w + k] = t[3 + w + k]
    <2>1. 3 + w + k \in 1 .. Len(t) /\ e + (3 + w + k) = e + 3 + w + k
      BY ONLY <1>5, <1>6, k \in 1 .. s
    <2>2. x[e + (3 + w + k)] = t[3 + w + k]
      BY ONLY <1>10, <2>1
    <2> QED BY ONLY <2>1, <2>2
  <1>15. Len(T[j]) = e + 3 + w + s
    BY ONLY <1>5, <1>6
  <1>16. j = n => Len(T[j]) = Len(x)
    BY <1>2
  <1> QED BY ONLY <1>3, <1>5, <1>6, <1>7, <1>8, <1>9, <1>11, <1>12, <1>13, <1>14, <1>15, <1>16 DEF LaidOut

-----------------------------------------------------------------------------
(* The image that runs *)

\* While a request is under way the running image is protected.
ProtectedWhileFed == pc # "idle" \/ sending => Current \in protected

\* What is open is another region than the running image's, its cursor past its start.
OpenElsewhere ==
  open_region # NULL =>
    /\ open_region \in DOMAIN Table
    /\ open_region # Current
    /\ sector >= Table[open_region].start
    /\ max_sector = Table[open_region].start + Table[open_region].sectors - 1

\* A call, and a parser that waits for one, has its region open.
CallInRegion ==
  /\ call.op # "none" => open_region # NULL /\ pc \in {"write", "close"}
  /\ pc = "write" => open_region # NULL /\ call.op \in {"none", "write"}

UInv ==
  /\ registry = Table
  /\ current \in 1 .. 2
  /\ sector \in Nat /\ max_sector \in Nat
  /\ ProtectedWhileFed
  /\ OpenElsewhere
  /\ CallInRegion

USE SizeAssumption, SectorAssumption, NullAssumption, TableAssumption, BinAssumption

LEMMA FlushTouchesCursor ==
  ASSUME NEW b, NEW ok, Flush(b, ok)
  PROVE  \/ UNCHANGED flash
         \/ /\ sector <= max_sector
            /\ \E c : flash' = [flash EXCEPT ![sector] = c]
  BY Zenon DEF Flush

\* The handler's part and the parser's part leave the regions' variables to Open,
\* OpenRefused, WriteBegin, CloseBegin and the turns of a call.
LEMMA InitUInv == Init => UInv
  BY DEF Init, Fresh, Reset, UInv, ProtectedWhileFed, OpenElsewhere, CallInRegion, Idle

LEMMA PostUInv ==
  ASSUME UInv, NEW files \in Upload, NEW k, Post(files, k)
  PROVE  UInv'
  <1>1. /\ UNCHANGED <<registry, open_region, sector, max_sector, call, current>>
        /\ protected' = (protected \union {Current}) \ {Other}
        /\ pc = "idle" /\ pc' \in {"idle", "parse"}
    BY DEF Post, Chunk, ChunkEnd, Guarded
  <1>2. Current # Other /\ Current' = Current
    BY <1>1 DEF UInv, Current, Other
  <1> QED BY <1>1, <1>2 DEF UInv, ProtectedWhileFed, OpenElsewhere, CallInRegion

\* Every step that leaves the region layer alone and feeds the parser no new request.
LEMMA QuietUInv ==
  ASSUME UInv, UNCHANGED <<registry, protected, open_region, sector, max_sector, call, current>>,
         pc' # "idle" \/ sending' => pc # "idle" \/ sending,
         pc' = "write" => open_region # NULL /\ call.op \in {"none", "write"},
         call.op # "none" => pc' \in {"write", "close"}
  PROVE  UInv'
  BY DEF UInv, ProtectedWhileFed, OpenElsewhere, CallInRegion, Current

LEMMA QuietSteps ==
  ASSUME UInv, \/ \E k \in 1 .. MaxBody : Packet(k)
               \/ Abort \/ ParseName \/ MetaTooLong \/ InvalidState \/ EndClose \/ StreamEnd
  PROVE  UInv'
  <1> USE DEF regionVars
  <1>1. CASE \E k \in 1 .. MaxBody : Packet(k)
    BY <1>1, QuietUInv DEF Packet, Chunk, ChunkEnd, UInv, CallInRegion
  <1>2. CASE Abort
    BY <1>2, QuietUInv DEF Abort, bootVars, UInv, CallInRegion
  <1>3. CASE ParseName
    BY <1>3, QuietUInv DEF ParseName, Return, Continue, ChunkEnd, clientVars, bootVars, UInv, CallInRegion
  <1>4. CASE MetaTooLong
    BY <1>4, QuietUInv DEF MetaTooLong, Return, ChunkEnd, clientVars, UInv, CallInRegion
  <1>5. CASE InvalidState
    BY <1>5, QuietUInv DEF InvalidState, Return, ChunkEnd, clientVars, UInv, CallInRegion
  <1>6. CASE EndClose
    BY <1>6, QuietUInv DEF EndClose, Return, Continue, ChunkEnd, clientVars, bootVars, UInv, CallInRegion
  <1>7. CASE StreamEnd
    BY <1>7, QuietUInv DEF StreamEnd, clientVars, UInv, CallInRegion
  <1> QED BY <1>1, <1>2, <1>3, <1>4, <1>5, <1>6, <1>7

\* A region of the table ends below 2^16: the sector arithmetic does not wrap.
LEMMA TableEnd ==
  ASSUME NEW r \in DOMAIN Table
  PROVE  End(Table[r]) = Table[r].start + Table[r].sectors - 1
  <1> DEFINE x == Table[r].start + Table[r].sectors - 1
  <1>1. x \in Nat /\ x < W
    BY DEF Region
  <1>2. x % W = x
    BY <1>1
  <1> QED BY <1>2 DEF End

\* The one place where a region is opened: the running image is refused.
LEMMA ParseSizeUInv ==
  ASSUME UInv, ParseSize \/ SizeRefused
  PROVE  UInv'
  <1>1. /\ pc = "parse" /\ pc' \in {"parse", "idle"} /\ UNCHANGED <<sending, current>>
        /\ Current \in protected
    <2>1. CASE ParseSize
      BY <2>1 DEF ParseSize, SizeField, Return, Continue, ChunkEnd, clientVars, bootVars, UInv,
                  ProtectedWhileFed
    <2>2. CASE SizeRefused
      BY <2>2 DEF SizeRefused, SizeField, Return, ChunkEnd, clientVars, UInv, ProtectedWhileFed
    <2> QED BY <2>1, <2>2
  <1>2. CASE Open(Named(name))
    <2> DEFINE r == Named(name)
    <2>1. /\ r \in DOMAIN Table /\ r # Current /\ call.op = "none"
          /\ Table[r] \in Region /\ Table[r].sectors >= 1
          /\ Table[r].start + Table[r].sectors - 1 <= LastSector
      BY <1>1, <1>2 DEF Open, CanOpen, Registered, UInv, CallInRegion
    <2>2. End(Table[r]) = Table[r].start + Table[r].sectors - 1
      BY <2>1, TableEnd
    <2>3. /\ open_region' = r /\ sector' = Table[r].start
          /\ max_sector' = Table[r].start + Table[r].sectors - 1
          /\ UNCHANGED <<registry, protected, call>>
      <3>1. registry = Table
        BY DEF UInv
      <3>2. /\ open_region' = r /\ sector' = registry[r].start /\ max_sector' = End(registry[r])
            /\ UNCHANGED <<registry, protected, call>>
        BY <1>2, Zenon DEF Open
      <3> QED BY <2>2, <3>1, <3>2
    <2>4. sector' \in Nat /\ max_sector' \in Nat /\ sector' >= Table[r].start
      BY <2>1, <2>3 DEF Region
    <2>5. Current' = Current
      BY <1>1 DEF Current
    <2>6. r # NULL
      BY <2>1
    <2> QED BY <1>1, <2>1, <2>3, <2>4, <2>5, <2>6
            DEF UInv, ProtectedWhileFed, OpenElsewhere, CallInRegion
  <1>3. CASE OpenRefused(Named(name))
    <2>1. /\ open_region' \in {open_region, NULL} /\ UNCHANGED <<registry, protected, call>>
          /\ open_region' # NULL => UNCHANGED <<sector, max_sector>>
          /\ sector' \in Nat /\ max_sector' \in Nat
      BY <1>3 DEF OpenRefused, Cleared, UInv
    <2>2. call.op = "none" /\ Current' = Current
      BY <1>1, <1>3 DEF UInv, CallInRegion, Current
    <2> QED BY <1>1, <2>1, <2>2 DEF UInv, ProtectedWhileFed, OpenElsewhere, CallInRegion
  <1> QED BY <1>2, <1>3 DEF ParseSize, SizeRefused

LEMMA StartWriteUInv ==
  ASSUME UInv, StartWrite
  PROVE  UInv'
  <1>1. /\ UNCHANGED <<registry, protected, open_region, sector, max_sector, current, sending>>
        /\ pc = "parse" /\ pc' = "write" /\ open_region # NULL
    BY DEF StartWrite, WriteBegin, CanWrite, Continue, bootVars, clientVars
  <1>2. call'.op = "write"
    BY DEF StartWrite, WriteBegin
  <1> QED BY <1>1, <1>2 DEF UInv, ProtectedWhileFed, OpenElsewhere, CallInRegion, Current

LEMMA EndWriteUInv ==
  ASSUME UInv, EndWrite
  PROVE  UInv'
  <1>1. /\ pc = "write" /\ call.op = "none" /\ open_region # NULL
        /\ UNCHANGED <<current, sending>>
    BY DEF EndWrite, Return, Continue, bootVars, clientVars, UInv, CallInRegion
  <1>2. CASE UNCHANGED regionVars /\ pc' = "idle"
    BY <1>1, <1>2, QuietUInv DEF regionVars
  <1>3. CASE CloseBegin /\ pc' = "close"
    <2>1. CASE mode = "WRITE"
      <3>1. /\ UNCHANGED <<registry, protected, open_region, sector, max_sector>>
        BY <1>3, <2>1 DEF CloseBegin
      <3> QED BY <1>1, <1>3, <3>1 DEF UInv, ProtectedWhileFed, OpenElsewhere, CallInRegion, Current
    <2>2. CASE mode # "WRITE"
      <3>1. /\ UNCHANGED <<registry, protected>>
            /\ open_region' = NULL /\ sector' = 0 /\ max_sector' = 0 /\ call'.op = "none"
        BY <1>3, <2>2 DEF CloseBegin, Cleared, Idle
      <3> QED BY <1>1, <1>3, <3>1 DEF UInv, ProtectedWhileFed, OpenElsewhere, CallInRegion, Current
    <2> QED BY <2>1, <2>2
  <1> QED BY <1>2, <1>3 DEF EndWrite, Return, ChunkEnd

\* A turn of a call moves the cursor forward in the region, or clears it.
LEMMA TurnEffect ==
  ASSUME UInv, NEW ok, Turn(ok)
  PROVE  /\ call.op # "none"
         /\ UNCHANGED <<registry, protected>>
         /\ \/ /\ UNCHANGED <<open_region, max_sector>>
               /\ sector' \in {sector, sector + 1}
            \/ /\ open_region' = NULL /\ sector' = 0 /\ max_sector' = 0 /\ call'.op = "none"
         /\ \/ UNCHANGED flash
            \/ \E b : Flush(b, ok)
         /\ call'.op # "none" => UNCHANGED open_region
         /\ call.op = "write" => UNCHANGED open_region /\ call'.op \in {"none", "write"}
  <1>1. CASE WriteTurn(ok)
    <2>1. call.op = "write" /\ call'.op \in {"none", "write"}
          /\ UNCHANGED <<registry, protected, open_region, max_sector>>
      BY <1>1 DEF WriteTurn, Idle
    <2>2. sector' \in {sector, sector + 1} /\ (UNCHANGED flash \/ Flush(Filled, ok))
      BY <1>1 DEF WriteTurn, After
    <2> QED BY <2>1, <2>2
  <1>2. CASE CloseTurn(ok)
    BY <1>2 DEF CloseTurn, After
  <1>3. CASE TruncateTurn(ok)
    BY <1>3 DEF TruncateTurn, After, Cleared
  <1> QED BY <1>1, <1>2, <1>3 DEF Turn

LEMMA ChipUInv ==
  ASSUME UInv, NEW ok \in BOOLEAN, Chip(ok)
  PROVE  UInv'
  <1>1. Turn(ok) /\ UNCHANGED <<pc, current, sending>> /\ pc \in {"write", "close"}
    BY DEF Chip, bootVars, clientVars
  <1>2. Current' = Current
    BY <1>1 DEF Current
  <1>3. sector' \in Nat /\ max_sector' \in Nat /\ (open_region' # NULL => sector' >= sector)
    BY <1>1, TurnEffect DEF UInv
  <1>4. ProtectedWhileFed'
    BY <1>1, <1>2, TurnEffect DEF UInv, ProtectedWhileFed
  <1>5. OpenElsewhere'
    <2> SUFFICES ASSUME open_region' # NULL PROVE OpenElsewhere'
      BY DEF OpenElsewhere
    <2>1. UNCHANGED <<open_region, max_sector>> /\ sector' >= sector
      BY <1>1, <1>3, TurnEffect
    <2>2. open_region \in DOMAIN Table /\ Table[open_region].start \in Nat
      BY <2>1 DEF UInv, OpenElsewhere, Region
    <2> QED BY <1>2, <1>3, <2>1, <2>2 DEF UInv, OpenElsewhere
  <1>6. CallInRegion'
    <2>1. pc = "write" => call.op = "write"
      BY <1>1, TurnEffect DEF UInv, CallInRegion
    <2> QED BY <1>1, <2>1, TurnEffect DEF UInv, CallInRegion
  <1>7. registry' = Table /\ current' \in 1 .. 2
    BY <1>1, TurnEffect DEF UInv
  <1> QED BY <1>3, <1>4, <1>5, <1>6, <1>7 DEF UInv

LEMMA BootUInv ==
  ASSUME Boot, current' \in 1 .. 2
  PROVE  UInv'
  BY DEF Boot, Cleared, Idle, UInv, ProtectedWhileFed, OpenElsewhere, CallInRegion

THEOREM UploadInvariance == Spec => []UInv
  <1>1. Init => UInv
    BY InitUInv
  <1>2. UInv /\ [Next]_vars => UInv'
    <2> SUFFICES ASSUME UInv, [Next]_vars PROVE UInv'
      OBVIOUS
    <2>1. CASE \E files \in Upload, k \in 0 .. MaxBody : Post(files, k)
      BY <2>1, PostUInv
    <2>2. CASE \/ \E k \in 1 .. MaxBody : Packet(k)
               \/ Abort \/ ParseName \/ MetaTooLong \/ InvalidState \/ EndClose \/ StreamEnd
      BY <2>2, QuietSteps
    <2>3. CASE ParseSize \/ SizeRefused
      BY <2>3, ParseSizeUInv
    <2>4. CASE StartWrite
      BY <2>4, StartWriteUInv
    <2>5. CASE EndWrite
      BY <2>5, EndWriteUInv
    <2>6. CASE \E ok \in BOOLEAN : Chip(ok)
      BY <2>6, ChipUInv
    <2>7. CASE Reboot
      BY <2>7, BootUInv DEF Reboot, UInv
    <2>8. CASE Outage
      BY <2>8, BootUInv DEF Outage, UInv
    <2>9. CASE UNCHANGED vars
      BY <2>9, QuietUInv DEF vars, regionVars, bootVars, clientVars, UInv, CallInRegion
    <2> QED BY <2>1, <2>2, <2>3, <2>4, <2>5, <2>6, <2>7, <2>8, <2>9 DEF Next, Parse
  <1> QED BY <1>1, <1>2, PTL DEF Spec

-----------------------------------------------------------------------------
\* A flush writes into the open region: the sectors of the others stay.
LEMMA FlushSparesOthers ==
  ASSUME UInv, open_region # NULL, NEW b, NEW ok, Flush(b, ok),
         NEW r \in DOMAIN Table, r # open_region, NEW s \in TableRange(r)
  PROVE  flash'[s] = flash[s]
  <1>1. CASE UNCHANGED flash
    BY <1>1
  <1>2. CASE sector <= max_sector /\ \E c : flash' = [flash EXCEPT ![sector] = c]
    <2>1. open_region \in DOMAIN Table /\ Table[open_region] \in Region
      BY DEF UInv, OpenElsewhere
    <2>2. sector \in TableRange(open_region)
      BY <1>2, <2>1 DEF UInv, OpenElsewhere, TableRange, SectorsOf, Region
    <2>3. TableRange(open_region) \intersect TableRange(r) = {}
      BY <2>1
    <2>4. s # sector
      BY <2>2, <2>3
    <2> QED BY <1>2, <2>4
  <1> QED BY <1>1, <1>2, FlushTouchesCursor

\* No step changes a sector of the image that runs (RunningImageUntouched), for
\* every table of disjoint regions, every size and every list of files.
THEOREM RunningImageSafe == Spec => RunningImageUntouched
  <1>1. UInv /\ [Next]_vars => [\A s \in TableRange(Current) : flash'[s] = flash[s]]_vars
    <2> SUFFICES ASSUME UInv, Next, NEW s \in TableRange(Current)
                 PROVE  flash'[s] = flash[s]
      OBVIOUS
    <2>5. open_region # NULL => Current \in DOMAIN Table /\ Current # open_region
      BY DEF UInv, OpenElsewhere, Current
    <2>1. CASE UNCHANGED flash
      BY <2>1
    <2>2. CASE \E ok \in BOOLEAN : Chip(ok)
      <3>1. PICK ok \in BOOLEAN : Turn(ok)
        BY <2>2 DEF Chip
      <3>2. open_region # NULL /\ (UNCHANGED flash \/ \E b : Flush(b, ok))
        BY <3>1, TurnEffect DEF UInv, CallInRegion
      <3> QED BY <2>5, <3>2, FlushSparesOthers
    <2>3. CASE Outage
      <3>1. UNCHANGED flash \/ \E ok \in BOOLEAN : Flush(FlushedNow, ok)
        BY <2>3 DEF Outage, PowerLoss
      <3>2. CASE call.op = "none"
        BY <3>1, <3>2 DEF FlushedNow, Flush
      <3>3. CASE call.op # "none"
        BY <2>5, <3>1, <3>3, FlushSparesOthers DEF UInv, CallInRegion
      <3> QED BY <3>2, <3>3
    <2>4. Next => UNCHANGED flash \/ Outage \/ \E ok \in BOOLEAN : Chip(ok)
      BY DEF Next, Parse, Post, Packet, Abort, MetaTooLong, ParseName, ParseSize, SizeRefused, Open, OpenRefused,
             InvalidState, StartWrite, WriteBegin, EndWrite, CloseBegin, EndClose, StreamEnd,
             Reboot, regionVars
    <2> QED BY <2>1, <2>2, <2>3, <2>4
  <1> QED BY <1>1, UploadInvariance, PTL DEF Spec, RunningImageUntouched

-----------------------------------------------------------------------------
(* While the parser reads a file's data its region is open *)

\* Nothing of the upgrade reads a region.
DInv == mode # "READ" /\ DataHasRegion

LEMMA InitDInv == Init => DInv
  BY DEF Init, Fresh, Reset, DInv, DataHasRegion

\* A packet continues the stream, or begins one, or is refused.
LEMMA FedDInv ==
  ASSUME DInv, \/ \E files \in Upload, k \in 0 .. MaxBody : Post(files, k)
               \/ \E k \in 1 .. MaxBody : Packet(k)
  PROVE  DInv'
  <1>1. /\ UNCHANGED <<open_region, mode>> /\ pc = "idle"
        /\ state' \in {state, "NAME", "ERROR"}
    BY DEF Post, Packet, regionVars, Chunk, NewStream, streamVars
  <1> QED BY <1>1 DEF DInv, DataHasRegion

\* The parser's own steps: it comes to the data with the region it opened, and leaves
\* it when the file or the stream ends.
LEMMA ParseDInv ==
  ASSUME UInv, DInv, Parse
  PROVE  DInv'
  <1>1. CASE ParseName \/ MetaTooLong \/ InvalidState
    BY <1>1 DEF ParseName, MetaTooLong, InvalidState, regionVars, streamVars, DInv, DataHasRegion
  <1>2. CASE ParseSize
    <2>1. open_region' = Named(name) /\ Named(name) \in DOMAIN registry /\ mode' = "NONE"
      BY <1>2, Zenon DEF ParseSize, Open, CanOpen, Registered
    <2>2. Named(name) # NULL
      BY <2>1 DEF UInv
    <2> QED BY <2>1, <2>2 DEF DInv, DataHasRegion
  <1>3. CASE SizeRefused
    BY <1>3 DEF SizeRefused, OpenRefused, DInv, DataHasRegion
  <1>4. CASE StartWrite
    BY <1>4 DEF StartWrite, WriteBegin, CanWrite, streamVars, DInv, DataHasRegion
  <1>5. CASE EndWrite
    <2>1. /\ pc = "write" /\ open_region # NULL
          /\ \/ state' = "ERROR" /\ UNCHANGED mode
             \/ pc' = "close" /\ UNCHANGED mode
             \/ UNCHANGED <<open_region, mode, state>>
      BY <1>5 DEF EndWrite, CloseBegin, regionVars, UInv, CallInRegion
    <2> QED BY <2>1 DEF DInv, DataHasRegion
  <1>6. CASE EndClose
    BY <1>6 DEF EndClose, NewStream, regionVars, DInv, DataHasRegion
  <1> QED BY <1>1, <1>2, <1>3, <1>4, <1>5, <1>6 DEF Parse

LEMMA ChipDInv ==
  ASSUME UInv, DInv, NEW ok \in BOOLEAN, Chip(ok)
  PROVE  DInv'
  <1>1. Turn(ok) /\ UNCHANGED <<pc, state>> /\ pc \in {"write", "close"}
    BY DEF Chip, streamVars
  <1>2. UNCHANGED mode
    BY <1>1 DEF Turn, WriteTurn, CloseTurn, TruncateTurn
  <1>3. CASE pc = "write"
    <2>1. call.op = "write" /\ UNCHANGED open_region
      BY <1>1, <1>3, TurnEffect DEF UInv, CallInRegion
    <2> QED BY <1>1, <1>2, <2>1 DEF DInv, DataHasRegion
  <1>4. CASE pc = "close"
    BY <1>1, <1>2, <1>4 DEF DInv, DataHasRegion
  <1> QED BY <1>1, <1>3, <1>4

\* flash_region_write finds a region that is open and not being read, in every state
\* in which flash_stream_data calls it.
THEOREM UploadDataHasRegion == Spec => []DataHasRegion
  <1>1. Init => DInv
    BY InitDInv
  <1>2. UInv /\ DInv /\ [Next]_vars => DInv'
    <2> SUFFICES ASSUME UInv, DInv, [Next]_vars PROVE DInv'
      OBVIOUS
    <2>1. CASE \/ \E files \in Upload, k \in 0 .. MaxBody : Post(files, k)
               \/ \E k \in 1 .. MaxBody : Packet(k)
      BY <2>1, FedDInv
    <2>2. CASE Parse
      BY <2>2, ParseDInv
    <2>3. CASE \E ok \in BOOLEAN : Chip(ok)
      BY <2>3, ChipDInv
    <2>4. CASE Abort \/ StreamEnd
      BY <2>4 DEF Abort, StreamEnd, regionVars, streamVars, DInv, DataHasRegion
    <2>5. CASE Reboot \/ Outage
      BY <2>5 DEF Reboot, Outage, Boot, DInv, DataHasRegion
    <2>6. CASE UNCHANGED vars
      BY <2>6 DEF vars, regionVars, streamVars, DInv, DataHasRegion
    <2> QED BY <2>1, <2>2, <2>3, <2>4, <2>5, <2>6 DEF Next
  <1>3. DInv => DataHasRegion
    BY DEF DInv
  <1> QED BY <1>1, <1>2, <1>3, UploadInvariance, PTL DEF Spec

-----------------------------------------------------------------------------
(* Where the parser is in the body of the request it is fed *)

Posted    == upload.files
Text      == BodyOf(upload.id, Posted)
EndOf(i)  == Len(Texts(upload.id, Posted)[i])       \* of the i-th file
Digits(j) == Numeral(Posted[j].size)
Bytes(j)  == FileBytes(upload.id, Posted[j])
Here      == Len(Text) - Len(input) - Len(body)     \* the bytes that are parsed

\* What is left of the packet and of the request is what is left of the body.
Fed ==
  /\ Posted \in Upload /\ upload.id \in 1 .. MaxUploads
  /\ input \in Seq(Token) /\ body \in Seq(Token)
  /\ Here \in Nat \ {0}
  /\ \A i \in 1 .. Len(input) : input[i] = Text[Here + i]
  /\ \A i \in 1 .. Len(body) : body[i] = Text[Here + Len(input) + i]
  /\ sending <=> body # <<>>
  /\ pc # "idle" => (last <=> ~ sending)
  /\ pc = "idle" => input = <<>>

FileDone(i) == Posted[i].name \in DOMAIN Table /\ Fits(Posted[i]) /\ FileStored(Posted[i])

InName(j) ==
  /\ state = "NAME" /\ pc \in {"idle", "parse"}
  /\ size_str = <<>> /\ global_pos = 0
  /\ \/ name = <<>> /\ Here = EndOf(j - 1)
     \/ name = <<Posted[j].name>> /\ Here = EndOf(j - 1) + 1
  /\ pc = "parse" /\ input = <<>> => Here = 1

InSize(j) ==
  /\ state = "SIZE" /\ pc \in {"idle", "parse"} /\ global_pos = 0
  /\ name = <<Posted[j].name>>
  /\ size_str \in Seq(Token) /\ Len(size_str) <= Len(Digits(j))
  /\ \A i \in 1 .. Len(size_str) : size_str[i] = Digits(j)[i]
  /\ Here = EndOf(j - 1) + 2 + Len(size_str)
  /\ size_str # <<>> => open_region # NULL
  /\ pc = "parse" => input # <<>>

InData(j) ==
  /\ state = "DATA" /\ pc \in {"idle", "parse", "write"}
  /\ name = <<Posted[j].name>> /\ size = Posted[j].size /\ open_region = Posted[j].name
  /\ global_pos \in 0 .. size - 1
  /\ Here = EndOf(j - 1) + 3 + Len(Digits(j)) + global_pos
  /\ pc # "idle" => input # <<>>
  /\ pc # "write" => Delivering(Bytes(j), global_pos)
  /\ pc = "write" => /\ mode = "WRITE"
                     /\ call.result => Delivering(Bytes(j), global_pos + WriteLen)

InClose(j) ==
  /\ state = "DATA" /\ pc = "close"
  /\ name = <<Posted[j].name>> /\ size = Posted[j].size
  /\ Here = EndOf(j)
  /\ call.op # "write"
  /\ call.op # "none" => open_region = Posted[j].name
  /\ call.op = "close" => Delivering(Bytes(j), size)
  /\ call.op = "truncate" /\ call.result => Passed(Bytes(j), size)
  /\ call.op = "none" => open_region = NULL /\ (call.result => FileDone(j))

Ended(j) ==
  /\ state = "DONE" /\ pc \in {"idle", "parse"}
  /\ open_region = NULL
  /\ Here = EndOf(j) /\ FileDone(j)

InFile(j) ==
  /\ \A i \in 1 .. j - 1 : FileDone(i)
  /\ InName(j) \/ InSize(j) \/ InData(j) \/ InClose(j) \/ Ended(j)

\* The first packet was the JSON text alone: the parser took a byte from behind it, and
\* the name it reads is no region's.
Lost ==
  /\ pc \in {"idle", "parse"} /\ Here <= 3
  /\ pc = "parse" => input # <<>>
  /\ \/ state = "NAME" /\ name \in Seq(Token) /\ Len(name) = 1 /\ Here = 1
     \/ state = "NAME" /\ name \in Seq(Token) /\ Len(name) = 2 /\ Here = 2
     \/ state = "SIZE" /\ Len(name) # 1

Parsing == Fed /\ ((\E j \in DOMAIN Posted : InFile(j)) \/ Lost)

\* The request that is parsed has not failed so far.
InStep ==
  /\ pc # "idle" => success
  /\ sending => ~ first
  /\ pc # "idle" \/ (sending /\ success) => Parsing

\* A request that has succeeded was parsed to its end.
Committed ==
  end_timer = "ok" \/ reboot_timer =>
    /\ pc = "idle" /\ ~ sending /\ state = "DONE" /\ open_region = NULL
    /\ \A i \in DOMAIN Posted : FileDone(i)

\* Only a write has data, and one that goes on has not failed.
CallTidy ==
  /\ call.op # "write" => call.data = <<>>
  /\ call.op = "write" => call.result

SInv == RegionInv /\ upload.id \in 0 .. MaxUploads /\ CallTidy /\ InStep /\ Committed

USE ByteAssumption, TokenAssumption, BoundAssumption

\* Where the j-th file of the request lies in its text.
LEMMA Layout ==
  ASSUME Posted \in Upload, upload.id \in 1 .. MaxUploads, NEW j \in DOMAIN Posted,
         NEW n, n = Len(Posted), NEW x, x = Text, NEW f, f = Posted[j],
         NEW digits, digits = Digits(j), NEW bytes, bytes = Bytes(j),
         NEW e, e = EndOf(j - 1), NEW w, w = Len(digits), NEW s, s = f.size,
         NEW end, end = EndOf(j)
  PROVE  /\ LaidOut(x, f, digits, bytes, e, w, s, end, j, n)
         /\ n \in Nat \ {0} /\ DOMAIN Posted = 1 .. n
  <1>1. PICK files, u, T : files = Posted /\ u = upload.id /\ T = Texts(u, files)
    OBVIOUS
  <1>2. /\ files \in Upload /\ u \in 1 .. MaxUploads /\ n = Len(files) /\ x = BodyOf(u, files)
        /\ digits = Numeral(files[j].size) /\ bytes = FileBytes(u, files[j])
        /\ s = files[j].size /\ e = Len(T[j - 1]) /\ end = Len(T[j]) /\ f = files[j]
    BY <1>1 DEF Text, Digits, Bytes, EndOf
  <1>3. n \in Nat \ {0} /\ DOMAIN files = 1 .. n
    BY ONLY TextGrows, <1>1, <1>2
  <1>4. j \in 1 .. n
    BY <1>1, <1>3
  <1>5. LaidOut(x, files[j], digits, bytes, e, w, s, Len(T[j]), j, n)
    <2>1. T = Texts(u, files) /\ w = Len(digits)
      BY <1>1
    <2>2. /\ files \in Upload /\ u \in 1 .. MaxUploads /\ n = Len(files) /\ x = BodyOf(u, files)
          /\ digits = Numeral(files[j].size) /\ bytes = FileBytes(u, files[j])
          /\ s = files[j].size /\ e = Len(T[j - 1])
      BY ONLY <1>2
    <2> QED BY ONLY TextLaid, <1>4, <2>1, <2>2
  <1> QED BY <1>1, <1>2, <1>3, <1>5

LEMMA TextType ==
  ASSUME Posted \in Upload, upload.id \in 1 .. MaxUploads
  PROVE  Text \in Seq(Token)
  <1>1. PICK files, u, T, n : files = Posted /\ u = upload.id /\ T = Texts(u, files) /\ n = Len(files)
    OBVIOUS
  <1>2. n \in Nat \ {0} /\ \A i \in 0 .. n : T[i] \in Seq(Token)
    BY ONLY TextGrows, <1>1, Posted \in Upload, upload.id \in 1 .. MaxUploads
  <1>3. Text = T[n]
    BY <1>1 DEF Text, BodyOf
  <1> QED BY <1>2, <1>3

\* A field is what comes before the first delimiter.
Splits(in, f) ==
  /\ f \in Seq(Token) /\ Len(f) \in 0 .. Len(in)
  /\ \A i \in 1 .. Len(f) : f[i] = in[i] /\ in[i] # Delim
  /\ Len(f) < Len(in) => in[Len(f) + 1] = Delim

LEMMA FieldSplits ==
  ASSUME NEW in \in Seq(Token)
  PROVE  Splits(in, Field(in))
  <1> DEFINE l == Len(in)
             Ends(n) == /\ \A i \in 1 .. n : in[i] # Delim
                        /\ n < Len(in) => in[n + 1] = Delim
             T == {n \in 0 .. l : n < l => in[n + 1] = Delim}
  <1>1. l \in Nat
    OBVIOUS
  <1>2. T \subseteq Nat /\ l \in T
    BY <1>1
  <1>3. PICK n \in T : \A y \in T : n <= y
    <2> HIDE DEF T
    <2> QED BY <1>2, NatMin
  <1>4. n \in 0 .. Len(in)
    BY <1>3
  <1>5. ASSUME NEW i \in 1 .. n PROVE in[i] # Delim
    <2>1. i - 1 \in 0 .. l /\ i - 1 < n /\ (i - 1) + 1 = i
      BY <1>1, <1>3
    <2>2. i - 1 \notin T
      <3>1. n \in Nat
        BY <1>1, <1>3
      <3> HIDE DEF T
      <3> QED BY <1>3, <2>1, <3>1
    <2> QED BY <2>1, <2>2
  <1>6. Ends(n)
    BY <1>3, <1>5
  <1> HIDE DEF T, Ends
  <1>7. PICK c : c = CHOOSE m \in 0 .. Len(in) : Ends(m)
    OBVIOUS
  <1>8. c \in 0 .. Len(in) /\ Ends(c)
    BY <1>4, <1>6, <1>7
  <1>9. Field(in) = SubSeq(in, 1, c)
    BY <1>7 DEF Field, Ends
  <1>10. PICK f : f = Field(in)
    OBVIOUS
  <1>11. f = SubSeq(in, 1, c)
    BY <1>9, <1>10
  <1>12. /\ f \in Seq(Token) /\ Len(f) = c
         /\ \A i \in 1 .. c : f[i] = in[i]
    BY ONLY <1>8, <1>11, in \in Seq(Token)
  <1>13. Splits(in, f)
    BY ONLY <1>8, <1>12 DEF Splits, Ends
  <1> QED BY <1>10, <1>13

\* The field and its delimiter are what is parsed of the input.
Taken(in) == IF Found(in) THEN Len(Field(in)) + 1 ELSE Len(in)

LEMMA BehindIs ==
  ASSUME NEW in \in Seq(Token)
  PROVE  /\ Taken(in) \in 0 .. Len(in)
         /\ Behind(in) = SubSeq(in, Taken(in) + 1, Len(in))
         /\ Behind(in) = <<>> <=> Taken(in) = Len(in)
  <1>1. PICK f, m : f = Field(in) /\ m = Taken(in)
    OBVIOUS
  <1>2. Splits(in, f)
    BY <1>1, FieldSplits
  <1>3. Len(f) \in 0 .. Len(in) /\ Len(in) \in Nat
    BY ONLY <1>2, in \in Seq(Token) DEF Splits
  <1>4. m = IF Len(f) < Len(in) THEN Len(f) + 1 ELSE Len(in)
    BY <1>1 DEF Taken, Found
  <1>5. m \in 0 .. Len(in)
    BY ONLY <1>3, <1>4
  <1>6. SubSeq(in, Len(f) + 2, Len(in)) = SubSeq(in, m + 1, Len(in))
    <2>1. CASE Len(f) < Len(in)
      BY ONLY <1>3, <1>4, <2>1
    <2>2. CASE ~ (Len(f) < Len(in))
      <3>1. Len(f) = Len(in) /\ m = Len(in)
        BY ONLY <1>3, <1>4, <2>2
      <3>2. SubSeq(in, Len(in) + 2, Len(in)) = <<>> /\ SubSeq(in, Len(in) + 1, Len(in)) = <<>>
        BY ONLY in \in Seq(Token)
      <3> QED BY ONLY <3>1, <3>2
    <2> QED BY <2>1, <2>2
  <1>7. Behind(in) = SubSeq(in, m + 1, Len(in))
    BY <1>1, <1>6 DEF Behind
  <1>8. SubSeq(in, m + 1, Len(in)) = <<>> <=> m = Len(in)
    <2>1. PICK b : b = SubSeq(in, m + 1, Len(in))
      OBVIOUS
    <2>2. b \in Seq(Token) /\ Len(b) = Len(in) - m
      BY ONLY <1>3, <1>5, <2>1, in \in Seq(Token)
    <2>3. b = <<>> <=> Len(b) = 0
      BY ONLY <2>2
    <2> QED BY ONLY <1>3, <1>5, <2>1, <2>2, <2>3
  <1> QED BY ONLY <1>1, <1>5, <1>7, <1>8

\* The parser goes on by m bytes.
LEMMA Consume ==
  ASSUME Fed, NEW m \in 0 .. Len(input), input' = SubSeq(input, m + 1, Len(input)),
         UNCHANGED <<body, sending, upload>>,
         pc' # "idle" => last' = last /\ pc # "idle",
         pc' = "idle" => input' = <<>>
  PROVE  Fed' /\ Here' = Here + m
  <1>1. PICK x, h, l : x = Text /\ h = Here /\ l = Len(input)
    OBVIOUS
  <1>2. Text' = x /\ Posted' = Posted
    BY <1>1 DEF Text, Posted
  <1>3. input \in Seq(Token) /\ body \in Seq(Token) /\ l \in Nat /\ Len(body) \in Nat
    BY <1>1 DEF Fed
  <1>4. h = Len(x) - l - Len(body) /\ h \in Nat \ {0}
    BY <1>1 DEF Here, Fed
  <1>5. /\ input' \in Seq(Token) /\ Len(input') = l - m
        /\ \A i \in 1 .. l - m : input'[i] = input[m + i]
    BY ONLY <1>1, <1>3, m \in 0 .. Len(input), input' = SubSeq(input, m + 1, Len(input))
  <1>6. Here' = Len(x) - (l - m) - Len(body)
    BY <1>2, <1>5 DEF Here
  <1>7. Len(x) \in Int
    <2>1. x \in Seq(Token)
      BY <1>1, TextType DEF Fed
    <2> QED BY <2>1
  <1>8. m \in Nat /\ m <= l
    BY <1>1, <1>3
  <1>9. Here' = h + m
    BY ONLY <1>3, <1>4, <1>6, <1>7, <1>8
  <1>10. ASSUME NEW i \in 1 .. Len(input') PROVE input'[i] = x[h + m + i]
    <2>1. i \in 1 .. l - m /\ m + i \in 1 .. l /\ h + (m + i) = h + m + i
      BY ONLY <1>3, <1>4, <1>5, <1>8, i \in 1 .. Len(input')
    <2>2. \A k \in 1 .. l : input[k] = x[h + k]
      BY <1>1 DEF Fed
    <2>3. input[m + i] = x[h + (m + i)]
      BY ONLY <2>1, <2>2
    <2> QED BY ONLY <1>5, <2>1, <2>3
  <1>11. ASSUME NEW i \in 1 .. Len(body) PROVE body[i] = x[h + m + Len(input') + i]
    <2>1. h + m + Len(input') + i = h + l + i
      BY ONLY <1>3, <1>4, <1>5, <1>8, i \in 1 .. Len(body)
    <2>2. body[i] = x[h + l + i]
      BY <1>1 DEF Fed
    <2> QED BY ONLY <2>1, <2>2
  <1>12. h + m \in Nat \ {0}
    BY ONLY <1>4, <1>8
  <1>13. /\ Posted' \in Upload /\ upload'.id \in 1 .. MaxUploads
         /\ sending' <=> body' # <<>>
         /\ pc' # "idle" => (last' <=> ~ sending')
    BY <1>2 DEF Fed
  <1>14. /\ \A i \in 1 .. Len(input)' : input'[i] = Text'[Here' + i]
         /\ \A i \in 1 .. Len(body)' : body'[i] = Text'[Here' + Len(input)' + i]
    BY <1>2, <1>9, <1>10, <1>11
  <1>15. Fed'
    BY <1>3, <1>5, <1>9, <1>12, <1>13, <1>14 DEF Fed
  <1> QED BY <1>1, <1>9, <1>15

-----------------------------------------------------------------------------
(* How a step of the parser ends *)

\* A failure ends the request's parsing.
LEMMA Fails ==
  ASSUME InStep, Committed, pc # "idle", Return(FALSE)
  PROVE  InStep' /\ Committed'
  <1>1. /\ success' = FALSE /\ pc' = "idle" /\ first' = last
        /\ sending' = sending /\ reboot_timer' = reboot_timer
        /\ end_timer' \in {"failed", "none"}
    BY DEF Return, ChunkEnd, clientVars
  <1>2. sending => ~ last
    BY DEF InStep, Parsing, Fed
  <1>3. ~ reboot_timer
    BY DEF Committed
  <1> QED BY <1>1, <1>2, <1>3 DEF InStep, Committed

\* A packet was parsed and more of the request is to come.
LEMMA Returns ==
  ASSUME InStep, Committed, pc # "idle", Return(TRUE), sending, Parsing'
  PROVE  InStep' /\ Committed'
  <1>1. /\ success' = TRUE /\ pc' = "idle" /\ first' = last
        /\ sending' = sending /\ reboot_timer' = reboot_timer
        /\ ~ last => end_timer' = "none"
    BY DEF Return, ChunkEnd, clientVars
  <1>2. ~ last
    BY DEF InStep, Parsing, Fed
  <1>3. ~ reboot_timer
    BY DEF Committed
  <1> QED BY <1>1, <1>2, <1>3 DEF InStep, Committed

\* The parser goes on with the packet.
LEMMA Continues ==
  ASSUME InStep, Committed, pc # "idle", Continue, Parsing'
  PROVE  InStep' /\ Committed'
  <1>1. UNCHANGED <<success, first, sending, end_timer, reboot_timer>>
    BY DEF Continue, chunkVars, bootVars, clientVars
  <1>2. end_timer # "ok" /\ ~ reboot_timer
    BY DEF Committed
  <1> QED BY <1>1, <1>2 DEF InStep, Committed

\* What follows a field in the packet.
GoesOn ==
  IF Behind(input) = <<>> THEN Return(TRUE)
  ELSE input' = Behind(input) /\ UNCHANGED pc /\ Continue

LEMMA GoesOnEffect ==
  ASSUME Fed, pc = "parse", GoesOn
  PROVE  /\ Fed' /\ Here' = Here + Taken(input) /\ Taken(input) \in 0 .. Len(input)
         /\ pc' \in {"idle", "parse"} /\ (pc' = "parse" => input' # <<>>)
         /\ UNCHANGED upload
  <1>1. input \in Seq(Token)
    BY DEF Fed
  <1>2. PICK m : m = Taken(input)
    OBVIOUS
  <1>3. /\ m \in 0 .. Len(input)
        /\ Behind(input) = SubSeq(input, m + 1, Len(input))
    BY <1>1, <1>2, BehindIs
  <1>4. /\ UNCHANGED <<body, sending, upload, last>>
        /\ input' = Behind(input)
        /\ pc' = "idle" \/ pc' = "parse"
        /\ pc' = "parse" => input' # <<>>
        /\ pc' = "idle" => input' = <<>>
    <2>1. CASE Behind(input) = <<>>
      BY <2>1 DEF GoesOn, Return, ChunkEnd, clientVars
    <2>2. CASE Behind(input) # <<>>
      BY <2>2 DEF GoesOn, Continue, clientVars, historyVars, chunkVars
    <2> QED BY <2>1, <2>2
  <1>5. Fed' /\ Here' = Here + m
    BY <1>3, <1>4, Consume
  <1> QED BY <1>2, <1>3, <1>4, <1>5

\* The request goes on behind a packet that was parsed to its end.
LEMMA Unfinished ==
  ASSUME Fed', input' = <<>>, Here' < Len(Text')
  PROVE  sending'
  <1>1. Text' \in Seq(Token) /\ body' \in Seq(Token)
    <2>1. PICK t, files, u, T, n : /\ t = Text' /\ files = Posted' /\ u = (upload')["id"]
                                   /\ T = Texts(u, files) /\ n = Len(files)
      OBVIOUS
    <2>2. files \in Upload /\ u \in 1 .. MaxUploads /\ t = T[n]
      BY <2>1 DEF Fed, Text, BodyOf
    <2>3. n \in Nat \ {0} /\ \A i \in 0 .. n : T[i] \in Seq(Token)
      BY ONLY TextGrows, <2>1, <2>2
    <2> QED BY <2>1, <2>2, <2>3 DEF Fed
  <1>2. Here' = Len(Text') - Len(body')
    <2>1. Len(Text') \in Int /\ Len(body') \in Int
      BY <1>1
    <2> QED BY <2>1 DEF Here
  <1>3. body' # <<>>
    <2>1. body' = <<>> => Len(body') = 0
      OBVIOUS
    <2>2. Len(Text') \in Nat
      BY <1>1
    <2> QED BY <1>2, <2>1, <2>2
  <1> QED BY <1>3 DEF Fed

LEMMA Proceeds ==
  ASSUME InStep, Committed, pc = "parse", GoesOn, Parsing', Here' < Len(Text')
  PROVE  InStep' /\ Committed'
  <1>1. CASE Behind(input) = <<>>
    <2>1. Return(TRUE)
      BY <1>1 DEF GoesOn
    <2>2. input' = <<>> /\ UNCHANGED <<body, sending>>
      BY <2>1 DEF Return, ChunkEnd, clientVars
    <2>3. sending
      BY <2>2, Unfinished DEF Parsing
    <2> QED BY <2>1, <2>3, Returns
  <1>2. CASE Behind(input) # <<>>
    BY <1>2, Continues DEF GoesOn
  <1> QED BY <1>1, <1>2

-----------------------------------------------------------------------------
(* The parser's steps *)

\* The j-th file in the text of the request.
FileAt(j) ==
  /\ EndOf(j - 1) \in Nat \ {0} /\ Len(Digits(j)) \in Nat \ {0}
  /\ Posted[j].size \in Nat \ {0} /\ Len(Text) \in Nat
  /\ EndOf(j) = EndOf(j - 1) + 3 + Len(Digits(j)) + Posted[j].size
  /\ EndOf(j) <= Len(Text)
  /\ j = 1 => EndOf(j - 1) = 1
  /\ j < Len(Posted) => EndOf(j) < Len(Text)
  /\ j = Len(Posted) => EndOf(j) = Len(Text)
  /\ DOMAIN Posted = 1 .. Len(Posted) /\ Len(Posted) \in Nat \ {0}
  /\ Posted[j].name # Delim
  /\ Text[EndOf(j - 1) + 1] = Posted[j].name
  /\ Text[EndOf(j - 1) + 2] = Delim
  /\ Text[EndOf(j - 1) + 3 + Len(Digits(j))] = Delim
  /\ \A k \in 1 .. Len(Digits(j)) : /\ Text[EndOf(j - 1) + 2 + k] = Digits(j)[k]
                                    /\ Digits(j)[k] # Delim
  /\ \A k \in 1 .. Posted[j].size : /\ Text[EndOf(j - 1) + 3 + Len(Digits(j)) + k] = Bytes(j)[k]
                                    /\ Bytes(j)[k] \in Byte \ {Json}

LEMMA FileBegins ==
  ASSUME Fed, NEW j \in DOMAIN Posted
  PROVE  FileAt(j)
  <1>1. PICK n, x, f, digits, bytes, e, w, s, end :
          /\ n = Len(Posted) /\ x = Text /\ f = Posted[j] /\ digits = Digits(j) /\ bytes = Bytes(j)
          /\ e = EndOf(j - 1) /\ w = Len(digits) /\ s = f.size /\ end = EndOf(j)
    OBVIOUS
  <1>2. Posted \in Upload /\ upload.id \in 1 .. MaxUploads
    BY DEF Fed
  <1>3. LaidOut(x, f, digits, bytes, e, w, s, end, j, n) /\ n \in Nat \ {0} /\ DOMAIN Posted = 1 .. n
    BY ONLY Layout, <1>1, <1>2, j \in DOMAIN Posted
  <1>4. Len(x) \in Nat
    BY <1>3 DEF LaidOut
  <1> QED BY ONLY <1>1, <1>3, <1>4 DEF LaidOut, FileAt

\* The field of a name begins where the name does, behind it, or behind a byte that
\* was none of the packet's.
LEMMA NameField ==
  ASSUME Fed, ParseName, input # <<>>, NEW f, f = Field(input)
  PROVE  /\ Splits(input, f) /\ GoesOn
         /\ name' = name \o f /\ state' = IF Len(f) < Len(input) THEN "SIZE" ELSE "NAME"
         /\ Taken(input) = IF Len(f) < Len(input) THEN Len(f) + 1 ELSE Len(input)
         /\ Len(input) \in Nat \ {0}
         /\ UNCHANGED <<size_str, global_pos, flash>>
  <1>1. PICK in : in = input
    OBVIOUS
  <1>2. input \in Seq(Token)
    BY DEF Fed
  <1>3. Splits(input, f)
    BY <1>2, FieldSplits
  <1>4. GoesOn /\ name' = name \o f /\ state' = IF Found(input) THEN "SIZE" ELSE "NAME"
    BY DEF ParseName, Read1, GoesOn
  <1>5. UNCHANGED <<size_str, global_pos, flash>>
    BY DEF ParseName, regionVars
  <1>6. Len(input) \in Nat \ {0}
    BY <1>2
  <1> QED BY <1>3, <1>4, <1>5, <1>6 DEF Found, Taken

LEMMA ParseNameAt ==
  ASSUME Fed, ParseName, NEW j \in DOMAIN Posted, InFile(j), input # <<>>
  PROVE  Parsing' /\ GoesOn /\ Here' < Len(Text')
  <1>1. PICK N, e, h, f, l : /\ N = Posted[j].name /\ e = EndOf(j - 1) /\ h = Here /\ f = Field(input)
                             /\ l = Len(input)
    OBVIOUS
  <1>2. InName(j) /\ pc = "parse"
    BY DEF InFile, InSize, InData, InClose, Ended, ParseName
  <1>3. /\ Splits(input, f) /\ GoesOn
        /\ name' = name \o f /\ state' = IF Len(f) < l THEN "SIZE" ELSE "NAME"
        /\ Taken(input) = IF Len(f) < l THEN Len(f) + 1 ELSE l
        /\ l \in Nat \ {0}
        /\ UNCHANGED <<size_str, global_pos, flash>>
    BY <1>1, NameField
  <1>4. /\ Fed' /\ Here' = h + Taken(input)
        /\ pc' \in {"idle", "parse"} /\ (pc' = "parse" => input' # <<>>)
        /\ UNCHANGED upload
    BY <1>1, <1>2, <1>3, GoesOnEffect
  <1>5. /\ e \in Nat \ {0} /\ N # Delim /\ Text[e + 1] = N /\ Text[e + 2] = Delim
        /\ Len(Text) \in Nat /\ e + 2 < Len(Text) /\ Posted' = Posted /\ Text' = Text
        /\ EndOf(j - 1)' = e
    <2>1. Posted' = Posted /\ Text' = Text /\ EndOf(j - 1)' = e
      BY <1>1, <1>4 DEF Posted, Text, EndOf
    <2>2. /\ EndOf(j - 1) \in Nat \ {0} /\ Posted[j].name # Delim
          /\ Text[EndOf(j - 1) + 1] = Posted[j].name /\ Text[EndOf(j - 1) + 2] = Delim
          /\ Len(Text) \in Nat /\ EndOf(j - 1) + 2 < Len(Text)
      <3>1. FileAt(j)
        BY FileBegins
      <3> QED BY ONLY <3>1 DEF FileAt
    <2> QED BY ONLY <1>1, <2>1, <2>2
  <1>6. \A i \in 1 .. j - 1 : FileDone(i)'
    BY <1>3, <1>4, <1>5 DEF InFile, FileDone, FileStored, Posted
  <1>13. PICK x, in : x = Text /\ in = input
    OBVIOUS
  <1>7. \A i \in 1 .. l : in[i] = x[h + i]
    BY <1>1, <1>13 DEF Fed
  <1>14. x[e + 1] = N /\ x[e + 2] = Delim
    BY <1>5, <1>13
  <1>8. f \in Seq(Token) /\ Len(f) \in 0 .. l
        /\ (\A i \in 1 .. Len(f) : f[i] = in[i] /\ in[i] # Delim)
        /\ (Len(f) < l => in[Len(f) + 1] = Delim)
    BY <1>1, <1>3, <1>13 DEF Splits
  <1>9. name' = <<N>> /\ ((state' = "SIZE" /\ Here' = e + 2) \/ (state' = "NAME" /\ Here' = e + 1))
    <2>1. CASE name = <<>> /\ h = e
      <3>1. in[1] = N /\ (l >= 2 => in[2] = Delim)
        BY ONLY <1>3, <1>5, <1>7, <1>14, <2>1
      <3>2. Len(f) = 1 /\ f[1] = N
        <4>1. Len(f) # 0
          BY ONLY <1>3, <1>5, <1>8, <3>1
        <4>2. ~ (Len(f) >= 2)
          BY ONLY <1>3, <1>8, <3>1
        <4>3. l \in Nat /\ Len(f) \in 0 .. l
          BY ONLY <1>3, <1>8
        <4>6. PICK k \in 0 .. l : k = Len(f)
          BY ONLY <4>3
        <4>4. Len(f) = 1
          <5>1. k \in Nat /\ k # 0 /\ ~ (k >= 2)
            BY ONLY <4>1, <4>2, <4>3, <4>6
          <5>2. k = 1
            BY ONLY <5>1
          <5> QED BY ONLY <4>6, <5>2
        <4>5. f[1] = in[1]
          BY ONLY <1>8, <4>4
        <4> QED BY ONLY <3>1, <4>4, <4>5
      <3>3. name \o f = <<N>>
        BY <1>8, <2>1, <3>2
      <3> QED BY <1>3, <1>4, <1>5, <2>1, <3>2, <3>3
    <2>2. CASE name = <<N>> /\ h = e + 1
      <3>1. in[1] = Delim
        BY ONLY <1>3, <1>5, <1>7, <1>14, <2>2
      <3>2. Len(f) = 0 /\ f = <<>>
        BY ONLY <1>3, <1>8, <3>1
      <3>3. name \o f = <<N>>
        BY <2>2, <3>2
      <3> QED BY <1>3, <1>4, <1>5, <2>2, <3>2, <3>3
    <2> QED BY <1>1, <1>2, <2>1, <2>2 DEF InName
  <1>10. InName(j)' \/ InSize(j)'
    <2>1. size_str' = <<>> /\ global_pos' = 0
      BY <1>2, <1>3 DEF InName
    <2>2. CASE state' = "SIZE" /\ Here' = e + 2
      <3>1. InSize(j)'
        BY <1>1, <1>4, <1>5, <1>9, <2>1, <2>2 DEF InSize
      <3> QED BY <3>1
    <2>3. CASE state' = "NAME" /\ Here' = e + 1
      <3>1. InName(j)'
        BY <1>1, <1>4, <1>5, <1>9, <2>1, <2>3 DEF InName
      <3> QED BY <3>1
    <2> QED BY <1>9, <2>2, <2>3
  <1>11. InFile(j)' /\ j \in DOMAIN Posted'
    BY <1>5, <1>6, <1>10 DEF InFile
  <1>12. Here' < Len(Text')
    BY <1>5, <1>9
  <1> QED BY <1>3, <1>4, <1>11, <1>12 DEF Parsing

LEMMA FirstFile ==
  ASSUME Fed
  PROVE  1 \in DOMAIN Posted /\ FileAt(1)
  <1>1. PICK files, u, T, n : files = Posted /\ u = upload.id /\ T = Texts(u, files) /\ n = Len(files)
    OBVIOUS
  <1>2. files \in Upload /\ u \in 1 .. MaxUploads
    BY <1>1 DEF Fed
  <1>3. n \in Nat \ {0} /\ DOMAIN files = 1 .. n
    BY ONLY TextGrows, <1>1, <1>2
  <1>4. 1 \in DOMAIN Posted
    BY <1>1, <1>3
  <1> QED BY <1>4, FileBegins

\* A packet of the JSON text alone: the parser reads a byte that is not the packet's.
LEMMA ParseNameEmpty ==
  ASSUME Fed, ParseName, NEW j \in DOMAIN Posted, InFile(j), input = <<>>
  PROVE  Parsing' /\ GoesOn /\ Here' < Len(Text')
  <1>1. InName(j) /\ pc = "parse" /\ Here = 1
    BY DEF InFile, InName, InSize, InData, InClose, Ended, ParseName
  <1>2. PICK in \in Read1 : /\ name' = name \o Field(in)
                            /\ state' = IF Found(in) THEN "SIZE" ELSE "NAME"
                            /\ IF Behind(in) = <<>>
                               THEN Return(TRUE)
                               ELSE input' = Behind(in) /\ UNCHANGED pc /\ Continue
    BY DEF ParseName
  <1>3. in \in Seq(Token) /\ Len(in) = 1
    <2>1. in \in {<<Junk>>, <<Delim>>}
      BY <1>2 DEF Read1
    <2>2. Junk \in Token /\ Delim \in Token
      BY DEF Token
    <2>3. ASSUME NEW b \in Token PROVE <<b>> \in Seq(Token) /\ Len(<<b>>) = 1
      OBVIOUS
    <2> QED BY ONLY <2>1, <2>2, <2>3
  <1>4. PICK f : f = Field(in)
    OBVIOUS
  <1>5. f \in Seq(Token) /\ Len(f) \in 0 .. 1
    <2>1. Splits(in, f)
      BY <1>3, <1>4, FieldSplits
    <2> QED BY ONLY <1>3, <2>1 DEF Splits
  <1>6. Behind(in) = <<>>
    <2>1. Taken(in) = 1
      BY <1>3, <1>4, <1>5 DEF Taken, Found
    <2> QED BY <1>3, <2>1, BehindIs
  <1>7. Return(TRUE)
    BY <1>2, <1>6
  <1>8. GoesOn
    <2>1. Behind(input) = <<>>
      <3>1. input \in Seq(Token) /\ Len(input) = 0
        BY DEF Fed
      <3>2. /\ Taken(input) \in 0 .. Len(input)
            /\ Behind(input) = <<>> <=> Taken(input) = Len(input)
        BY ONLY <3>1, BehindIs
      <3>3. Taken(input) = 0
        BY ONLY <3>1, <3>2
      <3> QED BY ONLY <3>1, <3>2, <3>3
    <2> QED BY <1>7, <2>1 DEF GoesOn
  <1>9. Fed' /\ Here' = 1 /\ pc' = "idle" /\ UNCHANGED upload
    <2>1. /\ Fed' /\ Here' = Here + Taken(input) /\ Taken(input) \in 0 .. Len(input)
          /\ UNCHANGED upload
      BY <1>1, <1>8, GoesOnEffect
    <2>2. Len(input) = 0
      OBVIOUS
    <2>3. pc' = "idle"
      BY <1>7 DEF Return, ChunkEnd
    <2> QED BY <1>1, <2>1, <2>2, <2>3
  <1>10. name = <<>>
    <2>1. EndOf(j - 1) \in Nat \ {0}
      BY FileBegins DEF FileAt
    <2> QED BY <1>1, <2>1 DEF InName
  <1>11. name' = f
    BY <1>2, <1>4, <1>5, <1>10
  <1>12. Lost'
    <2>1. CASE Len(f) = 1
      <3>1. state' = "NAME"
        BY <1>2, <1>3, <1>4, <2>1 DEF Found
      <3> QED BY <1>5, <1>9, <1>11, <2>1, <3>1 DEF Lost
    <2>2. CASE Len(f) = 0
      <3>1. state' = "SIZE"
        BY <1>2, <1>3, <1>4, <2>2 DEF Found
      <3> QED BY <1>9, <1>11, <2>2, <3>1 DEF Lost
    <2> QED BY <1>5, <2>1, <2>2
  <1>13. 1 < Len(Text)
    BY FirstFile DEF FileAt
  <1>14. Text' = Text
    BY <1>9 DEF Text, Posted
  <1> QED BY <1>8, <1>9, <1>12, <1>13, <1>14 DEF Parsing

\* The name such a packet began with stays none of a region.
LEMMA ParseNameLost ==
  ASSUME Fed, ParseName, Lost
  PROVE  Parsing' /\ GoesOn /\ Here' < Len(Text')
  <1>1. PICK h, f, l, in, x : h = Here /\ f = Field(input) /\ l = Len(input) /\ in = input /\ x = Text
    OBVIOUS
  <1>2. /\ pc = "parse" /\ input # <<>> /\ name \in Seq(Token)
        /\ (Len(name) = 1 /\ h = 1) \/ (Len(name) = 2 /\ h = 2)
    BY <1>1 DEF Lost, ParseName
  <1>3. /\ Splits(input, f) /\ GoesOn
        /\ name' = name \o f /\ state' = IF Len(f) < l THEN "SIZE" ELSE "NAME"
        /\ Taken(input) = IF Len(f) < l THEN Len(f) + 1 ELSE l
        /\ l \in Nat \ {0}
    BY <1>1, <1>2, NameField
  <1>4. /\ Fed' /\ Here' = h + Taken(input)
        /\ pc' \in {"idle", "parse"} /\ (pc' = "parse" => input' # <<>>)
        /\ UNCHANGED upload
    BY <1>1, <1>2, <1>3, GoesOnEffect
  <1>5. x[2] # Delim /\ x[3] = Delim /\ Len(x) \in Nat /\ 3 < Len(x)
    <2>1. FileAt(1)
      BY FirstFile
    <2>2. PICK e, z : e = EndOf(1 - 1) /\ z = EndOf(1)
      OBVIOUS
    <2>3. /\ e = 1 /\ Len(Text) \in Nat /\ z <= Len(Text)
          /\ z = e + 3 + Len(Digits(1)) + Posted[1].size
          /\ Len(Digits(1)) \in Nat \ {0} /\ Posted[1].size \in Nat \ {0}
          /\ Posted[1].name # Delim /\ Text[e + 1] = Posted[1].name /\ Text[e + 2] = Delim
      BY ONLY <2>1, <2>2 DEF FileAt
    <2>4. Text[2] = Posted[1].name /\ Text[3] = Delim
      BY ONLY <2>3
    <2>5. 3 < Len(Text)
      BY ONLY <2>3
    <2> QED BY ONLY <1>1, <2>3, <2>4, <2>5
  <1>6. \A i \in 1 .. l : in[i] = x[h + i]
    BY <1>1 DEF Fed
  <1>7. f \in Seq(Token) /\ Len(f) \in 0 .. l
        /\ (\A i \in 1 .. Len(f) : f[i] = in[i] /\ in[i] # Delim)
        /\ (Len(f) < l => in[Len(f) + 1] = Delim)
    BY <1>1, <1>3 DEF Splits
  <1>8. PICK k \in 0 .. l : k = Len(f)
    BY <1>7
  <1>9. name' \in Seq(Token) /\ Len(name') = Len(name) + k
    BY <1>2, <1>3, <1>7, <1>8
  <1>10. CASE Len(name) = 1 /\ h = 1
    <2>1. in[1] # Delim /\ (l >= 2 => in[2] = Delim)
      BY ONLY <1>3, <1>5, <1>6, <1>10
    <2>2. k # 0
      BY ONLY <1>3, <1>7, <1>8, <2>1
    <2>3. ~ (k >= 2)
      BY ONLY <1>3, <1>7, <1>8, <2>1
    <2>4. k = 1
      BY <1>8, <1>3, <2>2, <2>3
    <2>5. \/ state' = "SIZE" /\ Len(name') = 2 /\ Here' = 3
          \/ state' = "NAME" /\ Len(name') = 2 /\ Here' = 2
      BY <1>3, <1>4, <1>8, <1>9, <1>10, <2>4
    <2> QED BY <1>4, <1>9, <2>5, <1>5, <1>3, <1>1 DEF Lost, Parsing, Text, Posted
  <1>11. CASE Len(name) = 2 /\ h = 2
    <2>1. in[1] = Delim
      BY ONLY <1>3, <1>5, <1>6, <1>11
    <2>2. k = 0
      BY ONLY <1>3, <1>7, <1>8, <2>1
    <2>3. state' = "SIZE" /\ Len(name') = 2 /\ Here' = 3
      BY <1>3, <1>4, <1>8, <1>9, <1>11, <2>2
    <2> QED BY <1>4, <2>3, <1>5, <1>3, <1>1 DEF Lost, Parsing, Text, Posted
  <1> QED BY <1>2, <1>10, <1>11

LEMMA ParseNameSInv ==
  ASSUME UInv, SInv, ParseName
  PROVE  SInv'
  <1>1. pc = "parse" /\ state = "NAME" /\ UNCHANGED <<regionVars>> /\ Parsing
    BY DEF ParseName, SInv, InStep
  <1>2. Parsing' /\ GoesOn /\ Here' < Len(Text')
    <2>1. CASE \E j \in DOMAIN Posted : InFile(j)
      <3>1. PICK j \in DOMAIN Posted : InFile(j)
        BY <2>1
      <3>2. CASE input = <<>>
        BY <1>1, <3>1, <3>2, ParseNameEmpty DEF Parsing
      <3>3. CASE input # <<>>
        BY <1>1, <3>1, <3>3, ParseNameAt DEF Parsing
      <3> QED BY <3>2, <3>3
    <2>2. CASE Lost
      BY <1>1, <2>2, ParseNameLost DEF Parsing
    <2> QED BY <1>1, <2>1, <2>2 DEF Parsing
  <1>3. InStep' /\ Committed'
    BY <1>1, <1>2, Proceeds DEF SInv
  <1>4. RegionInv'
    <2>1. protected' \subseteq Name
      BY <1>1 DEF SInv, RegionInv, RegionTypeOK, regionVars
    <2> QED BY <1>1, <2>1, QuietRegion DEF SInv, regionVars
  <1>5. CallTidy' /\ upload' = upload
    <2>1. upload' = upload
      BY <1>2 DEF GoesOn, Return, Continue, historyVars
    <2> QED BY <1>1, <2>1 DEF SInv, CallTidy, regionVars
  <1> QED BY <1>3, <1>4, <1>5 DEF SInv

\* The digits d of a size are read up to their end or to the packet's.
DigitsRead(str, f, l, d, w, q) ==
  /\ Len(f) \in Nat /\ q + Len(f) <= w
  /\ str \in Seq(Token) /\ Len(str) = q + Len(f)
  /\ \A i \in 1 .. Len(str) : str[i] = d[i]
  /\ Len(f) < l => Len(str) = w
  /\ q = 0 => Len(f) > 0

LEMMA SizeDigits ==
  ASSUME NEW in \in Seq(Token), NEW f, Splits(in, f), NEW l \in Nat \ {0}, l = Len(in),
         NEW d, NEW w \in Nat \ {0}, NEW q \in 0 .. w,
         NEW str \in Seq(Token), Len(str) = q, \A i \in 1 .. q : str[i] = d[i],
         \A k \in 1 .. w : d[k] # Delim,
         \A k \in 1 .. l : q + k <= w => in[k] = d[q + k],
         \A k \in 1 .. l : q + k = w + 1 => in[k] = Delim
  PROVE  DigitsRead(str \o f, f, l, d, w, q)
  <1>1. /\ f \in Seq(Token) /\ Len(f) \in 0 .. l
        /\ \A i \in 1 .. Len(f) : f[i] = in[i] /\ in[i] # Delim
        /\ Len(f) < l => in[Len(f) + 1] = Delim
    BY DEF Splits
  <1>2. PICK k \in 0 .. l : k = Len(f)
    BY <1>1
  <1>3. k \in Nat /\ q \in Nat /\ k <= l /\ q <= w
    OBVIOUS
  <1>4. q + k <= w
    <2> SUFFICES ASSUME q + k > w PROVE FALSE
      BY <1>3
    <2>1. PICK i \in 1 .. k : i = w + 1 - q
      BY <1>3
    <2>2. i \in 1 .. l /\ q + i = w + 1
      BY <1>3, <2>1
    <2>3. in[i] = Delim
      BY <2>2
    <2> QED BY <1>1, <1>2, <2>1, <2>3
  <1>5. PICK c : c = str \o f
    OBVIOUS
  <1>6. /\ c \in Seq(Token) /\ Len(c) = q + k
        /\ \A i \in 1 .. q : c[i] = str[i]
        /\ \A i \in 1 .. k : c[q + i] = f[i]
    <2>1. /\ c \in Seq(Token) /\ Len(c) = Len(str) + Len(f)
          /\ \A i \in 1 .. Len(str) : c[i] = str[i]
          /\ \A i \in 1 .. Len(f) : c[Len(str) + i] = f[i]
      <3>1. f \in Seq(Token)
        BY <1>1
      <3> QED BY ONLY Joined, <1>5, <3>1, str \in Seq(Token)
    <2> QED BY ONLY <1>2, <2>1, Len(str) = q
  <1>7. ASSUME NEW i \in 1 .. q + k PROVE c[i] = d[i]
    <2>1. CASE i \in 1 .. q
      BY <1>6, <2>1
    <2>2. CASE i \notin 1 .. q
      <3>5. i \in Nat /\ i <= q + k /\ i > q
        BY ONLY <1>3, <2>2, i \in 1 .. q + k
      <3>6. i - q \in 1 .. k /\ i = q + (i - q)
        BY ONLY <1>3, <3>5
      <3>1. PICK m \in 1 .. k : i = q + m
        BY ONLY <3>6
      <3>2. m \in 1 .. l /\ q + m <= w
        BY <1>3, <1>4, <3>1
      <3>3. in[m] = d[q + m]
        BY <3>2
      <3>4. c[q + m] = f[m] /\ f[m] = in[m]
        BY <1>1, <1>2, <1>6
      <3> QED BY <3>1, <3>3, <3>4
    <2> QED BY <2>1, <2>2
  <1>8. k < l => q + k = w
    <2> SUFFICES ASSUME k < l, q + k # w PROVE FALSE
      OBVIOUS
    <2>5. w \in Nat
      OBVIOUS
    <2>6. q + k < w
      BY ONLY <1>3, <1>4, <2>5, q + k # w
    <2>1. PICK m \in 1 .. l : m = k + 1
      BY <1>3
    <2>2. q + m <= w /\ q + m \in 1 .. w
      BY <1>3, <2>1, <2>6
    <2>3. in[m] = d[q + m] /\ d[q + m] # Delim
      BY <2>2
    <2>4. in[k + 1] = Delim
      BY <1>1, <1>2
    <2> QED BY <2>1, <2>3, <2>4
  <1>9. ASSUME q = 0 PROVE k > 0
    <2> SUFFICES ASSUME k = 0 PROVE FALSE
      BY <1>3
    <2>1. k < l
      <3>1. 0 < l
        OBVIOUS
      <3> QED BY ONLY <3>1, k = 0
    <2>2. q + k = w
      BY ONLY <1>8, <2>1
    <2>3. w # 0
      OBVIOUS
    <2> QED BY ONLY <1>9, <2>2, <2>3, k = 0
  <1>10. DigitsRead(c, f, l, d, w, q)
    <2>1. Len(c) = q + k /\ c \in Seq(Token) /\ (\A i \in 1 .. Len(c) : c[i] = d[i])
      BY <1>6, <1>7
    <2> QED BY <1>2, <1>3, <1>4, <1>8, <1>9, <2>1 DEF DigitsRead
  <1> QED BY <1>5, <1>10

LEMMA SizeText ==
  ASSUME Fed, NEW j \in DOMAIN Posted, InSize(j), pc = "parse", SizeField,
         NEW f, f = Field(input), NEW l, l = Len(input), NEW d, d = Digits(j), NEW w, w = Len(d),
         NEW q, q = Len(size_str)
  PROVE  /\ DigitsRead(size_str', f, l, d, w, q)
         /\ Taken(input) = IF Len(f) < l THEN Len(f) + 1 ELSE l
         /\ l \in Nat \ {0} /\ w \in Nat \ {0} /\ q \in 0 .. w
         /\ Found(input) <=> Len(f) < l
         /\ Found(input) => size' = Posted[j].size
         /\ UNCHANGED <<name, global_pos>>
  <1>1. PICK in, x, h, e, str : in = input /\ x = Text /\ h = Here /\ e = EndOf(j - 1) /\ str = size_str
    OBVIOUS
  <1>2. in \in Seq(Token) /\ in # <<>> /\ l = Len(in) /\ \A k \in 1 .. l : in[k] = x[h + k]
    BY <1>1 DEF Fed, InSize
  <1>3. l \in Nat \ {0}
    BY <1>2
  <1>4. Splits(in, f)
    BY <1>1, <1>2, FieldSplits
  <1>5. /\ e \in Nat \ {0} /\ w \in Nat \ {0}
        /\ x[e + 3 + w] = Delim
        /\ \A k \in 1 .. w : x[e + 2 + k] = d[k] /\ d[k] # Delim
    <2>1. FileAt(j)
      BY FileBegins
    <2> QED BY ONLY <1>1, <2>1, d = Digits(j), w = Len(d) DEF FileAt
  <1>6. /\ str \in Seq(Token) /\ q = Len(str) /\ q <= w /\ h = e + 2 + q
        /\ \A i \in 1 .. q : str[i] = d[i]
    BY <1>1 DEF InSize
  <1>7. q \in 0 .. w
    BY <1>5, <1>6
  <1>8. ASSUME NEW k \in 1 .. l, q + k <= w PROVE in[k] = d[q + k]
    <2>2. l \in Nat /\ w \in Nat /\ q \in Nat /\ e \in Nat /\ h = e + 2 + q
      BY <1>3, <1>5, <1>6, <1>7
    <2>1. q + k \in 1 .. w /\ h + k = e + 2 + (q + k)
      BY ONLY <2>2, q + k <= w, k \in 1 .. l
    <2> QED BY ONLY <1>2, <1>5, <2>1, k \in 1 .. l
  <1>9. ASSUME NEW k \in 1 .. l, q + k = w + 1 PROVE in[k] = Delim
    <2>2. l \in Nat /\ w \in Nat /\ q \in Nat /\ e \in Nat /\ h = e + 2 + q
      BY <1>3, <1>5, <1>6, <1>7
    <2>1. h + k = e + 3 + w
      BY ONLY <2>2, q + k = w + 1, k \in 1 .. l
    <2> QED BY ONLY <1>2, <1>5, <2>1, k \in 1 .. l
  <1>10. DigitsRead(str \o f, f, l, d, w, q)
    <2>1. Len(str) = q /\ str \in Seq(Token) /\ \A i \in 1 .. q : str[i] = d[i]
      BY <1>6
    <2>2. \A k \in 1 .. w : d[k] # Delim
      BY <1>5
    <2> QED BY ONLY SizeDigits, <1>2, <1>3, <1>4, <1>5, <1>7, <1>8, <1>9, <2>1, <2>2
  <1>11. size_str' = str \o f /\ (Found(input) => size' = Number(size_str')) /\ UNCHANGED <<name, global_pos>>
    BY <1>1 DEF SizeField
  <1>12. Found(input) <=> Len(f) < l
    BY DEF Found
  <1>13. Taken(input) = IF Len(f) < l THEN Len(f) + 1 ELSE l
    BY <1>12 DEF Taken
  <1>14. ASSUME Found(input) PROVE size' = Posted[j].size
    <2>1. d \in Seq(DOMAIN Digit) /\ Number(d) = Posted[j].size
      BY NumeralAssumption DEF Fed, Digits
    <2>2. PICK c : c = size_str'
      OBVIOUS
    <2>3. c \in Seq(Token) /\ Len(c) = w /\ \A i \in 1 .. Len(c) : c[i] = d[i]
      BY <1>10, <1>11, <1>12, <1>14, <2>2 DEF DigitsRead
    <2>4. c = d
      BY ONLY <2>1, <2>3, w = Len(d)
    <2> QED BY <1>11, <1>14, <2>1, <2>2, <2>4
  <1> QED BY <1>3, <1>5, <1>7, <1>10, <1>11, <1>12, <1>13, <1>14

LEMMA ParseSizeAt ==
  ASSUME RegionInv, UInv, CallTidy, Fed, ParseSize, NEW j \in DOMAIN Posted, InFile(j)
  PROVE  Parsing' /\ GoesOn /\ Here' < Len(Text')
  <1>1. InSize(j) /\ pc = "parse" /\ SizeField /\ Open(Named(name)) /\ GoesOn
        /\ state' = IF Found(input) THEN "DATA" ELSE "SIZE"
    BY DEF InFile, InName, InData, InClose, Ended, ParseSize, SizeField, GoesOn
  <1>2. PICK N, e, h, f, l, d, w, q :
          /\ N = Posted[j].name /\ e = EndOf(j - 1) /\ h = Here /\ f = Field(input) /\ l = Len(input)
          /\ d = Digits(j) /\ w = Len(d) /\ q = Len(size_str)
    OBVIOUS
  <1>3. /\ DigitsRead(size_str', f, l, d, w, q)
        /\ Taken(input) = IF Len(f) < l THEN Len(f) + 1 ELSE l
        /\ l \in Nat \ {0} /\ w \in Nat \ {0} /\ q \in 0 .. w
        /\ Found(input) <=> Len(f) < l
        /\ Found(input) => size' = Posted[j].size
        /\ UNCHANGED <<name, global_pos>>
    BY ONLY SizeText, <1>1, <1>2, Fed, j \in DOMAIN Posted
  <1>4. /\ Fed' /\ Here' = h + Taken(input)
        /\ pc' \in {"idle", "parse"} /\ (pc' = "parse" => input' # <<>>)
        /\ UNCHANGED upload
    BY <1>1, <1>2, GoesOnEffect
  <1>5. /\ open_region' = N /\ N # NULL /\ UNCHANGED flash /\ open_region = NULL
    <2>1. Named(name) = N
      BY <1>1, <1>2 DEF InSize, Named
    <2>2. N \in Name
      BY <1>1, <2>1 DEF Open, CanOpen, RegionInv, RegionTypeOK
    <2> QED BY <1>1, <2>1, <2>2 DEF Open, CanOpen
  <1>9. /\ e \in Nat \ {0} /\ Posted[j].size \in Nat \ {0} /\ Len(Text) \in Nat
        /\ e + 3 + w + Posted[j].size <= Len(Text)
    <2>1. FileAt(j)
      BY FileBegins
    <2> QED BY ONLY <1>2, <2>1 DEF FileAt
  <1>6. q = 0 /\ h = e + 2 /\ global_pos = 0 /\ name = <<N>>
    <2>1. size_str = <<>> /\ h = e + 2 + q /\ global_pos = 0 /\ name = <<N>>
      BY <1>1, <1>2, <1>5 DEF InSize
    <2>2. q = 0
      BY <1>2, <2>1
    <2> QED BY ONLY <1>9, <2>1, <2>2
  <1>7. PICK k : k = Len(f)
    OBVIOUS
  <1>8. k \in Nat /\ k <= w /\ k > 0 /\ Len(size_str') = k /\ size_str' \in Seq(Token)
        /\ (\A i \in 1 .. Len(size_str') : size_str'[i] = d[i]) /\ (k < l => k = w)
    BY <1>3, <1>6, <1>7 DEF DigitsRead
  <1>10. /\ Posted' = Posted /\ Text' = Text /\ EndOf(j - 1)' = e /\ Digits(j)' = d
         /\ \A i \in 1 .. j - 1 : FileDone(i)'
    BY <1>2, <1>4, <1>5 DEF InFile, FileDone, FileStored, Posted, Text, EndOf, Digits
  <1>11. CASE k < l
    <2>1. /\ state' = "DATA" /\ Here' = e + 3 + w /\ size' = Posted[j].size
          /\ global_pos' = 0 /\ name' = <<N>>
      <3>1. Found(input) /\ Here' = h + (k + 1) /\ k = w
        BY ONLY <1>3, <1>4, <1>7, <1>8, <1>11
      <3>2. h + (k + 1) = e + 3 + w
        BY ONLY <1>3, <1>6, <1>9, <3>1
      <3> QED BY <1>1, <1>3, <1>6, <3>1, <3>2
    <2>2. Delivering(Bytes(j), 0)'
      <3>1. PICK F : F = Bytes(j)
        OBVIOUS
      <3>2. call.op = "none" /\ call.data = <<>>
        BY <1>1 DEF UInv, CallInRegion, CallTidy
      <3>3. Delivering(F, 0)'
        BY <1>1, <3>2, OpenDelivers
      <3>4. Bytes(j)' = F
        BY <1>4, <3>1 DEF Bytes, Posted
      <3> QED BY <3>3, <3>4 DEF Delivering, Passed, Kept
    <2>3. InData(j)'
      BY <1>2, <1>4, <1>5, <1>9, <1>10, <2>1, <2>2 DEF InData
    <2>4. Here' < Len(Text')
      BY <1>3, <1>9, <1>10, <2>1
    <2> QED BY <1>1, <1>4, <1>10, <2>3, <2>4 DEF Parsing, InFile
  <1>12. CASE ~ (k < l)
    <2>1. k = l
      <3>1. k <= l
        <4>1. Splits(input, f)
          BY <1>2, FieldSplits DEF Fed
        <4> QED BY <1>2, <1>3, <1>7, <4>1 DEF Splits
      <3> QED BY <1>3, <1>8, <1>12, <3>1
    <2>2. state' = "SIZE" /\ Here' = e + 2 + k /\ global_pos' = 0 /\ name' = <<N>>
      BY <1>1, <1>3, <1>4, <1>6, <1>7, <1>12, <2>1
    <2>3. InSize(j)'
      BY <1>2, <1>4, <1>5, <1>8, <1>10, <2>2 DEF InSize
    <2>4. Here' < Len(Text')
      <3>1. e + 2 + k < Len(Text)
        BY ONLY <1>3, <1>8, <1>9
      <3> QED BY ONLY <1>10, <2>2, <3>1
    <2> QED BY <1>1, <1>4, <1>10, <2>3, <2>4 DEF Parsing, InFile
  <1> QED BY <1>11, <1>12

LEMMA ParseSizeSInv ==
  ASSUME UInv, SInv, ParseSize
  PROVE  SInv'
  <1>1. /\ pc = "parse" /\ state = "SIZE" /\ Open(Named(name)) /\ call.op = "none" /\ Parsing
        /\ UNCHANGED call
    BY DEF ParseSize, SizeField, Open, SInv, InStep, UInv, CallInRegion
  <1>2. Parsing' /\ GoesOn /\ Here' < Len(Text')
    <2>1. CASE \E j \in DOMAIN Posted : InFile(j)
      <3>1. PICK j \in DOMAIN Posted : InFile(j)
        BY <2>1
      <3> QED BY <1>1, <3>1, ParseSizeAt DEF SInv, Parsing
    <2>2. CASE Lost
      <3>1. Named(name) = NULL
        BY <1>1, <2>2 DEF Lost, Named
      <3>2. Named(name) \in Name
        BY <1>1 DEF Open, CanOpen, SInv, RegionInv, RegionTypeOK
      <3> QED BY <3>1, <3>2
    <2> QED BY <1>1, <2>1, <2>2 DEF Parsing
  <1>3. InStep' /\ Committed'
    BY <1>1, <1>2, Proceeds DEF SInv
  <1>4. RegionInv'
    BY <1>1, OpenRegion DEF SInv
  <1>5. CallTidy' /\ upload' = upload
    <2>1. upload' = upload
      BY <1>2 DEF GoesOn, Return, Continue, historyVars
    <2> QED BY <1>1, <2>1 DEF SInv, CallTidy
  <1> QED BY <1>3, <1>4, <1>5 DEF SInv

\* What is refused ends the request.
LEMMA RefusedSInv ==
  ASSUME UInv, SInv, MetaTooLong \/ SizeRefused \/ InvalidState
  PROVE  SInv'
  <1>1. pc = "parse" /\ Return(FALSE) /\ call.op = "none" /\ UNCHANGED <<upload, call>>
    BY DEF MetaTooLong, SizeRefused, SizeField, OpenRefused, InvalidState, Return, regionVars, UInv, CallInRegion
  <1>2. InStep' /\ Committed'
    BY <1>1, Fails DEF SInv
  <1>3. RegionInv'
    <2>1. CASE SizeRefused
      BY <1>1, <2>1, OpenRefusedRegion DEF SInv, SizeRefused
    <2>2. CASE MetaTooLong \/ InvalidState
      <3>1. UNCHANGED regionVars
        BY <2>2 DEF MetaTooLong, InvalidState
      <3>2. protected' \subseteq Name
        BY <3>1 DEF SInv, RegionInv, RegionTypeOK, regionVars
      <3> QED BY <3>1, <3>2, QuietRegion DEF SInv, regionVars
    <2> QED BY <2>1, <2>2
  <1> QED BY <1>1, <1>2, <1>3 DEF SInv, CallTidy

-----------------------------------------------------------------------------
(* The bytes of a file *)

\* The next m bytes of the packet are the file's, from its g-th on.
DataPart(m, g, l, s, h, end, x, in, b) ==
  /\ g \in 0 .. s - 1 /\ l \in Nat \ {0} /\ s \in Nat \ {0} /\ m \in 1 .. l /\ g + m <= s
  /\ m < l => g + m = s
  /\ \A i \in 1 .. m : in[i] = b[g + i] /\ in[i] \in Byte \ {Json}
  /\ h \in Nat
  /\ g + m = s => h + m = end
  /\ g + m < s => h + m < Len(x)

LEMMA DataBytes ==
  ASSUME Fed, NEW j \in DOMAIN Posted, InData(j), input # <<>>,
         NEW m, m = WriteLen, NEW g, g = global_pos, NEW l, l = Len(input), NEW s, s = Posted[j].size,
         NEW h, h = Here, NEW end, end = EndOf(j), NEW x, x = Text, NEW in, in = input,
         NEW b, b = Bytes(j)
  PROVE  DataPart(m, g, l, s, h, end, x, in, b)
  <1>1. PICK e, w : e = EndOf(j - 1) /\ w = Len(Digits(j))
    OBVIOUS
  <1>2. /\ e \in Nat \ {0} /\ w \in Nat \ {0} /\ s \in Nat \ {0} /\ Len(x) \in Nat
        /\ end = e + 3 + w + s /\ end <= Len(x)
        /\ \A k \in 1 .. s : x[e + 3 + w + k] = b[k] /\ b[k] \in Byte \ {Json}
    <2>1. FileAt(j)
      BY FileBegins
    <2> QED BY ONLY <1>1, <2>1, s = Posted[j].size, end = EndOf(j), x = Text, b = Bytes(j) DEF FileAt
  <1>3. g \in 0 .. s - 1 /\ h = e + 3 + w + g /\ size = s
    BY <1>1 DEF InData
  <1>4. l \in Nat \ {0} /\ \A i \in 1 .. l : in[i] = x[h + i]
    <2>1. input \in Seq(Token)
      BY DEF Fed
    <2> QED BY <2>1 DEF Fed
  <1>5. m = IF g + l >= s THEN s - g ELSE l
    BY <1>3 DEF WriteLen
  <1>6. g \in Nat /\ m \in Nat /\ m >= 1 /\ m <= l /\ g + m <= s /\ (m < l => g + m = s)
    BY ONLY <1>2, <1>3, <1>4, <1>5
  <1>7. ASSUME NEW i \in 1 .. m PROVE in[i] = b[g + i] /\ in[i] \in Byte \ {Json}
    <2>1. i \in 1 .. l /\ g + i \in 1 .. s /\ h + i = e + 3 + w + (g + i)
      BY ONLY <1>2, <1>3, <1>4, <1>6, i \in 1 .. m
    <2>2. in[i] = x[e + 3 + w + (g + i)]
      BY ONLY <1>4, <2>1
    <2> QED BY ONLY <1>2, <2>1, <2>2
  <1>8. h \in Nat /\ (g + m = s => h + m = end) /\ (g + m < s => h + m < Len(x))
    BY ONLY <1>2, <1>3, <1>6
  <1>9. m \in 1 .. l
    BY ONLY <1>4, <1>6
  <1> QED BY ONLY <1>2, <1>3, <1>4, <1>6, <1>7, <1>8, <1>9 DEF DataPart

\* A step in the middle of a packet.
LEMMA Stays ==
  ASSUME Fed, pc # "idle", pc' # "idle", UNCHANGED <<input, body, sending, upload, last>>
  PROVE  Fed' /\ Here' = Here
  BY DEF Fed, Here, Text, Posted

\* The files before the j-th stay on the chip.
LEMMA FilesStay ==
  ASSUME UNCHANGED <<flash, upload>>, NEW j, \A i \in 1 .. j - 1 : FileDone(i)
  PROVE  \A i \in 1 .. j - 1 : FileDone(i)'
  BY DEF FileDone, FileStored, Posted

LEMMA StartWriteSInv ==
  ASSUME UInv, SInv, StartWrite
  PROVE  SInv'
  <1>1. /\ pc = "parse" /\ state = "DATA" /\ pc' = "write" /\ WriteBegin(SubSeq(input, 1, WriteLen))
        /\ UNCHANGED streamVars /\ UNCHANGED input /\ Continue /\ Parsing
        /\ UNCHANGED <<upload, body, sending, last>>
    BY DEF StartWrite, SInv, InStep, Continue, historyVars, clientVars, chunkVars
  <1>2. PICK j \in DOMAIN Posted : InFile(j)
    BY <1>1 DEF Parsing, Lost
  <1>3. InData(j) /\ input # <<>>
    BY <1>1, <1>2 DEF InFile, InName, InSize, InData, InClose, Ended
  <1>4. PICK m, g, l, s, h, end, x, in, b :
          /\ m = WriteLen /\ g = global_pos /\ l = Len(input) /\ s = Posted[j].size /\ h = Here
          /\ end = EndOf(j) /\ x = Text /\ in = input /\ b = Bytes(j)
    OBVIOUS
  <1>5. DataPart(m, g, l, s, h, end, x, in, b)
    <2>1. Fed
      BY <1>1 DEF Parsing
    <2> QED BY ONLY DataBytes, <1>3, <1>4, <2>1, j \in DOMAIN Posted
  <1>6. PICK data : data = SubSeq(in, 1, m)
    OBVIOUS
  <1>7. /\ data \in Seq(Byte) /\ Len(data) = m /\ \A i \in 1 .. Len(data) : b[g + i] = data[i]
    <2>1. in \in Seq(Token) /\ m \in 1 .. Len(in) /\ \A i \in 1 .. m : in[i] = b[g + i] /\ in[i] \in Byte
      BY <1>1, <1>4, <1>5 DEF Parsing, Fed, DataPart
    <2>2. Len(data) = m /\ \A i \in 1 .. m : data[i] = in[i]
      BY ONLY <1>6, <2>1
    <2>3. data \in Seq(Byte)
      <3>1. data \in Seq(Token)
        BY ONLY <1>6, <2>1
      <3>2. data \in [1 .. m -> Byte] /\ m \in Nat
        BY ONLY <2>1, <2>2, <3>1
      <3> QED BY ONLY <3>2
    <2> QED BY ONLY <2>1, <2>2, <2>3
  <1>8. Delivering(b, g + m)'
    <2>1. Delivering(b, g) /\ call.data = <<>> /\ WriteBegin(data) /\ RegionInv
      BY <1>1, <1>3, <1>4, <1>6 DEF InData, SInv, CallTidy, WriteBegin
    <2>2. \A i \in 1 .. g : b[i] = b[i]
      OBVIOUS
    <2>3. Delivering(b, g + Len(data))'
      BY ONLY WriteDelivers, <1>7, <2>1, <2>2
    <2> QED BY <1>7, <2>3
  <1>9. Fed' /\ Here' = Here
    BY <1>1, Stays DEF Parsing
  <1>10. InData(j)'
    <2>1. /\ Posted' = Posted /\ Bytes(j)' = b /\ WriteLen' = m /\ EndOf(j - 1)' = EndOf(j - 1)
          /\ Digits(j)' = Digits(j)
      BY <1>1, <1>4 DEF Posted, Bytes, WriteLen, EndOf, Digits, streamVars
    <2>2. /\ state' = "DATA" /\ UNCHANGED <<name, size, open_region, global_pos>> /\ mode' = "WRITE"
      BY <1>1 DEF streamVars, WriteBegin
    <2>3. Delivering(Bytes(j), global_pos + WriteLen)'
      BY <1>4, <1>8, <2>1, <2>2 DEF Delivering, Passed, Kept
    <2> QED BY <1>1, <1>3, <1>9, <2>1, <2>2, <2>3 DEF InData
  <1>11. InFile(j)' /\ j \in DOMAIN Posted'
    <2>1. \A i \in 1 .. j - 1 : FileDone(i)'
      BY <1>1, <1>2, FilesStay DEF InFile, WriteBegin
    <2> QED BY <1>1, <1>10, <2>1 DEF InFile, Posted
  <1>12. InStep' /\ Committed'
    <2>1. Parsing'
      BY <1>9, <1>11 DEF Parsing
    <2> QED BY <1>1, <2>1, Continues DEF SInv
  <1>13. RegionInv'
    BY <1>1, <1>4, <1>6, <1>7, WriteRegion DEF SInv
  <1> QED BY <1>1, <1>12, <1>13 DEF SInv, CallTidy, WriteBegin

\* What every part of a file's data that was written leaves: the next part, or the end.
LEMMA WrittenAt ==
  ASSUME UInv, SInv, EndWrite, call.result
  PROVE  /\ InStep' /\ Committed' /\ RegionInv' /\ CallTidy' /\ UNCHANGED upload
  <1>1. /\ pc = "write" /\ call.op = "none" /\ Parsing /\ Fed
        /\ UNCHANGED <<name, size_str, size, state>> /\ global_pos' = global_pos + WriteLen
    BY DEF EndWrite, SInv, InStep, Parsing
  <1>2. PICK j \in DOMAIN Posted : InFile(j)
    BY <1>1 DEF Parsing, Lost
  <1>3. InData(j) /\ input # <<>> /\ mode = "WRITE"
    BY <1>1, <1>2 DEF InFile, InName, InSize, InData, InClose, Ended
  <1>4. PICK m, g, l, s, h, end, x, in, b :
          /\ m = WriteLen /\ g = global_pos /\ l = Len(input) /\ s = Posted[j].size /\ h = Here
          /\ end = EndOf(j) /\ x = Text /\ in = input /\ b = Bytes(j)
    OBVIOUS
  <1>5. DataPart(m, g, l, s, h, end, x, in, b)
    BY ONLY DataBytes, <1>1, <1>3, <1>4, j \in DOMAIN Posted
  <1>6. /\ g \in 0 .. s - 1 /\ l \in Nat \ {0} /\ s \in Nat \ {0} /\ m \in 1 .. l /\ g + m <= s
        /\ m < l => g + m = s
        /\ g + m = s => h + m = end
        /\ g + m < s => h + m < Len(x)
        /\ h \in Nat
    BY ONLY <1>5 DEF DataPart
  <1>7. /\ open_region # NULL /\ Delivering(b, g + m) /\ size = s /\ open_region = Posted[j].name
        /\ name = <<Posted[j].name>> /\ h = EndOf(j - 1) + 3 + Len(Digits(j)) + g
        /\ call.data = <<>> /\ RegionInv /\ state = "DATA"
    BY <1>1, <1>3, <1>4 DEF InData, UInv, CallInRegion, SInv, CallTidy
  <1>8. CASE g + m >= s
    <2>1. /\ CloseBegin /\ pc' = "close" /\ Continue /\ input' = SubSeq(input, m + 1, Len(input))
      BY <1>1, <1>4, <1>7, <1>8 DEF EndWrite, AtEnd
    <2>2. g + m = s
      BY ONLY <1>6, <1>8
    <2>3. UNCHANGED <<body, sending, upload, last, flash>>
      BY <2>1 DEF Continue, clientVars, historyVars, chunkVars, CloseBegin
    <2>4. Fed' /\ Here' = h + m
      <3>1. m \in 0 .. Len(input)
        BY <1>4, <1>6
      <3> QED BY <1>1, <1>4, <2>1, <2>3, <3>1, Consume
    <2>5. Delivering(b, s)'
      BY <1>3, <1>7, <2>1, <2>2, CloseBeginDelivers
    <2>6. InClose(j)'
      <3>1. Posted' = Posted /\ Bytes(j)' = b /\ EndOf(j)' = end
        BY <1>4, <2>3 DEF Posted, Bytes, EndOf
      <3>2. call' = [op |-> "close", data |-> <<>>, result |-> TRUE] /\ open_region' = open_region
        BY <1>3, <2>1 DEF CloseBegin
      <3>3. Delivering(Bytes(j), size)'
        BY <1>1, <1>7, <2>5, <3>1 DEF Delivering, Passed, Kept
      <3> QED BY <1>1, <1>4, <1>6, <1>7, <2>1, <2>2, <2>4, <3>1, <3>2, <3>3 DEF InClose
    <2>7. Parsing'
      <3>1. \A i \in 1 .. j - 1 : FileDone(i)'
        BY <1>2, <2>3, FilesStay DEF InFile
      <3>2. j \in DOMAIN Posted'
        BY <2>3 DEF Posted
      <3> QED BY <2>4, <2>6, <3>1, <3>2 DEF Parsing, InFile
    <2>8. RegionInv'
      BY <1>7, <2>1, CloseRegion
    <2>9. CallTidy'
      BY <2>1 DEF CloseBegin, CallTidy, Idle
    <2> QED BY <1>1, <2>1, <2>3, <2>7, <2>8, <2>9, Continues DEF SInv
  <1>9. CASE ~ (g + m >= s)
    <2>1. UNCHANGED regionVars /\ Return(TRUE)
      BY <1>1, <1>4, <1>7, <1>9 DEF EndWrite, AtEnd
    <2>2. m = l /\ g + m < s /\ g + m \in 0 .. s - 1 /\ h + m < Len(x)
      BY ONLY <1>6, <1>9
    <2>3. UNCHANGED <<body, sending, upload, last>> /\ pc' = "idle" /\ input' = <<>>
      BY <2>1 DEF Return, ChunkEnd, clientVars
    <2>4. Fed' /\ Here' = h + m
      <3>1. m \in 0 .. Len(input) /\ input \in Seq(Token)
        BY <1>1, <1>4, <1>6 DEF Fed
      <3>2. SubSeq(input, m + 1, Len(input)) = <<>>
        BY <1>4, <2>2, <3>1
      <3> QED BY <1>1, <1>4, <2>3, <3>1, <3>2, Consume
    <2>5. Delivering(b, g + m)'
      <3>1. /\ open_region' = open_region /\ registry'[open_region] = registry[open_region]
            /\ UNCHANGED <<sector, buffer, flash>> /\ call'.data = call.data
        BY <2>1 DEF regionVars
      <3>2. \A i \in 1 .. g + m : b[i] = b[i]
        OBVIOUS
      <3> QED BY ONLY QuietDelivers, <1>7, <3>1, <3>2
    <2>6. InData(j)'
      <3>1. Posted' = Posted /\ Bytes(j)' = b /\ EndOf(j - 1)' = EndOf(j - 1) /\ Digits(j)' = Digits(j)
        BY <1>4, <2>3 DEF Posted, Bytes, EndOf, Digits
      <3>2. Delivering(Bytes(j), global_pos)'
        BY <1>1, <1>4, <2>5, <3>1 DEF Delivering, Passed, Kept
      <3>3. h + m = EndOf(j - 1) + 3 + Len(Digits(j)) + (g + m)
        <4>1. EndOf(j - 1) \in Nat /\ Len(Digits(j)) \in Nat
          BY <1>1, FileBegins DEF FileAt
        <4> QED BY ONLY <1>6, <1>7, <4>1
      <3>4. open_region' = open_region
        BY <2>1 DEF regionVars
      <3> QED BY <1>1, <1>4, <1>7, <2>2, <2>3, <2>4, <3>1, <3>2, <3>3, <3>4 DEF InData
    <2>7. Parsing'
      <3>1. \A i \in 1 .. j - 1 : FileDone(i)'
        BY <1>2, <2>1, <2>3, FilesStay DEF InFile, regionVars
      <3>2. j \in DOMAIN Posted'
        BY <2>3 DEF Posted
      <3> QED BY <2>4, <2>6, <3>1, <3>2 DEF Parsing, InFile
    <2>8. sending
      <3>1. Here' < Len(Text')
        BY <1>4, <2>2, <2>3, <2>4 DEF Text, Posted
      <3> QED BY <2>3, <2>4, <3>1, Unfinished
    <2>9. RegionInv' /\ CallTidy'
      <3>1. protected' \subseteq Name
        BY <1>7, <2>1 DEF RegionInv, RegionTypeOK, regionVars
      <3> QED BY <1>7, <2>1, <3>1, QuietRegion DEF SInv, CallTidy, regionVars
    <2> QED BY <1>1, <2>1, <2>3, <2>7, <2>8, <2>9, Returns DEF SInv
  <1> QED BY <1>8, <1>9

LEMMA EndWriteSInv ==
  ASSUME UInv, SInv, EndWrite
  PROVE  SInv'
  <1>1. CASE call.result
    BY <1>1, WrittenAt DEF SInv
  <1>2. CASE ~ call.result
    <2>1. pc = "write" /\ UNCHANGED regionVars /\ Return(FALSE)
      BY <1>2 DEF EndWrite
    <2>2. UNCHANGED upload
      BY <2>1 DEF Return
    <2>3. protected' \subseteq Name
      BY <2>1 DEF SInv, RegionInv, RegionTypeOK, regionVars
    <2>4. RegionInv' /\ CallTidy'
      BY <2>1, <2>3, QuietRegion DEF SInv, CallTidy, regionVars
    <2> QED BY <2>1, <2>2, <2>4, Fails DEF SInv
  <1> QED BY <1>1, <1>2

-----------------------------------------------------------------------------
(* The end of a file *)

LEMMA EndCloseSInv ==
  ASSUME UInv, SInv, EndClose
  PROVE  SInv'
  <1>1. /\ pc = "close" /\ call.op = "none" /\ Parsing /\ Fed /\ UNCHANGED regionVars
    BY DEF EndClose, SInv, InStep, Parsing
  <1>2. PICK j \in DOMAIN Posted : InFile(j)
    BY <1>1 DEF Parsing, Lost
  <1>3. InClose(j)
    BY <1>1, <1>2 DEF InFile, InName, InSize, InData, Ended
  <1>4. PICK n, x, end : n = Len(Posted) /\ x = Text /\ end = EndOf(j)
    OBVIOUS
  <1>5. /\ j \in 1 .. n /\ n \in Nat \ {0} /\ DOMAIN Posted = 1 .. n /\ Len(x) \in Nat
        /\ j < n => end < Len(x)
        /\ j = n => end = Len(x)
    <2>1. FileAt(j)
      BY <1>1, FileBegins
    <2> QED BY ONLY <1>4, <2>1, j \in DOMAIN Posted DEF FileAt
  <1>6. Here = end /\ open_region = NULL /\ (call.result => FileDone(j)) /\ state = "DATA"
    BY <1>1, <1>3, <1>4 DEF InClose
  <1>7. RegionInv' /\ CallTidy'
    <2>1. protected' \subseteq Name
      BY <1>1 DEF SInv, RegionInv, RegionTypeOK, regionVars
    <2> QED BY <1>1, <2>1, QuietRegion DEF SInv, CallTidy, regionVars
  <1>8. CASE ~ call.result
    <2>1. Return(FALSE)
      BY <1>8 DEF EndClose
    <2> QED BY <1>1, <1>7, <2>1, Fails DEF SInv, Return
  <1>9. CASE call.result /\ input = <<>>
    <2>1. state' = "DONE" /\ Return(TRUE)
      BY <1>9 DEF EndClose
    <2>2. UNCHANGED <<body, sending, upload, last, reboot_timer>> /\ pc' = "idle" /\ input' = <<>>
      BY <2>1 DEF Return, ChunkEnd, clientVars
    <2>3. \A i \in 1 .. j : FileDone(i)
      <3>1. ASSUME NEW i \in 1 .. j PROVE FileDone(i)
        <4>1. i = j \/ i \in 1 .. j - 1
          BY <1>5
        <4> QED BY <1>2, <1>6, <1>9, <4>1 DEF InFile
      <3> QED BY <3>1
    <2>4. \A i \in 1 .. j : FileDone(i)'
      BY <1>1, <2>2, <2>3 DEF FileDone, FileStored, Posted, regionVars
    <2>5. open_region' = NULL /\ upload' = upload
      BY <1>1, <1>6, <2>2 DEF regionVars
    <2>6. CASE sending
      <3>1. Fed' /\ Here' = Here
        <4>1. 0 \in 0 .. Len(input) /\ SubSeq(input, 0 + 1, Len(input)) = <<>> /\ Here + 0 = Here
          <5>1. Here \in Nat
            BY <1>1 DEF Fed
          <5>2. input = <<>> /\ Len(input) = 0
            BY <1>9
          <5>3. SubSeq(input, 1, 0) = <<>>
            BY <5>2
          <5> QED BY <5>1, <5>2, <5>3
        <4>2. Fed' /\ Here' = Here + 0
          BY <1>1, <2>2, <4>1, Consume
        <4> QED BY <4>1, <4>2
      <3>2. EndOf(j)' = end
        BY <1>4, <2>2 DEF EndOf, Posted
      <3>3. Ended(j)'
        <4>1. FileDone(j)'
          BY <1>5, <2>4
        <4> QED BY <1>6, <2>1, <2>2, <2>5, <3>1, <3>2, <4>1 DEF Ended
      <3>4. Parsing'
        <4>1. \A i \in 1 .. j - 1 : FileDone(i)'
          BY <1>5, <2>4
        <4>2. j \in DOMAIN Posted'
          BY <2>2 DEF Posted
        <4> QED BY <3>1, <3>3, <4>1, <4>2 DEF Parsing, InFile
      <3> QED BY <1>1, <1>7, <2>1, <2>5, <2>6, <3>4, Returns DEF SInv
    <2>7. CASE ~ sending
      <3>1. j = n
        <4>1. body = <<>> /\ Len(body) = 0 /\ Len(input) = 0
          BY <1>1, <1>9, <2>7 DEF Fed
        <4>2. Here = Len(x)
          BY <1>4, <1>5, <4>1 DEF Here
        <4> QED BY <1>5, <1>6, <4>2
      <3>2. \A i \in DOMAIN Posted' : FileDone(i)'
        BY <1>5, <2>2, <2>4, <3>1 DEF Posted
      <3>3. Committed'
        BY <2>1, <2>2, <2>5, <2>7, <3>2 DEF Committed
      <3>4. InStep'
        BY <2>2, <2>7 DEF InStep
      <3> QED BY <1>7, <2>5, <3>3, <3>4 DEF SInv
    <2> QED BY <2>6, <2>7
  <1>10. CASE call.result /\ input # <<>>
    <2>1. NewStream /\ pc' = "parse" /\ UNCHANGED input /\ Continue
      BY <1>10 DEF EndClose
    <2>2. UNCHANGED <<body, sending, upload, last>>
      BY <2>1 DEF Continue, clientVars, historyVars, chunkVars
    <2>3. Fed' /\ Here' = Here
      BY <1>1, <2>1, <2>2, Stays
    <2>4. j < n
      <3>1. input \in Seq(Token) /\ body \in Seq(Token)
        BY <1>1 DEF Fed
      <3>2. Len(input) > 0 /\ Len(body) \in Nat /\ Len(input) \in Nat
        BY <1>10, <3>1
      <3>3. end = Len(x) - Len(input) - Len(body)
        BY <1>4, <1>6 DEF Here
      <3>4. j # n
        BY <1>5, <3>2, <3>3
      <3> QED BY <1>5, <3>4
    <2>5. PICK k : k = j + 1
      OBVIOUS
    <2>6. k - 1 = j /\ k \in DOMAIN Posted'
      BY <1>5, <2>2, <2>4, <2>5 DEF Posted
    <2>7. InName(k)'
      <3>1. EndOf(k - 1)' = end
        BY <1>4, <2>2, <2>6 DEF EndOf, Posted
      <3> QED BY <1>6, <1>10, <2>1, <2>3, <3>1 DEF InName, NewStream
    <2>8. \A i \in 1 .. k - 1 : FileDone(i)'
      <3>1. ASSUME NEW i \in 1 .. j PROVE FileDone(i)
        <4>1. i = j \/ i \in 1 .. j - 1
          BY <1>5
        <4> QED BY <1>2, <1>6, <1>10, <4>1 DEF InFile
      <3> QED BY <1>1, <2>2, <2>6, <3>1 DEF FileDone, FileStored, Posted, regionVars
    <2>9. Parsing'
      BY <2>3, <2>6, <2>7, <2>8 DEF Parsing, InFile
    <2> QED BY <1>1, <1>7, <2>1, <2>2, <2>9, Continues DEF SInv
  <1> QED BY <1>8, <1>9, <1>10

-----------------------------------------------------------------------------
(* A turn of the region layer *)

\* A file that fits lies in its region.
LEMMA FileInRegion ==
  ASSUME NEW r \in DOMAIN Table, NEW n \in Nat, n <= SectorSize * Table[r].sectors, NEW k \in 1 .. n
  PROVE  Table[r].start + ((k - 1) \div SectorSize) \in TableRange(r)
  <1>1. PICK a, b, q, p, S : /\ a = Table[r].start /\ b = Table[r].sectors
                             /\ q = (k - 1) \div SectorSize /\ p = (k - 1) % SectorSize /\ S = SectorSize
    OBVIOUS
  <1>2. a \in Nat /\ b \in Nat /\ S \in Nat /\ S >= 2
    BY <1>1 DEF Region
  <1>3. q \in Nat /\ p \in 0 .. S - 1 /\ k - 1 = S * q + p
    BY <1>1, BytesOfSectors
  <1>4. S * q < S * b
    BY ONLY <1>1, <1>2, <1>3, n \in Nat, n <= SectorSize * Table[r].sectors, k \in 1 .. n
  <1>5. q < b
    BY ONLY <1>2, <1>3, <1>4
  <1>6. a + q \in a .. (a + b - 1)
    BY ONLY <1>2, <1>3, <1>5
  <1> QED BY <1>1, <1>6 DEF TableRange, SectorsOf

\* A file that is done stays: another region is open.
LEMMA FileSurvives ==
  ASSUME UInv, UNCHANGED upload, NEW ok, Turn(ok), open_region # NULL, NEW i \in DOMAIN Posted,
         Posted[i].size \in Nat, Posted[i].name # open_region, FileDone(i)
  PROVE  FileDone(i)'
  <1>1. PICK f, r, n : f = Posted[i] /\ r = f.name /\ n = f.size
    OBVIOUS
  <1>2. r \in DOMAIN Table /\ r # open_region /\ n \in Nat /\ n <= SectorSize * Table[r].sectors
        /\ FileStored(f)
    BY <1>1 DEF FileDone, Fits
  <1>3. ASSUME NEW s \in TableRange(r) PROVE flash'[s] = flash[s]
    <2>1. UNCHANGED flash \/ \E b : Flush(b, ok)
      BY TurnEffect
    <2> QED BY <1>2, <2>1, FlushSparesOthers
  <1>4. ASSUME NEW k \in 1 .. n
        PROVE  LET s == Table[r].start + ((k - 1) \div SectorSize)
                   b == ((k - 1) % SectorSize) + 1
               IN  (s = 0 /\ b = 2) \/ flash'[s][b] = FileBytes(upload.id, f)[k]
    <2>1. PICK s : s = Table[r].start + ((k - 1) \div SectorSize)
      OBVIOUS
    <2>2. s \in TableRange(r)
      BY <1>2, <2>1, FileInRegion
    <2> QED BY <1>1, <1>2, <1>3, <2>1, <2>2 DEF FileStored
  <1>5. Posted' = Posted
    BY DEF Posted
  <1> QED BY <1>1, <1>2, <1>4, <1>5 DEF FileDone, Fits, FileStored

\* The bytes behind the cursor, when they are all of the file, are the file.
LEMMA FileLands ==
  ASSUME RegionInv, UInv, UNCHANGED upload, NEW ok \in BOOLEAN, Turn(ok), open_region # NULL,
         NEW j \in DOMAIN Posted, open_region = Posted[j].name, NEW n \in Nat \ {0},
         n = Posted[j].size, Passed(Bytes(j), n)
  PROVE  FileDone(j)'
  <1>1. PICK f, r, F, S : f = Posted[j] /\ r = f.name /\ F = Bytes(j) /\ S = SectorSize
    OBVIOUS
  <1>2. /\ registry = Table /\ r = open_region /\ r \in DOMAIN Table
        /\ sector \in Nat /\ max_sector = Table[r].start + Table[r].sectors - 1
        /\ sector <= max_sector + 1
    BY <1>1 DEF UInv, OpenElsewhere, RegionInv, CursorInRegion
  <1>3. \A k \in 1 .. n : Kept(F, k) /\ At(k) < sector
    BY <1>1 DEF Passed
  <1>4. n <= SectorSize * Table[r].sectors
    <2>1. PICK a, b, q, p : /\ a = Table[r].start /\ b = Table[r].sectors
                            /\ q = (n - 1) \div SectorSize /\ p = (n - 1) % SectorSize
      OBVIOUS
    <2>2. a \in Nat /\ b \in Nat /\ S \in Nat /\ S >= 2
      BY <1>1, <1>2, <2>1 DEF Region
    <2>3. q \in Nat /\ p \in 0 .. S - 1 /\ n - 1 = S * q + p
      BY <1>1, <2>1, BytesOfSectors
    <2>4. a + q < sector
      <3>1. At(n) < sector
        BY <1>3
      <3> QED BY <1>2, <2>1, <3>1 DEF At, Start
    <2>5. q < b
      BY ONLY <1>2, <2>1, <2>2, <2>3, <2>4
    <2>6. S * q <= S * (b - 1) /\ S * (b - 1) = S * b - S
      BY ONLY <2>2, <2>3, <2>5
    <2>7. n <= S * b
      <3>1. S * q \in Int /\ S * b \in Int
        BY ONLY <2>2, <2>3
      <3> QED BY ONLY <2>2, <2>3, <2>6, <3>1, n \in Nat \ {0}
    <2> QED BY <1>1, <2>1, <2>7
  <1>5. ASSUME NEW k \in 1 .. n
        PROVE  LET s == Table[r].start + ((k - 1) \div SectorSize)
                   b == ((k - 1) % SectorSize) + 1
               IN  (s = 0 /\ b = 2) \/ flash'[s][b] = F[k]
    <2>1. k \in Nat \ {0} /\ Kept(F, k) /\ At(k) < sector
      BY <1>3
    <2>2. FlashUnderCursor
      BY TurnUnderCursor
    <2>3. \/ At(k) \in SectorsOf(registry[open_region]) /\ flash'[At(k)][Pos(k)] = F[k]
          \/ At(k) = 0 /\ Pos(k) = 2 /\ F[1] = Magic
      BY <2>1, <2>2, KeptOnChip
    <2> QED BY <1>2, <2>3 DEF At, Pos, Start
  <1>6. Posted' = Posted /\ Bytes(j) = FileBytes(upload.id, f)
    BY <1>1 DEF Posted, Bytes
  <1> QED BY <1>1, <1>2, <1>4, <1>5, <1>6 DEF FileDone, Fits, FileStored

\* Two files of a request go to different regions.
LEMMA NamesDiffer ==
  ASSUME Fed, NEW j \in DOMAIN Posted, NEW i \in 1 .. j - 1
  PROVE  i \in DOMAIN Posted /\ Posted[i].size \in Nat /\ Posted[i].name # Posted[j].name
  <1>1. PICK files : files = Posted
    OBVIOUS
  <1>2. files \in Upload /\ j \in DOMAIN files
    BY <1>1 DEF Fed
  <1>3. DOMAIN files = 1 .. Len(files) /\ Len(files) \in Nat
    BY <1>2, UploadAssumption
  <1>4. i \in DOMAIN files /\ i # j
    BY <1>2, <1>3
  <1>5. files[i].name # files[j].name
    BY ONLY <1>2, <1>4, UploadAssumption
  <1>6. FileAt(i)
    BY <1>1, <1>4, FileBegins
  <1> QED BY <1>1, <1>4, <1>5, <1>6 DEF FileAt

LEMMA ChipWrites ==
  ASSUME UInv, SInv, NEW ok \in BOOLEAN, Chip(ok), pc = "write", NEW j \in DOMAIN Posted, InFile(j)
  PROVE  InData(j)' /\ open_region # NULL /\ open_region = Posted[j].name
  <1>1. /\ Turn(ok) /\ Parsing /\ Fed
        /\ UNCHANGED <<streamVars, input, pc, body, sending, upload, last>>
    BY DEF Chip, SInv, InStep, Parsing, clientVars, chunkVars
  <1>2. InData(j) /\ mode = "WRITE" /\ open_region # NULL /\ call.op \in {"none", "write"}
    BY DEF InFile, InName, InSize, InData, InClose, Ended, UInv, CallInRegion
  <1>3. call.op = "write" /\ call.result /\ WriteTurn(ok) /\ UNCHANGED <<registry, open_region, mode>>
    <2>1. call.op = "write"
      BY <1>1, <1>2, TurnEffect
    <2>2. WriteTurn(ok)
      BY <1>1, <2>1 DEF Turn, CloseTurn, TruncateTurn
    <2> QED BY <2>1, <2>2 DEF SInv, CallTidy, WriteTurn
  <1>4. PICK F, n : F = Bytes(j) /\ n = global_pos + WriteLen
    OBVIOUS
  <1>5. Delivering(F, n)
    BY <1>2, <1>3, <1>4 DEF InData
  <1>6. n \in Nat
    <2>1. PICK g, l, s, h, end, x, in, m :
            /\ m = WriteLen /\ g = global_pos /\ l = Len(input) /\ s = Posted[j].size /\ h = Here
            /\ end = EndOf(j) /\ x = Text /\ in = input
      OBVIOUS
    <2>2. input # <<>>
      BY <1>2 DEF InData
    <2>3. DataPart(m, g, l, s, h, end, x, in, F)
      BY ONLY DataBytes, <1>1, <1>2, <1>4, <2>1, <2>2, j \in DOMAIN Posted
    <2> QED BY ONLY <1>4, <2>1, <2>3 DEF DataPart
  <1>7. call'.result => Delivering(F, n)'
    BY <1>3, <1>5, <1>6, WriteTurnDelivers DEF SInv
  <1>8. Fed' /\ Here' = Here
    BY <1>1, Stays
  <1>9. /\ Posted' = Posted /\ Bytes(j)' = F /\ WriteLen' = WriteLen /\ EndOf(j - 1)' = EndOf(j - 1)
        /\ Digits(j)' = Digits(j) /\ UNCHANGED <<state, name, size, global_pos>> /\ UNCHANGED input
    BY <1>1, <1>4 DEF Posted, Bytes, WriteLen, EndOf, Digits, streamVars
  <1>10. call'.result => Delivering(Bytes(j), global_pos + WriteLen)'
    BY <1>4, <1>7, <1>9 DEF Delivering, Passed, Kept
  <1>11. InData(j)'
    BY <1>1, <1>2, <1>3, <1>8, <1>9, <1>10 DEF InData
  <1> QED BY <1>2, <1>11 DEF InData

LEMMA ChipCloses ==
  ASSUME UInv, SInv, NEW ok \in BOOLEAN, Chip(ok), pc = "close", NEW j \in DOMAIN Posted, InFile(j)
  PROVE  InClose(j)' /\ open_region # NULL /\ open_region = Posted[j].name
  <1>1. /\ Turn(ok) /\ Parsing /\ Fed
        /\ UNCHANGED <<streamVars, input, pc, body, sending, upload, last>>
    BY DEF Chip, SInv, InStep, Parsing, clientVars, chunkVars
  <1>2. InClose(j) /\ call.op \in {"close", "truncate"} /\ open_region # NULL /\ open_region = Posted[j].name
    <2>1. InClose(j)
      BY DEF InFile, InName, InSize, InData, Ended
    <2>2. call.op # "none"
      BY <1>1, TurnEffect
    <2>3. call.op \in Op
      BY DEF SInv, RegionInv, RegionTypeOK
    <2> QED BY <2>1, <2>2, <2>3 DEF Op, InClose, UInv, CallInRegion
  <1>3. PICK F, n : F = Bytes(j) /\ n = size
    OBVIOUS
  <1>4. n \in Nat \ {0} /\ n = Posted[j].size /\ RegionInv /\ call.data = <<>>
    <2>1. FileAt(j)
      BY <1>1, FileBegins
    <2> QED BY <1>2, <1>3, <2>1 DEF FileAt, InClose, SInv, CallTidy
  <1>5. Fed' /\ Here' = Here
    BY <1>1, Stays
  <1>6. /\ Posted' = Posted /\ Bytes(j)' = F /\ EndOf(j)' = EndOf(j) /\ UNCHANGED <<state, name, size>>
    BY <1>1, <1>3 DEF Posted, Bytes, EndOf, streamVars
  <1>7. CASE CloseTurn(ok)
    <2>1. call.op = "close" /\ call'.op = "truncate" /\ UNCHANGED open_region
      BY <1>7 DEF CloseTurn
    <2>2. Delivering(F, n)
      BY <1>2, <1>3, <2>1 DEF InClose
    <2>3. call'.result => Passed(F, n)'
      BY <1>4, <1>7, <2>2, CloseTurnDelivers
    <2>4. call'.result => Passed(Bytes(j), size)'
      BY <1>3, <1>6, <2>3 DEF Passed, Kept
    <2> QED BY <1>1, <1>2, <1>5, <1>6, <2>1, <2>4 DEF InClose
  <1>8. CASE TruncateTurn(ok)
    <2>1. call.op = "truncate" /\ (call.result => Passed(F, n)) /\ call'.result = call.result
      BY <1>2, <1>3, <1>8 DEF InClose, TruncateTurn
    <2>2. CASE UNCHANGED <<open_region, call>>
      <3>1. call.result => Passed(F, n)'
        BY <1>2, <1>4, <1>8, <2>1, <2>2, TruncateTurnDelivers
      <3>2. call'.result => Passed(Bytes(j), size)'
        BY <1>3, <1>6, <2>1, <3>1 DEF Passed, Kept
      <3> QED BY <1>1, <1>2, <1>5, <1>6, <2>1, <2>2, <3>2 DEF InClose
    <2>3. CASE open_region' = NULL /\ call'.op = "none"
      <3>1. call.result => FileDone(j)'
        BY <1>1, <1>2, <1>3, <1>4, <2>1, FileLands
      <3> QED BY <1>1, <1>2, <1>5, <1>6, <2>1, <2>3, <3>1 DEF InClose
    <2> QED BY <1>8, <2>2, <2>3 DEF TruncateTurn, Cleared
  <1> QED BY <1>1, <1>2, <1>7, <1>8 DEF Turn, WriteTurn

LEMMA ChipSInv ==
  ASSUME UInv, SInv, NEW ok \in BOOLEAN, Chip(ok)
  PROVE  SInv'
  <1>1. /\ Turn(ok) /\ Parsing /\ Fed /\ pc \in {"write", "close"}
        /\ UNCHANGED <<input, pc, body, sending, upload, last, success, first, end_timer, reboot_timer>>
    BY DEF Chip, SInv, InStep, Parsing, clientVars, chunkVars, bootVars
  <1>2. PICK j \in DOMAIN Posted : InFile(j)
    BY <1>1 DEF Parsing, Lost
  <1>3. (InData(j)' \/ InClose(j)') /\ open_region # NULL /\ open_region = Posted[j].name
    BY <1>1, <1>2, ChipWrites, ChipCloses
  <1>4. ASSUME NEW i \in 1 .. j - 1 PROVE FileDone(i)'
    <2>1. i \in DOMAIN Posted /\ Posted[i].size \in Nat /\ Posted[i].name # open_region
      BY <1>1, <1>3, NamesDiffer
    <2>2. FileDone(i)
      BY <1>2 DEF InFile
    <2> QED BY <1>1, <1>3, <2>1, <2>2, FileSurvives
  <1>5. Parsing'
    <2>1. Fed' /\ j \in DOMAIN Posted'
      BY <1>1, Stays DEF Posted
    <2> QED BY <1>3, <1>4, <2>1 DEF Parsing, InFile
  <1>6. InStep' /\ Committed'
    BY <1>1, <1>5 DEF SInv, InStep, Committed
  <1>7. RegionInv'
    BY <1>1, TurnRegion DEF SInv
  <1>8. CallTidy'
    BY <1>1 DEF Turn, WriteTurn, CloseTurn, TruncateTurn, Idle, SInv, CallTidy
  <1> QED BY <1>1, <1>6, <1>7, <1>8 DEF SInv

-----------------------------------------------------------------------------
(* The client's steps *)

\* The first packet: Json, and what follows it.
FirstPacket(in, rest, x, k) ==
  /\ in \in Seq(Token) /\ rest \in Seq(Token)
  /\ Len(x) \in Nat /\ Len(in) = k - 1 /\ Len(rest) = Len(x) - k
  /\ \A i \in 1 .. Len(in) : in[i] = x[1 + i]
  /\ \A i \in 1 .. Len(rest) : rest[i] = x[1 + Len(in) + i]
  /\ rest # <<>> <=> k < Len(x)

LEMMA PostFed ==
  ASSUME NEW files \in Upload, NEW u \in 1 .. MaxUploads, NEW x, x = BodyOf(u, files),
         NEW k \in Nat \ {0}, k <= Len(x), NEW in, in = Tail(SubSeq(x, 1, k)),
         NEW rest, rest = SubSeq(x, k + 1, Len(x))
  PROVE  /\ FirstPacket(in, rest, x, k)
         /\ Len(Texts(u, files)[0]) = 1 /\ 1 \in DOMAIN files
  <1>1. PICK T, n : T = Texts(u, files) /\ n = Len(files)
    OBVIOUS
  <1>2. n \in Nat \ {0} /\ DOMAIN files = 1 .. n /\ \A i \in 0 .. n : T[i] \in Seq(Token)
    BY ONLY TextGrows, <1>1, files \in Upload, u \in 1 .. MaxUploads
  <1>3. x \in Seq(Token)
    BY <1>1, <1>2 DEF BodyOf
  <1>4. PICK p : p = SubSeq(x, 1, k)
    OBVIOUS
  <1>5. /\ p \in Seq(Token) /\ Len(p) = k /\ p # <<>> /\ \A i \in 1 .. k : p[i] = x[i]
    BY ONLY <1>3, <1>4, k \in Nat \ {0}, k <= Len(x)
  <1>6. in \in Seq(Token) /\ Len(in) = k - 1 /\ \A i \in 1 .. Len(in) : in[i] = p[i + 1]
    BY ONLY <1>4, <1>5, in = Tail(SubSeq(x, 1, k)), k \in Nat \ {0}
  <1>7. ASSUME NEW i \in 1 .. Len(in) PROVE in[i] = x[1 + i]
    <2>1. i + 1 \in 1 .. k /\ 1 + i = i + 1
      BY ONLY <1>6, i \in 1 .. Len(in), k \in Nat \ {0}
    <2> QED BY ONLY <1>5, <1>6, <2>1, i \in 1 .. Len(in)
  <1>8. Len(x) \in Nat
    BY <1>3
  <1>9. rest \in Seq(Token) /\ Len(rest) = Len(x) - k /\ \A i \in 1 .. Len(rest) : rest[i] = x[k + i]
    BY ONLY <1>3, <1>8, k \in Nat \ {0}, k <= Len(x), rest = SubSeq(x, k + 1, Len(x))
  <1>10. ASSUME NEW i \in 1 .. Len(rest) PROVE rest[i] = x[1 + Len(in) + i]
    <2>1. 1 + Len(in) + i = k + i
      BY ONLY <1>6, <1>8, <1>9, i \in 1 .. Len(rest), k \in Nat \ {0}
    <2> QED BY ONLY <1>9, <2>1, i \in 1 .. Len(rest)
  <1>11. rest # <<>> <=> k < Len(x)
    <2>1. rest = <<>> <=> Len(rest) = 0
      BY ONLY <1>9
    <2> QED BY ONLY <1>8, <1>9, <2>1, k \in Nat \ {0}, k <= Len(x)
  <1>12. Len(Texts(u, files)[0]) = 1
    <2>1. T[0] = <<Json>>
      BY ONLY TextGrows, <1>1, files \in Upload, u \in 1 .. MaxUploads
    <2> QED BY <1>1, <2>1
  <1>13. FirstPacket(in, rest, x, k)
    <2>1. \A i \in 1 .. Len(in) : in[i] = x[1 + i]
      BY ONLY <1>7
    <2>2. \A i \in 1 .. Len(rest) : rest[i] = x[1 + Len(in) + i]
      BY ONLY <1>10
    <2> QED BY ONLY <1>6, <1>8, <1>9, <1>11, <2>1, <2>2 DEF FirstPacket
  <1> QED BY <1>1, <1>2, <1>12, <1>13

LEMMA PostSInv ==
  ASSUME ~ HeaderOnly, UInv, SInv, NEW files \in Upload, NEW k \in 0 .. MaxBody, Post(files, k)
  PROVE  SInv'
  <1>1. PICK u, x : u = upload.id + 1 /\ x = BodyOf(u, files)
    OBVIOUS
  <1>2. /\ u \in 1 .. MaxUploads /\ k <= Len(x) /\ k # 0
        /\ upload' = [files |-> files, id |-> u] /\ pc = "idle" /\ ~ sending
        /\ reboot_timer' = FALSE
        /\ body' = SubSeq(x, k + 1, Len(x)) /\ sending' = (k < Len(x))
        /\ UNCHANGED <<registry, open_region, sector, max_sector, mode, buffer, flash, call>>
        /\ protected' = Guarded
    BY <1>1 DEF Post, SInv
  <1>3. Chunk(SubSeq(x, 1, k), TRUE, k = Len(x))
    <2>1. Starts(0)
      BY DEF Starts
    <2>2. Chunk(SubSeq(x, 1, k), Starts(0), k = Len(x))
      BY <1>1, <1>2 DEF Post
    <2> QED BY ONLY <2>1, <2>2 DEF Chunk
  <1>4. k \in Nat \ {0}
    BY <1>2
  <1>5. PICK in, rest : in = Tail(SubSeq(x, 1, k)) /\ rest = SubSeq(x, k + 1, Len(x))
    OBVIOUS
  <1>6. FirstPacket(in, rest, x, k) /\ Len(Texts(u, files)[0]) = 1 /\ 1 \in DOMAIN files
    BY ONLY PostFed, <1>1, <1>2, <1>4, <1>5, files \in Upload
  <1>7. RegionInv'
    <2>1. current \in 1 .. 2
      BY DEF UInv
    <2>2. protected' \subseteq Name
      <3>1. Current \in Name
        BY <2>1 DEF Current
      <3>2. protected \subseteq Name
        BY DEF SInv, RegionInv, RegionTypeOK
      <3> QED BY <1>2, <3>1, <3>2 DEF Guarded
    <2> QED BY <1>2, <2>2, QuietRegion DEF SInv
  <1>8. upload'.id \in 0 .. MaxUploads /\ CallTidy'
    BY <1>2 DEF SInv, CallTidy
  <1>9. CASE CanInit
    <2>1. /\ NewStream /\ success' = TRUE /\ first' = FALSE /\ input' = in /\ pc' = "parse"
          /\ end_timer' = "none" /\ last' = (k = Len(x))
      BY <1>3, <1>5, <1>9 DEF Chunk
    <2>2. Posted' = files /\ Text' = x /\ (upload')["id"] = u /\ EndOf(1 - 1)' = 1
      BY <1>1, <1>2, <1>6 DEF Posted, Text, EndOf
    <2>3. /\ in \in Seq(Token) /\ rest \in Seq(Token)
          /\ Len(x) \in Nat /\ Len(in) = k - 1 /\ Len(rest) = Len(x) - k
          /\ \A i \in 1 .. Len(in) : in[i] = x[1 + i]
          /\ \A i \in 1 .. Len(rest) : rest[i] = x[1 + Len(in) + i]
          /\ rest # <<>> <=> k < Len(x)
      BY ONLY <1>6 DEF FirstPacket
    <2>4. Here' = 1
      <3>1. Here' = Len(x) - Len(in) - Len(rest)
        BY <1>2, <1>5, <2>1, <2>2 DEF Here
      <3>2. Len(x) - (k - 1) - (Len(x) - k) = 1
        BY ONLY <1>4, <2>3
      <3> QED BY <2>3, <3>1, <3>2
    <2>5. Fed'
      <3>1. body' = rest /\ input' = in /\ sending' = (k < Len(x)) /\ last' = (k = Len(x)) /\ pc' = "parse"
        BY <1>2, <1>5, <2>1
      <3>2. sending' <=> body' # <<>>
        BY ONLY <2>3, <3>1
      <3>4. k < Len(x) <=> ~ (k = Len(x))
        BY ONLY <1>2, <1>4, <2>3
      <3>3. last' <=> ~ sending'
        BY ONLY <3>1, <3>4, Zenon
      <3> QED BY <1>2, <2>2, <2>3, <2>4, <3>1, <3>2, <3>3 DEF Fed
    <2>6. InName(1)'
      BY <2>1, <2>2, <2>4 DEF InName, NewStream
    <2>7. Parsing'
      BY <1>6, <2>2, <2>5, <2>6 DEF Parsing, InFile
    <2> QED BY <1>2, <1>7, <1>8, <2>1, <2>7 DEF SInv, InStep, Committed
  <1>10. CASE ~ CanInit
    <2>1. ChunkEnd(FALSE, k = Len(x))
      BY <1>3, <1>10 DEF Chunk
    <2>2. /\ success' = FALSE /\ pc' = "idle" /\ first' = (k = Len(x)) /\ end_timer' \in {"failed", "none"}
      BY <2>1 DEF ChunkEnd
    <2>3. sending' => ~ first'
      <3>1. Len(x) \in Nat
        BY <1>6 DEF FirstPacket
      <3>2. k < Len(x) => ~ (k = Len(x))
        BY ONLY <1>4, <3>1
      <3> QED BY ONLY <1>2, <2>2, <3>2, Zenon
    <2> QED BY <1>2, <1>7, <1>8, <2>2, <2>3 DEF SInv, InStep, Committed
  <1> QED BY <1>9, <1>10

\* A step that gives the parser its next packet, or leaves it alone.
LEMMA Resumes ==
  ASSUME Parsing, Fed', Here' = Here, UNCHANGED <<regionVars, streamVars, upload>>,
         \/ pc = "idle" /\ pc' = "parse" /\ input' # <<>>
         \/ UNCHANGED <<pc, input>>
  PROVE  Parsing'
  <1>1. Posted' = Posted /\ \A j : EndOf(j)' = EndOf(j) /\ Digits(j)' = Digits(j) /\ Bytes(j)' = Bytes(j)
    BY DEF Posted, EndOf, Digits, Bytes
  <1>2. CASE Lost
    BY <1>2 DEF Parsing, Lost, streamVars
  <1>3. CASE \E j \in DOMAIN Posted : InFile(j)
    <2>1. PICK j \in DOMAIN Posted : InFile(j)
      BY <1>3
    <2>2. \A i \in 1 .. j - 1 : FileDone(i)'
      BY <2>1, FilesStay DEF InFile, regionVars
    <2>3. FileDone(j) => FileDone(j)'
      BY DEF FileDone, FileStored, Posted, regionVars
    <2>4. PICK F, g, m, z : F = Bytes(j) /\ g = global_pos /\ m = global_pos + WriteLen /\ z = size
      OBVIOUS
    <2>5. Bytes(j)' = F /\ global_pos' = g /\ size' = z /\ (UNCHANGED input => (global_pos + WriteLen)' = m)
      BY <1>1, <2>4 DEF WriteLen, streamVars
    <2>6. ASSUME NEW n, Delivering(F, n) PROVE Delivering(F, n)'
      BY <2>6 DEF Delivering, Passed, Kept, Flushed, At, Pos, Start, regionVars
    <2>7. ASSUME NEW n, Passed(F, n) PROVE Passed(F, n)'
      BY <2>7 DEF Passed, Kept, At, Pos, Start, regionVars
    <2>8. CASE InName(j)
      BY <1>1, <2>1, <2>2, <2>8 DEF Parsing, InFile, InName, streamVars
    <2>9. CASE InSize(j)
      BY <1>1, <2>1, <2>2, <2>9 DEF Parsing, InFile, InSize, streamVars, regionVars
    <2>10. CASE InData(j)
      <3>1. pc' # "write" => Delivering(Bytes(j), global_pos)'
        <4> SUFFICES ASSUME pc' # "write" PROVE Delivering(Bytes(j), global_pos)'
          OBVIOUS
        <4>1. Delivering(F, g)
          BY <2>4, <2>10 DEF InData
        <4>2. Delivering(F, g)'
          BY <2>6, <4>1
        <4> QED BY <2>5, <4>2 DEF Delivering, Passed, Kept
      <3>2. pc' = "write" /\ call'.result => Delivering(Bytes(j), global_pos + WriteLen)'
        <4> SUFFICES ASSUME pc' = "write", call'.result PROVE Delivering(Bytes(j), global_pos + WriteLen)'
          OBVIOUS
        <4>1. Delivering(F, m) /\ UNCHANGED input
          BY <2>4, <2>10 DEF InData, regionVars
        <4>2. Delivering(F, m)'
          BY <2>6, <4>1
        <4> QED BY <2>5, <4>1, <4>2 DEF Delivering, Passed, Kept
      <3>3. InData(j)'
        BY <1>1, <2>10, <3>1, <3>2 DEF InData, streamVars, regionVars
      <3> QED BY <1>1, <2>1, <2>2, <3>3 DEF Parsing, InFile
    <2>11. CASE InClose(j)
      <3>1. call'.op = "close" => Delivering(Bytes(j), size)'
        <4> SUFFICES ASSUME call'.op = "close" PROVE Delivering(Bytes(j), size)'
          OBVIOUS
        <4>1. Delivering(F, z)
          BY <2>4, <2>11 DEF InClose, regionVars
        <4>2. Delivering(F, z)'
          BY <2>6, <4>1
        <4> QED BY <2>5, <4>2 DEF Delivering, Passed, Kept
      <3>2. call'.op = "truncate" /\ call'.result => Passed(Bytes(j), size)'
        <4> SUFFICES ASSUME call'.op = "truncate", call'.result PROVE Passed(Bytes(j), size)'
          OBVIOUS
        <4>1. Passed(F, z)
          BY <2>4, <2>11 DEF InClose, regionVars
        <4>2. Passed(F, z)'
          BY <2>7, <4>1
        <4> QED BY <2>5, <4>2 DEF Passed, Kept
      <3>3. InClose(j)'
        BY <1>1, <2>3, <2>11, <3>1, <3>2 DEF InClose, streamVars, regionVars
      <3> QED BY <1>1, <2>1, <2>2, <3>3 DEF Parsing, InFile
    <2>12. CASE Ended(j)
      BY <1>1, <2>1, <2>2, <2>3, <2>12 DEF Parsing, InFile, Ended, streamVars, regionVars
    <2> QED BY <2>1, <2>8, <2>9, <2>10, <2>11, <2>12 DEF InFile
  <1> QED BY <1>2, <1>3 DEF Parsing

LEMMA PacketSInv ==
  ASSUME UInv, SInv, NEW k \in 1 .. MaxBody, Packet(k)
  PROVE  SInv'
  <1>1. /\ pc = "idle" /\ sending /\ k \in 1 .. Len(body) /\ ~ first
        /\ UNCHANGED <<regionVars, reboot_timer, upload>>
        /\ body' = SubSeq(body, k + 1, Len(body)) /\ sending' = (k < Len(body))
    BY DEF Packet, SInv, InStep
  <1>2. Chunk(SubSeq(body, 1, k), FALSE, k = Len(body))
    BY <1>1 DEF Packet, Starts
  <1>3. RegionInv' /\ CallTidy'
    <2>1. protected' \subseteq Name
      BY <1>1 DEF SInv, RegionInv, RegionTypeOK, regionVars
    <2> QED BY <1>1, <2>1, QuietRegion DEF SInv, CallTidy, regionVars
  <1>4. ~ reboot_timer' /\ upload' = upload
    BY <1>1 DEF SInv, Committed
  <1>5. CASE success
    <2>1. Parsing /\ Fed
      BY <1>1, <1>5 DEF SInv, InStep, Parsing
    <2>2. /\ UNCHANGED streamVars /\ success' = TRUE /\ first' = FALSE /\ pc' = "parse"
          /\ input' = SubSeq(body, 1, k) /\ end_timer' = "none" /\ last' = (k = Len(body))
      BY <1>2, <1>5 DEF Chunk
    <2>3. PICK x, h, l : x = Text /\ h = Here /\ l = Len(body)
      OBVIOUS
    <2>4. /\ body \in Seq(Token) /\ input = <<>> /\ Len(input) = 0 /\ h \in Nat \ {0}
          /\ Len(x) \in Nat
      <3>1. x \in Seq(Token)
        BY <2>1, <2>3, TextType DEF Fed
      <3> QED BY <1>1, <2>1, <2>3, <3>1 DEF Fed
    <2>5. l \in Nat /\ h = Len(x) - 0 - l /\ \A i \in 1 .. l : body[i] = x[h + 0 + i]
      BY <1>1, <2>1, <2>3, <2>4 DEF Fed, Here
    <2>6. /\ input' \in Seq(Token) /\ Len(input') = k /\ input' # <<>>
          /\ body' \in Seq(Token) /\ Len(body') = l - k
          /\ \A i \in 1 .. k : input'[i] = body[i]
          /\ \A i \in 1 .. l - k : body'[i] = body[k + i]
      <3>1. input' \in Seq(Token) /\ Len(input') = k /\ \A i \in 1 .. k : input'[i] = body[i]
        BY ONLY <1>1, <2>2, <2>4
      <3>2. body' \in Seq(Token) /\ Len(body') = l - k /\ \A i \in 1 .. l - k : body'[i] = body[k + i]
        BY ONLY <1>1, <2>3, <2>4, <2>5
      <3>3. k \in Nat \ {0}
        BY <1>1
      <3> QED BY ONLY <3>1, <3>2, <3>3
    <2>7. Text' = x /\ Posted' = Posted
      BY <1>4, <2>3 DEF Text, Posted
    <2>8. Here' = h
      <3>1. Here' = Len(x) - k - (l - k)
        BY <2>6, <2>7 DEF Here
      <3>2. k \in Nat
        BY <1>1
      <3> QED BY ONLY <2>4, <2>5, <3>1, <3>2
    <2>9. ASSUME NEW i \in 1 .. k PROVE input'[i] = x[h + i]
      <3>1. i \in 1 .. l /\ h + 0 + i = h + i
        BY ONLY <1>1, <2>3, <2>4, <2>5, i \in 1 .. k
      <3> QED BY ONLY <2>5, <2>6, <3>1, i \in 1 .. k
    <2>10. ASSUME NEW i \in 1 .. l - k PROVE body'[i] = x[h + k + i]
      <3>1. k + i \in 1 .. l /\ h + 0 + (k + i) = h + k + i
        BY ONLY <1>1, <2>3, <2>4, <2>5, i \in 1 .. l - k
      <3> QED BY ONLY <2>5, <2>6, <3>1, i \in 1 .. l - k
    <2>11. (sending' <=> body' # <<>>) /\ (last' <=> ~ sending')
      <3>1. body' = <<>> <=> Len(body') = 0
        BY ONLY <2>6
      <3>2. k \in Nat /\ k <= l
        BY <1>1, <2>3, <2>5
      <3>3. (k < Len(body) <=> body' # <<>>) /\ (k < Len(body) <=> ~ (k = Len(body)))
        BY ONLY <2>3, <2>5, <2>6, <3>1, <3>2
      <3> QED BY ONLY <1>1, <2>2, <3>3, Zenon
    <2>12. Fed'
      BY <1>4, <2>1, <2>2, <2>4, <2>6, <2>7, <2>8, <2>9, <2>10, <2>11 DEF Fed
    <2>13. Parsing'
      BY <1>1, <2>1, <2>2, <2>3, <2>6, <2>8, <2>12, Resumes
    <2> QED BY <1>3, <1>4, <2>2, <2>13 DEF SInv, InStep, Committed
  <1>6. CASE ~ success
    <2>1. ChunkEnd(FALSE, k = Len(body))
      BY <1>2, <1>6 DEF Chunk
    <2>2. success' = FALSE /\ pc' = "idle" /\ first' = (k = Len(body)) /\ end_timer' \in {"failed", "none"}
      BY <2>1 DEF ChunkEnd
    <2>3. sending' => ~ first'
      <3>1. k < Len(body) => ~ (k = Len(body))
        BY <1>1
      <3> QED BY ONLY <1>1, <2>2, <3>1, Zenon
    <2> QED BY <1>3, <1>4, <2>2, <2>3 DEF SInv, InStep, Committed
  <1> QED BY <1>5, <1>6

-----------------------------------------------------------------------------
(* The other steps, and the whole *)

LEMMA AbortSInv ==
  ASSUME UInv, SInv, Abort
  PROVE  SInv'
  <1>1. /\ pc = "idle" /\ sending /\ ~ sending'
        /\ UNCHANGED <<regionVars, pc, end_timer, reboot_timer, upload>>
    BY DEF Abort, bootVars, historyVars
  <1>2. RegionInv' /\ CallTidy'
    <2>1. protected' \subseteq Name
      BY <1>1 DEF SInv, RegionInv, RegionTypeOK, regionVars
    <2> QED BY <1>1, <2>1, QuietRegion DEF SInv, CallTidy, regionVars
  <1> QED BY <1>1, <1>2 DEF SInv, InStep, Committed

\* What no part of the invariant speaks of.
LEMMA RestSInv ==
  ASSUME UInv, SInv, UNCHANGED <<regionVars, streamVars, input, pc, chunkVars, clientVars, upload>>,
         end_timer' = "ok" \/ reboot_timer' => end_timer = "ok" \/ reboot_timer
  PROVE  SInv'
  <1>1. RegionInv' /\ CallTidy'
    <2>1. protected' \subseteq Name
      BY DEF SInv, RegionInv, RegionTypeOK, regionVars
    <2> QED BY <2>1, QuietRegion DEF SInv, CallTidy, regionVars
  <1>2. Posted' = Posted
    BY DEF Posted
  <1>3. ASSUME NEW i PROVE FileDone(i)' <=> FileDone(i)
    BY DEF FileDone, FileStored, Posted, regionVars
  <1>4. Parsing => Parsing'
    <2> SUFFICES ASSUME Parsing PROVE Parsing'
      OBVIOUS
    <2>1. Fed' /\ Here' = Here
      BY DEF Parsing, Fed, Here, Text, Posted, chunkVars, clientVars
    <2> QED BY <2>1, Resumes
  <1>5. InStep'
    BY <1>4 DEF SInv, InStep, chunkVars, clientVars
  <1>6. Committed'
    BY <1>2, <1>3 DEF SInv, Committed, clientVars, streamVars, regionVars
  <1> QED BY <1>1, <1>5, <1>6 DEF SInv

LEMMA BootSInv ==
  ASSUME UInv, SInv, Reboot \/ Outage
  PROVE  SInv'
  <1>1. PowerLoss /\ Boot
    BY DEF Reboot, Outage, Boot, PowerLoss
  <1>2. RegionInv'
    <2>1. registry' = Table /\ registry = Table /\ protected' = {}
      BY <1>1 DEF Boot, UInv
    <2>2. registry' \in [Registered' -> Region] /\ Registered' \subseteq Name /\ RegistryOnChip'
      BY <2>1 DEF Registered, RegistryOnChip
    <2> QED BY <1>1, <2>1, <2>2, PowerLossRegion DEF SInv
  <1> QED BY <1>1, <1>2 DEF SInv, Boot, CallTidy, Idle, InStep, Committed, historyVars

LEMMA InitSInv == Init => SInv
  <1> SUFFICES ASSUME Init PROVE SInv
    OBVIOUS
  <1>1. /\ Reset /\ registry = Table /\ protected = {} /\ flash = [s \in Sector |-> BlankSector]
        /\ upload = [files |-> <<>>, id |-> 0] /\ pc = "idle" /\ ~ sending
        /\ end_timer = "none" /\ reboot_timer = FALSE
    BY DEF Init, Fresh
  <1>2. RegionInv
    <2>1. BlankSector \in Content
      BY DEF BlankSector, Content
    <2>2. flash \in [Sector -> Content]
      BY <1>1, <2>1
    <2>3. registry \in [Registered -> Region] /\ Registered \subseteq Name /\ RegistryOnChip
      BY <1>1 DEF Registered, RegistryOnChip
    <2> QED BY <1>1, <2>2, <2>3, ResetRegion
  <1> QED BY <1>1, <1>2 DEF SInv, Reset, CallTidy, Idle, InStep, Committed

LEMMA StreamInvariance ==
  ASSUME ~ HeaderOnly
  PROVE  Spec => []SInv
  <1>1. Init => SInv
    BY InitSInv
  <1>2. UInv /\ SInv /\ [Next]_vars => SInv'
    <2> SUFFICES ASSUME UInv, SInv, [Next]_vars PROVE SInv'
      OBVIOUS
    <2>1. CASE \E files \in Upload, k \in 0 .. MaxBody : Post(files, k)
      BY <2>1, PostSInv
    <2>2. CASE \E k \in 1 .. MaxBody : Packet(k)
      BY <2>2, PacketSInv
    <2>3. CASE Abort
      BY <2>3, AbortSInv
    <2>4. CASE ParseName
      BY <2>4, ParseNameSInv
    <2>5. CASE ParseSize
      BY <2>5, ParseSizeSInv
    <2>6. CASE MetaTooLong \/ SizeRefused \/ InvalidState
      BY <2>6, RefusedSInv
    <2>7. CASE StartWrite
      BY <2>7, StartWriteSInv
    <2>8. CASE EndWrite
      BY <2>8, EndWriteSInv
    <2>9. CASE EndClose
      BY <2>9, EndCloseSInv
    <2>10. CASE \E ok \in BOOLEAN : Chip(ok)
      BY <2>10, ChipSInv
    <2>11. CASE StreamEnd
      BY <2>11, RestSInv DEF StreamEnd, historyVars
    <2>12. CASE Reboot \/ Outage
      BY <2>12, BootSInv
    <2>13. CASE UNCHANGED vars
      BY <2>13, RestSInv DEF vars, bootVars, historyVars
    <2> QED BY <2>1, <2>2, <2>3, <2>4, <2>5, <2>6, <2>7, <2>8, <2>9, <2>10, <2>11, <2>12, <2>13 DEF Next, Parse
  <1> QED BY <1>1, <1>2, UploadInvariance, PTL DEF Spec

\* When the upgrade restarts into the other image every file of the request is on the
\* chip, byte for byte (CommitIsWhole), for every request, every split into packets
\* and every failure, when no request begins with a packet of its header alone.
THEOREM UploadCommitIsWhole ==
  ASSUME ~ HeaderOnly
  PROVE  Spec => []CommitIsWhole
  <1>1. SInv => CommitIsWhole
    BY DEF SInv, Committed, CommitIsWhole, FileDone, Posted
  <1> QED BY <1>1, StreamInvariance, PTL

\* A request that succeeded has closed its region and ended its stream
\* (SuccessLeavesClosed), so that the next one finds the parser at rest.
THEOREM UploadLeavesClosed ==
  ASSUME ~ HeaderOnly
  PROVE  Spec => []SuccessLeavesClosed
  <1>1. SInv => SuccessLeavesClosed
    BY DEF SInv, Committed, SuccessLeavesClosed
  <1> QED BY <1>1, StreamInvariance, PTL

-----------------------------------------------------------------------------
(* No byte of the JSON text reaches the chip *)

Clean       == Byte \ {Json}
CleanSector == [1 .. SectorSize -> Clean]

\* What is on the chip, and on its way there, is of files and of the region layer.
JInv == flash \in [Sector -> CleanSector] /\ buffer \in Seq(Clean) /\ call.data \in Seq(Clean)

LEMMA FlushClean ==
  ASSUME RegionInv, JInv, open_region # NULL, NEW b \in Seq(Clean), NEW ok, Flush(b, ok)
  PROVE  flash' \in [Sector -> CleanSector]
  <1>1. Zero \in Clean /\ Blank \in Clean
    BY DEF Clean
  <1>2. Padded(b) \in CleanSector
    BY <1>1 DEF Padded, CleanSector
  <1>3. PICK c : c = Patched(Padded(b))
    OBVIOUS
  <1>4. c \in CleanSector
    <2>1. flash \in [Sector -> CleanSector] /\ 0 \in Sector /\ 2 \in 1 .. SectorSize
      BY DEF JInv, Sector
    <2>2. flash[0][2] \in Clean
      BY <2>1 DEF CleanSector
    <2> QED BY <1>2, <1>3, <2>2 DEF Patched, CleanSector
  <1>5. ASSUME NEW k \in 0 .. SectorSize - 1 PROVE Torn(c, k) \in CleanSector
    BY <1>1, <1>4 DEF Torn, CleanSector
  <1>6. \/ UNCHANGED flash
        \/ \E d \in CleanSector : flash' = [flash EXCEPT ![sector] = d]
    BY <1>3, <1>4, <1>5 DEF Flush
  <1> QED BY <1>6 DEF JInv

LEMMA FilledClean ==
  ASSUME RegionInv, JInv
  PROVE  Filled \in Seq(Clean) /\ Rest \in Seq(Clean)
  <1>1. PICK n, d, b : n = CopyLen /\ d = call.data /\ b = buffer
    OBVIOUS
  <1>2. d \in Seq(Clean) /\ b \in Seq(Clean)
    BY <1>1 DEF JInv
  <1>3. n \in 0 .. Len(d)
    <2>1. Len(b) \in Nat /\ Len(b) <= SectorSize /\ Len(d) \in Nat
      BY <1>1, <1>2 DEF RegionInv, BufferFits
    <2> QED BY <1>1, <2>1 DEF CopyLen, Available
  <1>4. SubSeq(d, 1, n) \in Seq(Clean) /\ SubSeq(d, n + 1, Len(d)) \in Seq(Clean)
    BY ONLY <1>2, <1>3
  <1> QED BY <1>1, <1>2, <1>4 DEF Filled, Rest

LEMMA TurnClean ==
  ASSUME RegionInv, JInv, NEW ok, Turn(ok)
  PROVE  JInv'
  <1>1. open_region # NULL /\ buffer \in Seq(Clean) /\ call.data \in Seq(Clean)
    BY DEF Turn, WriteTurn, CloseTurn, TruncateTurn, RegionInv, CallHasRegion, JInv
  <1>2. ZeroSector \in Seq(Clean) /\ <<>> \in Seq(Clean)
    <2>1. ZeroSector \in [1 .. SectorSize -> Clean]
      BY DEF ZeroSector, Clean
    <2> QED BY <2>1
  <1>3. CASE WriteTurn(ok)
    <2>1. PICK b, r : b = Filled /\ r = Rest
      OBVIOUS
    <2>2. b \in Seq(Clean) /\ r \in Seq(Clean)
      BY <2>1, FilledClean
    <2>3. UNCHANGED flash \/ Flush(b, ok)
      BY <1>3, <2>1 DEF WriteTurn
    <2>4. flash' \in [Sector -> CleanSector]
      BY <1>1, <2>2, <2>3, FlushClean DEF JInv
    <2>5. buffer' \in {b, <<>>} /\ call'.data \in {r, <<>>}
      BY <1>3, <2>1 DEF WriteTurn, Idle
    <2> QED BY <1>2, <2>2, <2>4, <2>5 DEF JInv
  <1>4. CASE CloseTurn(ok) \/ TruncateTurn(ok)
    <2>1. UNCHANGED flash \/ Flush(buffer, ok)
      BY <1>4 DEF CloseTurn, TruncateTurn
    <2>2. flash' \in [Sector -> CleanSector]
      BY <1>1, <2>1, FlushClean DEF JInv
    <2>3. buffer' \in {buffer, ZeroSector} /\ call'.data \in {call.data, <<>>}
      BY <1>4 DEF CloseTurn, TruncateTurn
    <2> QED BY <1>1, <1>2, <2>2, <2>3 DEF JInv
  <1> QED BY <1>3, <1>4 DEF Turn

LEMMA PowerLossClean ==
  ASSUME RegionInv, JInv, PowerLoss
  PROVE  JInv'
  <1>1. flash' \in [Sector -> CleanSector]
    <2>1. CASE UNCHANGED flash
      BY <2>1 DEF JInv
    <2>2. CASE \E ok \in BOOLEAN : Flush(FlushedNow, ok)
      <3>1. PICK b, ok : b = FlushedNow /\ Flush(b, ok)
        BY <2>2
      <3>2. b \in Seq(Clean)
        BY <3>1, FilledClean DEF FlushedNow, JInv
      <3>3. CASE b = <<>>
        BY <3>1, <3>3 DEF Flush, JInv
      <3>4. CASE b # <<>>
        <4>1. call.op # "none"
          BY <3>1, <3>4 DEF FlushedNow
        <4> QED BY <3>1, <3>2, <4>1, FlushClean DEF RegionInv, CallHasRegion
      <3> QED BY <3>3, <3>4
    <2> QED BY <2>1, <2>2 DEF PowerLoss
  <1>2. buffer' = <<>> /\ call'.data = <<>>
    BY DEF PowerLoss, Idle
  <1> QED BY <1>1, <1>2 DEF JInv

LEMMA StartWriteClean ==
  ASSUME SInv, JInv, StartWrite
  PROVE  JInv'
  <1>1. /\ pc = "parse" /\ state = "DATA" /\ WriteBegin(SubSeq(input, 1, WriteLen)) /\ Parsing
    BY DEF StartWrite, SInv, InStep
  <1>2. PICK j \in DOMAIN Posted : InFile(j)
    BY <1>1 DEF Parsing, Lost
  <1>3. InData(j) /\ input # <<>> /\ Fed
    BY <1>1, <1>2 DEF InFile, InName, InSize, InData, InClose, Ended, Parsing
  <1>4. PICK m, g, l, s, h, end, x, in, b :
          /\ m = WriteLen /\ g = global_pos /\ l = Len(input) /\ s = Posted[j].size /\ h = Here
          /\ end = EndOf(j) /\ x = Text /\ in = input /\ b = Bytes(j)
    OBVIOUS
  <1>5. DataPart(m, g, l, s, h, end, x, in, b)
    BY ONLY DataBytes, <1>3, <1>4, j \in DOMAIN Posted
  <1>6. in \in Seq(Token) /\ m \in 1 .. Len(in) /\ \A i \in 1 .. m : in[i] \in Clean
    BY <1>3, <1>4, <1>5 DEF Fed, DataPart, Clean
  <1>7. PICK data : data = SubSeq(in, 1, m)
    OBVIOUS
  <1>8. data \in Seq(Clean)
    <2>1. data \in Seq(Token) /\ Len(data) = m /\ m \in Nat /\ \A i \in 1 .. m : data[i] = in[i]
      BY ONLY <1>6, <1>7
    <2>2. data \in [1 .. m -> Clean]
      BY ONLY <1>6, <2>1
    <2> QED BY ONLY <2>1, <2>2
  <1>9. UNCHANGED <<flash, buffer>> /\ call'.data = data
    BY <1>1, <1>4, <1>7 DEF WriteBegin
  <1> QED BY <1>8, <1>9 DEF JInv

\* The steps that write nothing leave the bytes, or forget them.
LEMMA QuietClean ==
  ASSUME JInv, UNCHANGED flash, buffer' \in {buffer, <<>>}, call'.data \in {call.data, <<>>}
  PROVE  JInv'
  <1>1. <<>> \in Seq(Clean) /\ buffer \in Seq(Clean) /\ call.data \in Seq(Clean)
    BY DEF JInv
  <1>2. buffer' \in Seq(Clean) /\ call'.data \in Seq(Clean)
    BY ONLY <1>1, buffer' \in {buffer, <<>>}, call'.data \in {call.data, <<>>}
  <1> QED BY <1>2 DEF JInv

\* No byte of the JSON text is stored (JsonSkipped), when no request begins with a
\* packet of its header alone: the parser starts behind it, and what it writes is a
\* file's.
THEOREM UploadJsonSkipped ==
  ASSUME ~ HeaderOnly
  PROVE  Spec => []JsonSkipped
  <1>1. Init => JInv
    <2>1. BlankSector \in CleanSector
      BY DEF BlankSector, CleanSector, Clean
    <2> QED BY <2>1 DEF Init, Fresh, Reset, Idle, JInv
  <1>2. SInv /\ JInv /\ [Next]_vars => JInv'
    <2> SUFFICES ASSUME SInv, JInv, [Next]_vars PROVE JInv'
      OBVIOUS
    <2>1. CASE \/ \E files \in Upload, k \in 0 .. MaxBody : Post(files, k)
               \/ \E k \in 1 .. MaxBody : Packet(k)
               \/ Abort \/ ParseName \/ MetaTooLong \/ InvalidState \/ EndClose \/ StreamEnd
               \/ UNCHANGED vars
      BY <2>1, QuietClean DEF Post, Packet, Abort, ParseName, MetaTooLong, InvalidState, EndClose,
                              StreamEnd, vars, regionVars
    <2>2. CASE ParseSize \/ SizeRefused
      BY <2>2, QuietClean DEF ParseSize, SizeRefused, Open, OpenRefused
    <2>3. CASE StartWrite
      BY <2>3, StartWriteClean
    <2>4. CASE EndWrite
      <3>1. CASE UNCHANGED regionVars
        BY <3>1, QuietClean DEF regionVars
      <3>2. CASE CloseBegin
        <4>1. UNCHANGED <<flash, buffer>> /\ call'.data = <<>>
          BY <3>2 DEF CloseBegin, Idle
        <4> QED BY <4>1, QuietClean
      <3> QED BY <2>4, <3>1, <3>2 DEF EndWrite
    <2>5. CASE \E ok \in BOOLEAN : Chip(ok)
      BY <2>5, TurnClean DEF Chip, SInv
    <2>6. CASE Reboot
      BY <2>6, QuietClean DEF Reboot, Boot, Idle
    <2>7. CASE Outage
      BY <2>7, PowerLossClean DEF Outage, SInv
    <2> QED BY <2>1, <2>2, <2>3, <2>4, <2>5, <2>6, <2>7 DEF Next, Parse
  <1>3. JInv => JsonSkipped
    BY DEF JInv, JsonSkipped, Clean, CleanSector
  <1> QED BY <1>1, <1>2, <1>3, StreamInvariance, PTL DEF Spec


-----------------------------------------------------------------------------
(* What an aborted request costs the requests behind it *)

\* A request with no excuse is in one packet, each of its files has a region and fits it,
\* and no call of the region layer fails.
Whole ==
  /\ \A i \in DOMAIN Posted : Posted[i].name \in DOMAIN Table \ {Current} /\ Fits(Posted[i])
  /\ pc = "parse" => input # <<>> /\ state \in {"NAME", "SIZE", "DATA"}
  /\ state = "NAME" => name = <<>>
  /\ state = "SIZE" => Len(name) = 1 /\ size_str = <<>>
  /\ state \in {"NAME", "SIZE"} => open_region = NULL \/ refused <= 1
  /\ pc \in {"write", "close"} => call.result

\* The first refusal ends the stream that was left behind, the second closes its region.
RInv ==
  /\ protected \subseteq {Current}
  /\ sending => excused
  /\ refused \in 0 .. 2
  /\ pc = "idle" => /\ refused # 0 => CanInit
                    /\ refused = 2 => open_region = NULL
  /\ pc # "idle" /\ ~ excused => Whole

USE MetaAssumption

LEMMA InitRInv == Init => RInv
  BY DEF Init, Fresh, Reset, RInv

\* Steps the parser, the region layer and the count take no part in.
LEMMA RestRInv ==
  ASSUME RInv, UNCHANGED <<regionVars, streamVars, input, pc, current, upload, excused, refused>>,
         sending' => sending
  PROVE  RInv'
  BY DEF RInv, Whole, CanInit, Current, Posted, Fits, regionVars, streamVars

LEMMA BootRInv ==
  ASSUME RInv, Boot
  PROVE  RInv'
  BY DEF RInv, Boot, Cleared, CanInit, historyVars

\* A packet that was accepted.
LEMMA PassesRInv ==
  ASSUME RInv, Return(TRUE), UNCHANGED protected
  PROVE  RInv'
  <1>1. /\ refused' = 0 /\ pc' = "idle" /\ UNCHANGED <<current, sending, excused>>
    BY DEF Return, ChunkEnd, clientVars
  <1> QED BY <1>1 DEF RInv, Current

\* A packet that was refused.
LEMMA FailsRInv ==
  ASSUME RInv, Return(FALSE), UNCHANGED protected,
         state' \in {"DONE", "ERROR"},
         excused \/ (refused <= 1 /\ (refused = 1 => open_region' = NULL))
  PROVE  RInv'
  <1>1. /\ pc' = "idle" /\ UNCHANGED <<current, sending, excused>>
        /\ refused' = IF excused THEN 0 ELSE refused + 1
    BY DEF Return, ChunkEnd, clientVars
  <1>2. CASE excused
    BY <1>1, <1>2 DEF RInv, Current
  <1>3. CASE ~ excused
    <2>1. refused' \in 0 .. 2 /\ (refused' = 2 => open_region' = NULL)
      BY <1>1, <1>3 DEF RInv
    <2> QED BY <1>1, <1>3, <2>1 DEF RInv, Current, CanInit
  <1> QED BY <1>2, <1>3

LEMMA ContinuesRInv ==
  ASSUME RInv, Continue, UNCHANGED protected, pc' # "idle", ~ excused => Whole'
  PROVE  RInv'
  BY DEF RInv, Continue, bootVars, clientVars, historyVars, Current

\* The files of the request stay what they are.
LEMMA FilesFit ==
  ASSUME Whole, UNCHANGED <<upload, current>>
  PROVE  \A i \in DOMAIN Posted' : Posted'[i].name \in DOMAIN Table \ {Current'} /\ Fits(Posted'[i])
  BY DEF Whole, Posted, Current, Fits

\* The name of a file ends the field it begins.
LEMMA NameLength ==
  ASSUME Fed, NEW j \in DOMAIN Posted, InName(j), name = <<>>, input # <<>>
  PROVE  Len(Field(input)) = 1
  <1>1. PICK e, x, h, in, l, f : /\ e = EndOf(j - 1) /\ x = Text /\ h = Here /\ in = input
                                 /\ l = Len(in) /\ f = Field(in)
    OBVIOUS
  <1>2. in \in Seq(Token) /\ in # <<>> /\ \A i \in 1 .. l : in[i] = x[h + i]
    BY <1>1 DEF Fed
  <1>3. l \in Nat \ {0}
    BY <1>1, <1>2
  <1>4. e \in Nat /\ x[e + 1] # Delim /\ x[e + 2] = Delim /\ h = e
    <2>1. FileAt(j)
      BY FileBegins
    <2>2. h = e
      BY <1>1 DEF InName
    <2> QED BY ONLY <1>1, <2>1, <2>2 DEF FileAt
  <1>5. in[1] # Delim /\ (l >= 2 => in[2] = Delim)
    <2>1. in[1] = x[e + 1]
      BY ONLY <1>2, <1>3, <1>4
    <2>2. l >= 2 => in[2] = x[e + 2]
      BY ONLY <1>2, <1>3, <1>4
    <2> QED BY ONLY <1>4, <2>1, <2>2
  <1>6. Splits(in, f)
    BY <1>1, <1>2, FieldSplits
  <1>7. PICK k \in 0 .. l : k = Len(f)
    BY <1>1, <1>6 DEF Splits
  <1>8. (\A i \in 1 .. k : in[i] # Delim) /\ (k < l => in[k + 1] = Delim)
    BY <1>1, <1>6, <1>7 DEF Splits
  <1>9. k # 0
    BY ONLY <1>3, <1>5, <1>8
  <1>10. ~ (k >= 2)
    BY ONLY <1>3, <1>5, <1>8, k \in 0 .. l
  <1>11. k = 1
    BY ONLY <1>3, <1>9, <1>10, k \in 0 .. l
  <1> QED BY <1>1, <1>7, <1>11

\* The size of a file ends the field it begins.
LEMMA SizeLength ==
  ASSUME Fed, NEW j \in DOMAIN Posted, InSize(j), size_str = <<>>, pc = "parse"
  PROVE  Len(Field(input)) \in Nat /\ Len(Digits(j)) \in Nat /\ Len(Field(input)) <= Len(Digits(j))
  <1>1. PICK e, x, h, in, l, f, d, w : /\ e = EndOf(j - 1) /\ x = Text /\ h = Here /\ in = input
                                       /\ l = Len(in) /\ f = Field(in) /\ d = Digits(j) /\ w = Len(d)
    OBVIOUS
  <1>2. in \in Seq(Token) /\ in # <<>> /\ \A i \in 1 .. l : in[i] = x[h + i]
    BY <1>1 DEF Fed, InSize
  <1>3. l \in Nat \ {0}
    BY <1>1, <1>2
  <1>4. e \in Nat /\ w \in Nat \ {0} /\ x[e + 3 + w] = Delim
    <2>1. FileAt(j)
      BY FileBegins
    <2> QED BY ONLY <1>1, <2>1 DEF FileAt
  <1>5. h = e + 2
    BY <1>1, <1>4 DEF InSize
  <1>6. Splits(in, f)
    BY <1>1, <1>2, FieldSplits
  <1>7. PICK k \in 0 .. l : k = Len(f)
    BY <1>1, <1>6 DEF Splits
  <1>8. \A i \in 1 .. k : in[i] # Delim
    BY <1>1, <1>6, <1>7 DEF Splits
  <1>9. k <= w
    <2> SUFFICES ASSUME ~ (k <= w) PROVE FALSE
      OBVIOUS
    <2>1. w + 1 \in 1 .. k /\ w + 1 \in 1 .. l /\ h + (w + 1) = e + 3 + w
      BY ONLY <1>3, <1>4, <1>5, k \in 0 .. l, ~ (k <= w)
    <2>2. in[w + 1] = x[h + (w + 1)]
      BY ONLY <1>2, <2>1
    <2> QED BY ONLY <1>4, <1>8, <2>1, <2>2
  <1>10. k \in Nat
    BY ONLY <1>3, k \in 0 .. l
  <1> QED BY <1>1, <1>4, <1>7, <1>9, <1>10

\* Where the parser is in a request with no excuse.
LEMMA WholeAt ==
  ASSUME UInv, SInv, RInv, pc # "idle", ~ excused
  PROVE  Fed /\ Whole /\ \E j \in DOMAIN Posted : InFile(j)
  <1>1. Parsing /\ Whole
    BY DEF SInv, InStep, RInv
  <1>2. ~ Lost
    <2>1. (state = "NAME" => Len(name) = 0) /\ (state = "SIZE" => Len(name) = 1)
      BY <1>1 DEF Whole
    <2>2. \/ state = "NAME" /\ (Len(name) = 1 \/ Len(name) = 2)
          \/ state = "SIZE" /\ Len(name) # 1
          \/ ~ Lost
      BY DEF Lost
    <2>3. PICK n : n = Len(name)
      OBVIOUS
    <2> QED BY ONLY <2>1, <2>2, <2>3
  <1> QED BY <1>1, <1>2 DEF Parsing

LEMMA MetaRInv ==
  ASSUME UInv, SInv, RInv, MetaTooLong
  PROVE  RInv'
  <1>1. pc = "parse" /\ state' = "ERROR" /\ Return(FALSE) /\ UNCHANGED protected
        /\ state \in {"NAME", "SIZE"}
    BY DEF MetaTooLong, regionVars
  <1>2. ASSUME ~ excused PROVE FALSE
    <2>1. Fed /\ Whole
      BY <1>1, <1>2, WholeAt
    <2>2. PICK j \in DOMAIN Posted : InFile(j)
      BY <1>1, <1>2, WholeAt
    <2>3. CASE state = "NAME"
      <3>1. InName(j) /\ name = <<>> /\ input # <<>>
        BY <1>1, <2>1, <2>2, <2>3 DEF Whole, InFile, InSize, InData, InClose, Ended
      <3>2. Len(Field(input)) = 1 /\ Len(name) = 0
        BY <2>1, <3>1, NameLength
      <3>3. TooLong(name, input)
        BY <2>3, <3>1 DEF MetaTooLong, Read1
      <3> QED BY <3>2, <3>3 DEF TooLong
    <2>4. CASE state = "SIZE"
      <3>1. InSize(j) /\ size_str = <<>>
        BY <1>1, <2>1, <2>2, <2>4 DEF Whole, InFile, InName, InData, InClose, Ended
      <3>2. /\ Len(Field(input)) \in Nat /\ Len(Digits(j)) \in Nat
            /\ Len(Field(input)) <= Len(Digits(j)) /\ Len(size_str) = 0
        BY <1>1, <2>1, <3>1, SizeLength
      <3>3. Len(Digits(j)) < MaxMeta
        <4>1. Posted \in Upload /\ Posted[j].name \in DOMAIN Table /\ Fits(Posted[j])
          BY <2>1 DEF Fed, Whole
        <4> QED BY <4>1 DEF Digits
      <3>4. TooLong(size_str, input)
        BY <2>4 DEF MetaTooLong
      <3> QED BY <3>2, <3>3, <3>4 DEF TooLong
    <2> QED BY <1>1, <2>3, <2>4
  <1> QED BY <1>1, <1>2, FailsRInv

LEMMA InvalidRInv ==
  ASSUME RInv, InvalidState
  PROVE  RInv'
  <1>1. pc = "parse" /\ state \in {"DONE", "ERROR"} /\ state' = state /\ Return(FALSE)
        /\ UNCHANGED protected
    BY DEF InvalidState, regionVars, streamVars
  <1>2. excused
    BY <1>1 DEF RInv, Whole
  <1> QED BY <1>1, <1>2, FailsRInv

\* A refused open closes what is open; when nothing is, nothing of a whole request is refused.
LEMMA RefusedRInv ==
  ASSUME UInv, SInv, RInv, SizeRefused
  PROVE  RInv'
  <1>1. /\ pc = "parse" /\ state = "SIZE" /\ state' = "ERROR" /\ Return(FALSE) /\ UNCHANGED protected
        /\ OpenRefused(Named(name))
    BY DEF SizeRefused, SizeField, OpenRefused
  <1>2. open_region' = NULL
    BY <1>1 DEF OpenRefused, Cleared
  <1>3. ASSUME ~ excused PROVE refused <= 1
    <2>1. Whole
      BY <1>1, <1>3, WholeAt
    <2>2. PICK j \in DOMAIN Posted : InFile(j)
      BY <1>1, <1>3, WholeAt
    <2>3. InSize(j)
      BY <1>1, <2>2 DEF InFile, InName, InData, InClose, Ended
    <2>4. Named(name) = Posted[j].name
      BY <2>3 DEF InSize, Named
    <2>5. Named(name) \in DOMAIN Table \ {Current}
      BY <2>1, <2>4 DEF Whole
    <2>6. Named(name) \in Registered /\ Named(name) \notin protected
      BY <2>5 DEF UInv, RInv, Registered
    <2>7. open_region # NULL
      BY <1>1, <2>6 DEF OpenRefused, CanOpen
    <2> QED BY <1>1, <2>1, <2>7 DEF Whole
  <1> QED BY <1>1, <1>2, <1>3, FailsRInv

\* The parser goes on behind a field only when the field has ended.
LEMMA FieldEnds ==
  ASSUME Fed, Behind(input) # <<>>
  PROVE  Found(input)
  <1>1. input \in Seq(Token)
    BY DEF Fed
  <1>2. Taken(input) # Len(input)
    BY <1>1, BehindIs
  <1> QED BY <1>2 DEF Taken

LEMMA NameRInv ==
  ASSUME UInv, SInv, RInv, ParseName
  PROVE  RInv'
  <1>1. pc = "parse" /\ state = "NAME" /\ UNCHANGED <<protected, open_region, size_str>>
    BY DEF ParseName, regionVars
  <1>2. CASE excused
    <2>1. Return(TRUE) \/ (pc' = pc /\ Continue)
      BY DEF ParseName
    <2>2. excused' = excused
      BY <2>1 DEF Return, Continue, historyVars
    <2> QED BY <1>1, <1>2, <2>1, <2>2, PassesRInv, ContinuesRInv
  <1>3. CASE ~ excused
    <2>1. Fed /\ Whole
      BY <1>1, <1>3, WholeAt
    <2>2. PICK j \in DOMAIN Posted : InFile(j)
      BY <1>1, <1>3, WholeAt
    <2>3. InName(j) /\ name = <<>> /\ input # <<>> /\ size_str = <<>>
      BY <1>1, <2>1, <2>2 DEF Whole, InFile, InName, InSize, InData, InClose, Ended
    <2>4. Len(Field(input)) = 1 /\ Field(input) \in Seq(Token)
      <3>1. input \in Seq(Token)
        BY <2>1 DEF Fed
      <3> QED BY <2>1, <2>3, <3>1, NameLength, FieldSplits DEF Splits
    <2>5. name' = name \o Field(input) /\ state' = (IF Found(input) THEN "SIZE" ELSE "NAME") /\ GoesOn
      BY <2>3 DEF ParseName, Read1, GoesOn
    <2>6. CASE Behind(input) = <<>>
      BY <1>1, <2>5, <2>6, PassesRInv DEF GoesOn
    <2>7. CASE Behind(input) # <<>>
      <3>1. input' = Behind(input) /\ pc' = "parse" /\ Continue
        BY <1>1, <2>5, <2>7 DEF GoesOn
      <3>2. state' = "SIZE"
        BY <2>1, <2>5, <2>7, FieldEnds
      <3>3. Len(name') = 1
        <4>1. name \o Field(input) = Field(input)
          BY ONLY <2>3, <2>4
        <4> QED BY <2>4, <2>5, <4>1
      <3>4. open_region' = NULL \/ refused' <= 1
        BY <1>1, <2>1, <3>1 DEF Whole, Continue, historyVars
      <3>5. Whole'
        <4>1. UNCHANGED <<upload, current>>
          BY <3>1 DEF Continue, historyVars, bootVars
        <4>2. \A i \in DOMAIN Posted' : Posted'[i].name \in DOMAIN Table \ {Current'} /\ Fits(Posted'[i])
          BY <2>1, <4>1, FilesFit
        <4> QED BY <1>1, <2>3, <2>7, <3>1, <3>2, <3>3, <3>4, <4>2 DEF Whole
      <3> QED BY <1>1, <3>1, <3>5, ContinuesRInv
    <2> QED BY <2>6, <2>7
  <1> QED BY <1>2, <1>3

LEMMA SizeRInv ==
  ASSUME UInv, SInv, RInv, ParseSize
  PROVE  RInv'
  <1>1. pc = "parse" /\ state = "SIZE" /\ UNCHANGED protected /\ GoesOn
        /\ state' = (IF Found(input) THEN "DATA" ELSE "SIZE")
    BY DEF ParseSize, SizeField, Open, GoesOn
  <1>2. CASE Behind(input) = <<>>
    BY <1>1, <1>2, PassesRInv DEF GoesOn
  <1>3. CASE Behind(input) # <<>>
    <2>1. input' = Behind(input) /\ pc' = "parse" /\ Continue
      BY <1>1, <1>3 DEF GoesOn
    <2>2. ASSUME ~ excused PROVE Whole'
      <3>1. Fed /\ Whole
        BY <1>1, <2>2, WholeAt
      <3>2. state' = "DATA"
        BY <1>1, <1>3, <3>1, FieldEnds
      <3>3. UNCHANGED <<upload, current>>
        BY <2>1 DEF Continue, historyVars, bootVars
      <3>4. \A i \in DOMAIN Posted' : Posted'[i].name \in DOMAIN Table \ {Current'} /\ Fits(Posted'[i])
        BY <3>1, <3>3, FilesFit
      <3> QED BY <1>3, <2>1, <3>2, <3>4 DEF Whole
    <2> QED BY <1>1, <2>1, <2>2, ContinuesRInv
  <1> QED BY <1>2, <1>3

LEMMA WriteRInv ==
  ASSUME UInv, SInv, RInv, StartWrite
  PROVE  RInv'
  <1>1. /\ pc = "parse" /\ state = "DATA" /\ pc' = "write" /\ state' = state /\ Continue
        /\ UNCHANGED protected /\ call'.result
    BY DEF StartWrite, WriteBegin, streamVars
  <1>2. ASSUME ~ excused PROVE Whole'
    <2>1. Whole
      BY <1>1, <1>2, WholeAt
    <2>2. UNCHANGED <<upload, current>>
      BY <1>1 DEF Continue, historyVars, bootVars
    <2>3. \A i \in DOMAIN Posted' : Posted'[i].name \in DOMAIN Table \ {Current'} /\ Fits(Posted'[i])
      BY <2>1, <2>2, FilesFit
    <2> QED BY <1>1, <2>3 DEF Whole
  <1> QED BY <1>1, <1>2, ContinuesRInv

LEMMA EndWriteRInv ==
  ASSUME UInv, SInv, RInv, EndWrite
  PROVE  RInv'
  <1>1. pc = "write" /\ call.op = "none" /\ UNCHANGED protected
    BY DEF EndWrite, CloseBegin, regionVars
  <1>2. CASE ~ call.result
    <2>1. state' = "ERROR" /\ Return(FALSE)
      BY <1>2 DEF EndWrite
    <2>2. excused
      BY <1>1, <1>2 DEF RInv, Whole
    <2> QED BY <1>1, <2>1, <2>2, FailsRInv
  <1>3. CASE call.result /\ ~ AtEnd
    BY <1>1, <1>3, PassesRInv DEF EndWrite
  <1>4. CASE call.result /\ AtEnd
    <2>1. pc' = "close" /\ state' = state /\ Continue /\ CloseBegin
      BY <1>4 DEF EndWrite
    <2>2. call'.result
      BY <2>1 DEF CloseBegin, Idle
    <2>3. ASSUME ~ excused PROVE Whole'
      <3>1. Whole
        BY <1>1, <2>3, WholeAt
      <3>2. PICK j \in DOMAIN Posted : InFile(j)
        BY <1>1, <2>3, WholeAt
      <3>3. state = "DATA"
        BY <1>1, <3>2 DEF InFile, InName, InSize, InData, InClose, Ended
      <3>4. UNCHANGED <<upload, current>>
        BY <2>1 DEF Continue, historyVars, bootVars
      <3>5. \A i \in DOMAIN Posted' : Posted'[i].name \in DOMAIN Table \ {Current'} /\ Fits(Posted'[i])
        BY <3>1, <3>4, FilesFit
      <3> QED BY <2>1, <2>2, <3>3, <3>5 DEF Whole
    <2> QED BY <1>1, <2>1, <2>3, ContinuesRInv
  <1> QED BY <1>2, <1>3, <1>4

LEMMA EndCloseRInv ==
  ASSUME UInv, SInv, RInv, EndClose
  PROVE  RInv'
  <1>1. pc = "close" /\ call.op = "none" /\ UNCHANGED <<protected, open_region>>
    BY DEF EndClose, regionVars
  <1>2. CASE ~ call.result
    <2>1. state' = "ERROR" /\ Return(FALSE)
      BY <1>2 DEF EndClose
    <2>2. excused
      BY <1>1, <1>2 DEF RInv, Whole
    <2> QED BY <1>1, <2>1, <2>2, FailsRInv
  <1>3. CASE call.result /\ input = <<>>
    <2>1. Return(TRUE)
      BY <1>3 DEF EndClose
    <2> QED BY <1>1, <2>1, PassesRInv
  <1>4. CASE call.result /\ input # <<>>
    <2>1. NewStream /\ pc' = "parse" /\ input' = input /\ Continue
      BY <1>4 DEF EndClose
    <2>2. ASSUME ~ excused PROVE Whole'
      <3>1. Whole
        BY <1>1, <2>2, WholeAt
      <3>2. PICK j \in DOMAIN Posted : InFile(j)
        BY <1>1, <2>2, WholeAt
      <3>3. open_region = NULL
        BY <1>1, <3>2 DEF InFile, InName, InSize, InData, InClose, Ended
      <3>4. UNCHANGED <<upload, current>>
        BY <2>1 DEF Continue, historyVars, bootVars
      <3>5. \A i \in DOMAIN Posted' : Posted'[i].name \in DOMAIN Table \ {Current'} /\ Fits(Posted'[i])
        BY <3>1, <3>4, FilesFit
      <3> QED BY <1>1, <1>4, <2>1, <3>3, <3>5 DEF Whole, NewStream
    <2> QED BY <1>1, <2>1, <2>2, ContinuesRInv
  <1> QED BY <1>2, <1>3, <1>4

\* A call that still has bytes of a file that fits has a sector for them.
LEMMA SectorLeft ==
  ASSUME UInv, RegionInv, open_region # NULL, NEW F, NEW n \in Nat, Delivering(F, n),
         n <= SectorSize * Table[open_region].sectors, Len(buffer) + Len(call.data) > 0
  PROVE  sector <= max_sector
  <1>1. PICK S, a, b, c, m, p, q : /\ S = SectorSize /\ a = Table[open_region].start
                                   /\ b = Table[open_region].sectors /\ c = sector /\ m = max_sector
                                   /\ p = Len(buffer) /\ q = Len(call.data)
    OBVIOUS
  <1>2. registry = Table /\ open_region \in DOMAIN Table /\ m = a + b - 1 /\ c \in Nat /\ c >= a
    BY <1>1 DEF UInv, OpenElsewhere
  <1>3. a \in Nat /\ b \in Nat /\ S \in Nat /\ S >= 2
    BY <1>1, <1>2 DEF Region
  <1>4. n = (c - a) * S + p + q
    BY <1>1, <1>2 DEF Delivering, Flushed, Start
  <1>5. p \in Nat /\ q \in Nat /\ p + q > 0
    BY <1>1 DEF RegionInv, RegionTypeOK
  <1>6. PICK d \in Nat : d = c - a
    BY <1>2, <1>3
  <1>7. d * S < S * b
    <2>1. d * S \in Nat
      BY <1>3, <1>6
    <2>2. n <= S * b
      BY <1>1
    <2>3. S * b \in Nat
      BY <1>3
    <2> QED BY ONLY <1>4, <1>5, <1>6, <2>1, <2>2, <2>3
  <1>8. d < b
    BY ONLY <1>3, <1>6, <1>7
  <1>9. c <= m
    BY ONLY <1>2, <1>3, <1>6, <1>8
  <1> QED BY <1>1, <1>9

\* Without a fault of the chip no call of a whole request fails.
LEMMA CallSucceeds ==
  ASSUME UInv, SInv, RInv, NEW ok \in BOOLEAN, Chip(ok), ~ excused, ok \/ sector > max_sector
  PROVE  call'.result
  <1>1. Turn(ok) /\ pc \in {"write", "close"} /\ Fed /\ Whole /\ RegionInv /\ call.result
    BY WholeAt DEF Chip, SInv, RInv, Whole
  <1>2. PICK j \in DOMAIN Posted : InFile(j)
    BY <1>1, WholeAt
  <1>3. open_region # NULL /\ open_region = Posted[j].name
    BY <1>1, <1>2, ChipWrites, ChipCloses
  <1>4. PICK F, g, s : F = Bytes(j) /\ g = global_pos + WriteLen /\ s = Posted[j].size
    OBVIOUS
  <1>5. s \in Nat \ {0} /\ s <= SectorSize * Table[open_region].sectors
    <2>1. FileAt(j)
      BY <1>1, FileBegins
    <2>2. Fits(Posted[j])
      BY <1>1 DEF Whole
    <2> QED BY <1>3, <1>4, <2>1, <2>2 DEF FileAt, Fits
  <1>6. buffer \in Seq(Byte) /\ call.data \in Seq(Byte)
    BY <1>1 DEF RegionInv, RegionTypeOK
  <1>7. CASE WriteTurn(ok)
    <2>1. call.op = "write"
      BY <1>7 DEF WriteTurn
    <2>2. pc = "write"
      BY <1>1, <1>2, <2>1 DEF InFile, InName, InSize, InData, InClose, Ended
    <2>3. InData(j)
      BY <1>2, <2>2 DEF InFile, InName, InSize, InClose, Ended
    <2>4. g \in Nat /\ g <= s
      <3>1. PICK m, l, h, end, x, in :
              /\ m = WriteLen /\ l = Len(input) /\ h = Here /\ end = EndOf(j) /\ x = Text /\ in = input
        OBVIOUS
      <3>2. PICK p : p = global_pos
        OBVIOUS
      <3>3. input # <<>>
        BY <2>2, <2>3 DEF InData
      <3>4. DataPart(m, p, l, s, h, end, x, in, F)
        BY ONLY DataBytes, <1>1, <1>4, <2>3, <3>1, <3>2, <3>3, j \in DOMAIN Posted
      <3>5. /\ p \in 0 .. s - 1 /\ l \in Nat \ {0} /\ s \in Nat \ {0} /\ m \in 1 .. l /\ p + m <= s
        BY ONLY <3>4 DEF DataPart
      <3>6. p + m \in Nat
        BY ONLY <3>5
      <3> QED BY <1>4, <3>1, <3>2, <3>5, <3>6
    <2>5. Delivering(F, g)
      BY <1>1, <1>4, <2>2, <2>3 DEF InData
    <2>6. CASE ok
      <3>1. \/ call' = Idle
            \/ call' = [op |-> "write", data |-> Rest, result |-> TRUE]
            \/ call' = [op |-> "none", data |-> <<>>, result |-> ok]
        BY <1>7 DEF WriteTurn
      <3> QED BY <2>6, <3>1 DEF Idle
    <2>7. CASE ~ ok
      <3>1. Len(Filled) = SectorSize
        BY <1>7, <2>7 DEF WriteTurn
      <3>2. Len(buffer) + Len(call.data) > 0
        <4>1. PICK p, q \in Nat : p = Len(buffer) /\ q = Len(call.data)
          BY <1>6
        <4>2. p + q = 0 => buffer = <<>> /\ call.data = <<>>
          BY <1>6, <4>1
        <4>3. buffer = <<>> /\ call.data = <<>> => Len(Filled) = 0
          BY DEF Filled, CopyLen, Available
        <4> QED BY <3>1, <4>1, <4>2, <4>3
      <3>3. g <= SectorSize * Table[open_region].sectors
        <4>1. PICK c : c = SectorSize * Table[open_region].sectors
          OBVIOUS
        <4>2. c \in Nat
          <5>1. Table[open_region].sectors \in Nat
            BY <1>3 DEF UInv, OpenElsewhere, Region
          <5> QED BY <4>1, <5>1
        <4> QED BY <1>5, <2>4, <4>1, <4>2
      <3>4. sector <= max_sector
        BY <1>1, <1>3, <2>4, <2>5, <3>2, <3>3, SectorLeft
      <3>5. sector \in Nat /\ max_sector \in Nat
        BY DEF UInv
      <3> QED BY <2>7, <3>4, <3>5
    <2> QED BY <2>6, <2>7
  <1>8. CASE CloseTurn(ok)
    <2>1. call.op = "close" /\ call'.result = ok /\ Flush(buffer, ok)
      BY <1>8 DEF CloseTurn
    <2>2. InClose(j)
      BY <1>1, <1>2, <2>1 DEF InFile, InName, InSize, InData, Ended, UInv, CallInRegion
    <2>3. Delivering(F, s)
      BY <1>4, <2>1, <2>2 DEF InClose
    <2>4. ASSUME ~ ok PROVE FALSE
      <3>1. buffer # <<>>
        BY <2>1, <2>4 DEF Flush
      <3>2. Len(buffer) + Len(call.data) > 0
        BY <1>6, <3>1
      <3>3. s \in Nat
        BY <1>5
      <3>4. sector <= max_sector
        BY <1>1, <1>3, <1>5, <2>3, <3>2, <3>3, SectorLeft
      <3>5. sector \in Nat /\ max_sector \in Nat
        BY DEF UInv
      <3> QED BY <2>4, <3>4, <3>5
    <2> QED BY <2>1, <2>4
  <1>9. CASE TruncateTurn(ok)
    BY <1>1, <1>9 DEF TruncateTurn
  <1> QED BY <1>1, <1>7, <1>8, <1>9 DEF Turn

LEMMA ChipRInv ==
  ASSUME UInv, SInv, RInv, NEW ok \in BOOLEAN, Chip(ok)
  PROVE  RInv'
  <1>1. /\ pc \in {"write", "close"} /\ Turn(ok)
        /\ UNCHANGED <<pc, state, name, size_str, input, refused, upload, current, sending>>
        /\ excused' = (excused \/ (~ ok /\ sector <= max_sector))
    BY DEF Chip, streamVars, chunkVars, bootVars, clientVars
  <1>2. UNCHANGED protected
    BY <1>1 DEF Turn, WriteTurn, CloseTurn, TruncateTurn
  <1>3. ASSUME ~ excused' PROVE Whole'
    <2>1. ~ excused /\ (ok \/ ~ (sector <= max_sector))
      BY <1>1, <1>3
    <2>2. ok \/ sector > max_sector
      BY <2>1 DEF UInv
    <2>3. call'.result
      BY <2>1, <2>2, CallSucceeds
    <2>4. Fed /\ Whole
      BY <1>1, <2>1, WholeAt
    <2>5. PICK j \in DOMAIN Posted : InFile(j)
      BY <1>1, <2>1, WholeAt
    <2>6. state = "DATA"
      BY <1>1, <2>5 DEF InFile, InName, InSize, InData, InClose, Ended
    <2>7. \A i \in DOMAIN Posted' : Posted'[i].name \in DOMAIN Table \ {Current'} /\ Fits(Posted'[i])
      BY <1>1, <2>4, FilesFit
    <2> QED BY <1>1, <2>3, <2>6, <2>7 DEF Whole
  <1>4. sending' => excused'
    BY <1>1 DEF RInv
  <1> QED BY <1>1, <1>2, <1>3, <1>4 DEF RInv, Current

LEMMA BodyLonger ==
  ASSUME NEW files \in Upload, NEW u \in 1 .. MaxUploads, NEW x, x = BodyOf(u, files)
  PROVE  Len(x) \in Nat /\ Len(x) > 1
  <1>1. PICK n, T : n = Len(files) /\ T = Texts(u, files)
    OBVIOUS
  <1>2. n \in Nat \ {0}
    BY ONLY TextGrows, <1>1, files \in Upload, u \in 1 .. MaxUploads
  <1>3. PICK j : j = 1
    OBVIOUS
  <1>4. PICK e, digits, bytes, s, w, end :
          /\ e = Len(T[j - 1]) /\ digits = Numeral(files[j].size) /\ bytes = FileBytes(u, files[j])
          /\ s = files[j].size /\ w = Len(digits) /\ end = Len(T[j])
    OBVIOUS
  <1>5. j \in 1 .. n
    BY ONLY <1>2, <1>3
  <1>6. LaidOut(x, files[j], digits, bytes, e, w, s, Len(T[j]), j, n)
    BY ONLY TextLaid, <1>1, <1>4, <1>5, files \in Upload, u \in 1 .. MaxUploads, x = BodyOf(u, files)
  <1>7. /\ x \in Seq(Token) /\ e \in Nat \ {0} /\ w \in Nat \ {0} /\ s \in Nat \ {0}
        /\ Len(T[j]) = e + 3 + w + s /\ Len(T[j]) <= Len(x)
    BY ONLY <1>6 DEF LaidOut
  <1>8. Len(x) \in Nat
    BY <1>7
  <1> QED BY ONLY <1>7, <1>8

LEMMA PostRInv ==
  ASSUME ~ HeaderOnly, UInv, SInv, RInv, NEW files \in Upload, NEW k \in 0 .. MaxBody, Post(files, k)
  PROVE  RInv'
  <1>1. PICK u, x : u = upload.id + 1 /\ x = BodyOf(u, files)
    OBVIOUS
  <1>2. /\ u \in 1 .. MaxUploads /\ k <= Len(x) /\ k # 0 /\ pc = "idle" /\ ~ sending
        /\ upload' = [files |-> files, id |-> u] /\ sending' = (k < Len(x))
        /\ protected' = Guarded /\ UNCHANGED <<open_region, current>>
        /\ excused' = ~ /\ k = Len(x)
                        /\ \A i \in DOMAIN files :
                             files[i].name \in DOMAIN Table \ {Current} /\ Fits(files[i])
    BY <1>1 DEF Post, SInv
  <1>3. Chunk(SubSeq(x, 1, k), TRUE, k = Len(x))
    <2>1. Starts(0)
      BY DEF Starts
    <2>2. Chunk(SubSeq(x, 1, k), Starts(0), k = Len(x))
      BY <1>1, <1>2 DEF Post
    <2> QED BY ONLY <2>1, <2>2 DEF Chunk
  <1>4. PICK in, rest : in = Tail(SubSeq(x, 1, k)) /\ rest = SubSeq(x, k + 1, Len(x))
    OBVIOUS
  <1>10. k \in Nat \ {0}
    BY <1>2
  <1>5. FirstPacket(in, rest, x, k)
    BY ONLY PostFed, <1>1, <1>2, <1>4, <1>10, files \in Upload
  <1>6. protected' \subseteq {Current'}
    <2>1. current \in 1 .. 2 /\ protected \subseteq {Current}
      BY DEF UInv, RInv
    <2> QED BY <1>2, <2>1 DEF Guarded, Current
  <1>7. sending' => excused'
    <2>1. Len(x) \in Nat
      BY <1>5 DEF FirstPacket
    <2>2. k < Len(x) => k # Len(x)
      BY ONLY <1>10, <2>1
    <2>3. sending' => k # Len(x)
      BY ONLY <1>2, <2>2, Zenon
    <2> QED BY <1>2, <2>3
  <1>8. CASE CanInit
    <2>1. NewStream /\ input' = in /\ pc' = "parse" /\ UNCHANGED refused
      BY <1>3, <1>4, <1>8 DEF Chunk
    <2>2. ASSUME ~ excused' PROVE Whole'
      <3>1. /\ k = Len(x)
            /\ \A i \in DOMAIN files : files[i].name \in DOMAIN Table \ {Current} /\ Fits(files[i])
        BY <1>2, <2>2
      <3>2. Posted' = files /\ Current' = Current
        BY <1>2 DEF Posted, Current
      <3>3. \A i \in DOMAIN Posted' : Posted'[i].name \in DOMAIN Table \ {Current'} /\ Fits(Posted'[i])
        BY <3>1, <3>2 DEF Fits
      <3>4. in # <<>>
        <4>1. /\ in \in Seq(Token) /\ Len(in) = k - 1 /\ Len(x) \in Nat
          BY <1>5 DEF FirstPacket
        <4>2. Len(x) > 1
          BY <1>1, <1>2, BodyLonger
        <4> QED BY <3>1, <4>1, <4>2
      <3> QED BY <1>2, <2>1, <3>3, <3>4 DEF Whole, NewStream, RInv
    <2> QED BY <1>6, <1>7, <2>1, <2>2 DEF RInv
  <1>9. CASE ~ CanInit
    <2>1. /\ ChunkEnd(FALSE, k = Len(x)) /\ state' = "ERROR"
      BY <1>3, <1>9 DEF Chunk
    <2>2. pc' = "idle" /\ refused' = (IF excused' THEN 0 ELSE refused + 1) /\ refused = 0
      BY <1>2, <1>9, <2>1 DEF ChunkEnd, RInv
    <2> QED BY <1>6, <1>7, <2>1, <2>2 DEF RInv, CanInit
  <1> QED BY <1>8, <1>9

LEMMA PacketRInv ==
  ASSUME RInv, NEW k \in 1 .. MaxBody, Packet(k)
  PROVE  RInv'
  <1>1. /\ pc = "idle" /\ excused /\ UNCHANGED <<protected, open_region, current, excused>>
        /\ Chunk(SubSeq(body, 1, k), Starts(1), k = Len(body))
    BY DEF Packet, RInv, regionVars
  <1>2. \/ pc' = "parse" /\ UNCHANGED refused
        \/ pc' = "idle" /\ refused' = 0
    <2>1. (pc' = "parse" /\ UNCHANGED refused) \/ ChunkEnd(FALSE, k = Len(body))
      BY <1>1 DEF Chunk
    <2> QED BY <1>1, <2>1 DEF ChunkEnd
  <1> QED BY <1>1, <1>2 DEF RInv, Current

LEMMA RefusalInvariance ==
  ASSUME ~ HeaderOnly
  PROVE  Spec => []RInv
  <1>1. Init => RInv
    BY InitRInv
  <1>2. UInv /\ SInv /\ RInv /\ [Next]_vars => RInv'
    <2> SUFFICES ASSUME UInv, SInv, RInv, [Next]_vars PROVE RInv'
      OBVIOUS
    <2>1. CASE \E files \in Upload, k \in 0 .. MaxBody : Post(files, k)
      BY <2>1, PostRInv
    <2>2. CASE \E k \in 1 .. MaxBody : Packet(k)
      BY <2>2, PacketRInv
    <2>3. CASE Abort
      BY <2>3, RestRInv DEF Abort, bootVars, historyVars
    <2>4. CASE ParseName
      BY <2>4, NameRInv
    <2>5. CASE ParseSize
      BY <2>5, SizeRInv
    <2>6. CASE MetaTooLong
      BY <2>6, MetaRInv
    <2>7. CASE SizeRefused
      BY <2>7, RefusedRInv
    <2>8. CASE InvalidState
      BY <2>8, InvalidRInv
    <2>9. CASE StartWrite
      BY <2>9, WriteRInv
    <2>10. CASE EndWrite
      BY <2>10, EndWriteRInv
    <2>11. CASE EndClose
      BY <2>11, EndCloseRInv
    <2>12. CASE \E ok \in BOOLEAN : Chip(ok)
      BY <2>12, ChipRInv
    <2>13. CASE StreamEnd
      BY <2>13, RestRInv DEF StreamEnd, clientVars, historyVars
    <2>14. CASE Reboot \/ Outage
      BY <2>14, BootRInv DEF Reboot, Outage
    <2>15. CASE UNCHANGED vars
      BY <2>15, RestRInv DEF vars, bootVars, clientVars, historyVars
    <2> QED BY <2>1, <2>2, <2>3, <2>4, <2>5, <2>6, <2>7, <2>8, <2>9, <2>10, <2>11, <2>12, <2>13,
               <2>14, <2>15 DEF Next, Parse
  <1> QED BY <1>1, <1>2, UploadInvariance, StreamInvariance, PTL DEF Spec

\* However a request was cut off, and whatever the stream and the region layer were left
\* with, at most two good requests are refused before one goes through (RecoversAfterTwo):
\* the first ends the stream, the second closes the region.
THEOREM UploadRecovers ==
  ASSUME ~ HeaderOnly
  PROVE  Spec => []RecoversAfterTwo
  <1>1. RInv => RecoversAfterTwo
    BY DEF RInv, RecoversAfterTwo
  <1> QED BY <1>1, RefusalInvariance, PTL
============================================================================
