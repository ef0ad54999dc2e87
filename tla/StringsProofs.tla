---------------------------- MODULE StringsProofs ----------------------------
(***************************************************************************)
(* The tokens of strtokc, put together, are the string, for every string,  *)
(* every block and every separator that each call is given; and copies     *)
(* stay inside their blocks.                                               *)
(***************************************************************************)
EXTENDS Strings, SequenceTheorems, Induction

Strs == Seq(Int \ {NUL})

\* Blocks hold bytes, and the byte behind a block is the footer's.
Contents ==
  /\ mem = [b \in Blocks |-> mem[b]]
  /\ \A b \in Blocks : mem[b] \in [0 .. Capacity[b] -> Int] /\ mem[b][Capacity[b]] = NUL

\* The string T lies at index a of a block of these bytes, with its NUL.
Lies(bytes, a, T) ==
  /\ \A i \in 1 .. Len(T) : bytes[a + i - 1] = T[i]
  /\ bytes[a + Len(T)] = NUL

texts(ts) == [i \in DOMAIN ts |-> ts[i].text]

\* What the tokens ts make together.
together(ts) == FlattenSeq(texts(ts))

covered == together(tokens)

\* c is the front of T.
Begins(c, T) ==
  /\ c \in Strs /\ Len(c) <= Len(T)
  /\ \A i \in 1 .. Len(c) : c[i] = T[i]

Tokens == [ch : Separators, text : Strs]

\* A token as strtokc cuts it.
TokenShape(x) ==
  /\ x \in Tokens /\ x.text # <<>>
  /\ \A k \in 2 .. Len(x.text) : x.text[k] # x.ch

\* The bytes of the block that is split, as they were before the last cut.
healed(b) == IF at_end THEN mem[b] ELSE [mem[b] EXCEPT ![prev.at] = missing_char]

\* strtokc works on the string T at index a of block b.
Works(b, a, T) ==
  /\ b \in held /\ a \in Nat /\ T \in Strs /\ a + Len(T) <= Capacity[b]
  /\ Lies(healed(b), a, T)
  /\ tokens \in Seq(Tokens) /\ tokens # <<>>
  /\ \A i \in DOMAIN tokens : TokenShape(tokens[i])
  /\ Begins(covered, T) /\ covered # <<>>
  /\ at_end <=> Len(covered) = Len(T)
  /\ ~at_end => prev = Ptr(b, a + Len(covered)) /\ mem[b][prev.at] = NUL

Splitting ==
  split # NULL =>
    \E b \in held, a \in Nat, T \in Strs :
      split = [start |-> Ptr(b, a), text |-> T] /\ Works(b, a, T)

\* The last copy lies in a block of its own.
Copied ==
  dup # NULL =>
    /\ dup \in [copy : [block : held, at : {0}], text : Strs]
    /\ Len(dup.text) <= Capacity[dup.copy.block]
    /\ \A i \in 1 .. Len(dup.text) : mem[dup.copy.block][i - 1] = dup.text[i]
    /\ split # NULL => split.start.block # dup.copy.block

Cursor ==
  /\ held \subseteq Blocks /\ at_end \in BOOLEAN
  /\ prev = NULL => at_end
  /\ prev # NULL => /\ prev \in [block : Blocks, at : Nat]
                    /\ prev.at < Capacity[prev.block]

StringsInv == Contents /\ Cursor /\ Splitting /\ Copied
-----------------------------------------------------------------------------
(* The search for a character                                              *)

\* e is the first index from k on whose byte is one of stop.
FirstOf(bytes, k, stop, e) ==
  e >= k /\ bytes[e] \in stop /\ \A i \in k .. e - 1 : bytes[i] \notin stop

\* The search ends no later than at any byte it would stop at.
LEMMA ScanFinds ==
  ASSUME NEW C \in Nat, NEW bytes \in [0 .. C -> Int], NEW stop,
         NEW k \in Nat, NEW m \in 0 .. C, k <= m, bytes[m] \in stop
  PROVE  scan(bytes, k, stop) \in k .. m /\ FirstOf(bytes, k, stop, scan(bytes, k, stop))
<1> DEFINE T == {i \in k .. m : bytes[i] \in stop}
<1>1. T \in SUBSET Nat /\ m \in T OBVIOUS
<1> HIDE DEF T
<1>2. PICK e \in T : \A i \in T : e <= i BY <1>1, LeastMember
<1>3. e \in 0 .. C /\ e \in k .. m /\ bytes[e] \in stop BY DEF T
<1>4. FirstOf(bytes, k, stop, e) BY <1>2, <1>3 DEF T, FirstOf
<1>5. scan(bytes, k, stop) = CHOOSE x \in 0 .. C : FirstOf(bytes, k, stop, x)
  BY DEF scan, FirstOf
<1> DEFINE s == CHOOSE x \in 0 .. C : FirstOf(bytes, k, stop, x)
<1>6. s \in 0 .. C /\ FirstOf(bytes, k, stop, s) BY <1>3, <1>4
<1> HIDE DEF s
<1>7. s <= m BY <1>6 DEF FirstOf
<1>8. s \in k .. m BY <1>6, <1>7 DEF FirstOf
<1> QED BY <1>5, <1>6, <1>8 DEF s

\* There is only one first such byte.
LEMMA ScanIs ==
  ASSUME NEW C \in Nat, NEW bytes \in [0 .. C -> Int], NEW stop,
         NEW k \in Nat, NEW e \in 0 .. C, FirstOf(bytes, k, stop, e)
  PROVE  scan(bytes, k, stop) = e
<1>1. k <= e /\ bytes[e] \in stop BY DEF FirstOf
<1> DEFINE s == scan(bytes, k, stop)
<1> HIDE DEF s
<1>2. s \in k .. e /\ FirstOf(bytes, k, stop, s) BY <1>1, ScanFinds DEF s
<1> QED BY <1>2 DEF FirstOf, s

-----------------------------------------------------------------------------
(* Strings in memory                                                       *)

\* The string at p, up to its NUL, which the byte behind the block is at the latest.
LEMMA StringLies ==
  ASSUME StringConstants, Contents, NEW b \in Blocks, NEW k \in 0 .. Capacity[b]
  PROVE  LET s == string(Ptr(b, k))
         IN  /\ s \in Strs /\ k + Len(s) <= Capacity[b]
             /\ Lies(mem[b], k, s)
             /\ mem[b][k] # NUL => s # <<>>
<1> DEFINE C == Capacity[b]
           bytes == mem[b]
           e == scan(bytes, k, {NUL})
           s == string(Ptr(b, k))
<1>1. C \in Nat /\ bytes \in [0 .. C -> Int] /\ bytes[C] \in {NUL}
  BY DEF Contents, StringConstants
<1>2. e \in k .. C /\ FirstOf(bytes, k, {NUL}, e)
  <2> HIDE DEF C, bytes, e
  <2>1. k \in Nat /\ k <= C /\ C \in 0 .. C BY <1>1 DEF C
  <2> QED BY <1>1, <2>1, ScanFinds DEF e
<1>3. s = [i \in 1 .. e - k |-> bytes[k + i - 1]]
  BY DEF string, strlen, Ptr
<1> HIDE DEF C, bytes, e, s
<1>4. ASSUME NEW i \in 1 .. e - k PROVE bytes[k + i - 1] \in Int \ {NUL}
  <2>1. k + i - 1 \in k .. e - 1 /\ k + i - 1 \in 0 .. C BY <1>1, <1>2 DEF C
  <2>2. bytes[k + i - 1] \in Int BY <1>1, <2>1
  <2>3. bytes[k + i - 1] \notin {NUL} BY <1>2, <2>1 DEF FirstOf
  <2> QED BY <2>2, <2>3
<1>5. e - k \in Nat BY <1>1, <1>2 DEF C
<1>6. s \in Strs /\ Len(s) = e - k /\ \A i \in 1 .. e - k : s[i] = bytes[k + i - 1]
  <2> DEFINE l == e - k
  <2>1. l \in Nat /\ s = [i \in 1 .. l |-> bytes[k + i - 1]] BY <1>3, <1>5
  <2>2. \A i \in 1 .. l : bytes[k + i - 1] \in Int \ {NUL} BY <1>4
  <2> DEFINE v(i) == bytes[k + i - 1]
  <2> HIDE DEF l, v
  <2>3. s \in [1 .. l -> Int \ {NUL}] /\ \A i \in 1 .. l : s[i] = bytes[k + i - 1]
    <3>1. s = [i \in 1 .. l |-> v(i)] BY <2>1 DEF v
    <3>2. \A i \in 1 .. l : v(i) \in Int \ {NUL} BY <2>2 DEF v
    <3>3. s \in [1 .. l -> Int \ {NUL}] /\ \A i \in 1 .. l : s[i] = v(i) BY <3>1, <3>2
    <3> QED BY <3>3 DEF v
  <2>4. l \in Nat /\ s \in [1 .. l -> Int \ {NUL}] BY <2>1, <2>3
  <2>5. s \in Strs /\ Len(s) = l BY <2>4 DEF Strs
  <2> QED BY <2>3, <2>5 DEF l
<1>7. Lies(bytes, k, s)
  <2>1. k + Len(s) = e /\ bytes[e] = NUL BY <1>1, <1>2, <1>6 DEF FirstOf, C
  <2> QED BY <1>6, <2>1 DEF Lies
<1>8. bytes[k] # NUL => s # <<>>
  <2> SUFFICES ASSUME bytes[k] # NUL, s = <<>> PROVE FALSE OBVIOUS
  <2>1. Len(s) = 0 OBVIOUS
  <2>2. e = k BY <1>1, <1>2, <1>6, <2>1 DEF C
  <2> QED BY <1>2, <2>2 DEF FirstOf
<1>9. k + Len(s) <= C BY <1>1, <1>2, <1>6 DEF C
<1> QED BY <1>6, <1>7, <1>8, <1>9 DEF s, bytes, C

\* A string is in memory where its characters are.
LEMMA LiesAt ==
  ASSUME NEW bytes, NEW a \in Nat, NEW T \in Strs, Lies(bytes, a, T),
         NEW x \in a .. a + Len(T)
  PROVE  /\ x < a + Len(T) => bytes[x] = T[x - a + 1] /\ bytes[x] # NUL
         /\ x = a + Len(T) => bytes[x] = NUL
<1>1. Len(T) \in Nat /\ \A i \in 1 .. Len(T) : T[i] # NUL BY DEF Strs
<1>2. CASE x < a + Len(T)
  <2>1. x - a + 1 \in 1 .. Len(T) /\ a + (x - a + 1) - 1 = x BY <1>1, <1>2
  <2>2. bytes[a + (x - a + 1) - 1] = T[x - a + 1] BY <2>1 DEF Lies
  <2> QED BY <1>1, <1>2, <2>1, <2>2
<1>3. CASE x = a + Len(T) BY <1>1, <1>3 DEF Lies
<1> QED BY <1>1, <1>2, <1>3

-----------------------------------------------------------------------------
(* A cut                                                                   *)

\* x holds the characters n + 1 .. m of T.
Holds(x, T, n, m) ==
  /\ x.text \in Strs /\ Len(x.text) = m - n
  /\ \A i \in 1 .. m - n : x.text[i] = T[n + i]

\* strtokc, in block b on a string T at a, went from the n-th character to the m-th.
CutAt(b, a, T, n, m, ch, bytes, x) ==
  /\ m \in n + 1 .. Len(T)
  /\ TokenShape(x) /\ Holds(x, T, n, m)
  /\ at_end' = (m = Len(T))
  /\ m < Len(T) => /\ prev' = Ptr(b, a + m) /\ missing_char' = T[m + 1]
                   /\ mem' = [mem EXCEPT ![b] = [bytes EXCEPT ![a + m] = NUL]]
  /\ m = Len(T) => /\ UNCHANGED <<prev, missing_char>>
                   /\ mem' = [mem EXCEPT ![b] = bytes]

\* The token is what is read from its first character to the first NUL.
LEMMA TokenRead ==
  ASSUME StringConstants, NEW b \in Blocks, NEW a \in Nat, NEW T \in Strs,
         a + Len(T) <= Capacity[b], NEW bytes \in [0 .. Capacity[b] -> Int],
         Lies(bytes, a, T), NEW n \in Nat, NEW m \in n + 1 .. Len(T), NEW ch \in Separators,
         \A i \in n + 2 .. m : T[i] # ch,
         mem'[b] \in [0 .. Capacity[b] -> Int], mem'[b][a + m] = NUL,
         \A i \in a + n .. a + m - 1 : mem'[b][i] = bytes[i]
  PROVE  TokenShape(token(Ptr(b, a + n), ch)) /\ Holds(token(Ptr(b, a + n), ch), T, n, m)
<1> DEFINE C == Capacity[b]
           B == mem'[b]
           p == a + n
           e == a + m
           x == token(Ptr(b, p), ch)
<1>1. C \in Nat /\ B \in [0 .. C -> Int] /\ p \in Nat /\ e \in 0 .. C /\ p < e
      /\ Len(T) \in Nat /\ m \in Nat
  <2>1. C \in Nat /\ Len(T) \in Nat BY DEF StringConstants, Strs
  <2>2. a + Len(T) <= C /\ B \in [0 .. C -> Int] OBVIOUS
  <2> HIDE DEF C, B
  <2>3. m \in Nat /\ n + 1 <= m /\ m <= Len(T) BY <2>1
  <2>4. p \in Nat /\ p < e BY <2>3
  <2>5. e \in Nat /\ e <= C BY <2>1, <2>2, <2>3
  <2> HIDE DEF p, e
  <2>6. e \in 0 .. C BY <2>1, <2>5
  <2> QED BY <2>1, <2>2, <2>3, <2>4, <2>6
<1>2. ASSUME NEW i \in p .. e - 1
      PROVE  B[i] = T[i - a + 1] /\ B[i] # NUL
  <2>1. i \in a .. a + Len(T) /\ i < a + Len(T) BY <1>1
  <2>2. bytes[i] = T[i - a + 1] /\ bytes[i] # NUL BY <2>1, LiesAt
  <2> QED BY <2>2
<1>3. scan(B, p, {NUL}) = e
  <2>1. FirstOf(B, p, {NUL}, e) BY <1>1, <1>2 DEF FirstOf
  <2> HIDE DEF C, B, p, e
  <2>2. C \in Nat /\ B \in [0 .. C -> Int] /\ p \in Nat /\ e \in 0 .. C BY <1>1
  <2> QED BY <2>1, <2>2, ScanIs
<1>4. x = [ch |-> ch, text |-> [i \in 1 .. e - p |-> B[p + i - 1]]]
  BY <1>3 DEF token, Ptr
<1>5. e - p = m - n /\ m - n \in Nat BY <1>1
<1> HIDE DEF x
<1>6. ASSUME NEW i \in 1 .. m - n PROVE B[p + i - 1] = T[n + i] /\ T[n + i] \in Int \ {NUL}
  <2>1. n \in Nat /\ i \in Nat /\ 1 <= i /\ i <= m - n /\ m <= Len(T) /\ a \in Nat
    BY <1>1
  <2>2. p + i - 1 \in p .. e - 1 BY <1>1, <2>1
  <2>3. (p + i - 1) - a + 1 = n + i BY <2>1
  <2>4. n + i \in 1 .. Len(T) BY <1>1, <2>1
  <2>5. T[n + i] \in Int \ {NUL} BY <2>4 DEF Strs
  <2> QED BY <1>2, <2>2, <2>3, <2>5
<1> HIDE DEF B, p, e
<1>7. x.ch = ch /\ x.text = [i \in 1 .. m - n |-> B[p + i - 1]] BY <1>4, <1>5
<1>8. x.text \in Strs /\ Len(x.text) = m - n
  <2> DEFINE l == m - n
  <2>1. l \in Nat /\ x.text = [i \in 1 .. l |-> B[p + i - 1]] BY <1>5, <1>7
  <2>2. \A i \in 1 .. l : B[p + i - 1] \in Int \ {NUL} BY <1>6
  <2> DEFINE t == x.text
  <2> HIDE DEF l
  <2>3. l \in Nat /\ t \in [1 .. l -> Int \ {NUL}] BY <2>1, <2>2
  <2> HIDE DEF t
  <2>4. t \in Strs /\ Len(t) = l BY <2>3 DEF Strs
  <2> QED BY <2>4 DEF l, t
<1>9. \A i \in 1 .. m - n : x.text[i] = T[n + i] BY <1>6, <1>7
<1>10. x \in Tokens BY <1>4, <1>7, <1>8 DEF Tokens
<1>11. x.text # <<>>
  <2>1. Len(x.text) # 0 BY <1>1, <1>8
  <2> QED BY <2>1
<1>12. \A k \in 2 .. Len(x.text) : x.text[k] # x.ch
  <2> TAKE k \in 2 .. Len(x.text)
  <2>1. k \in 1 .. m - n /\ n + k \in n + 2 .. m BY <1>1, <1>8
  <2> QED BY <1>7, <1>9, <2>1
<1> QED BY <1>8, <1>9, <1>10, <1>11, <1>12 DEF x, p, TokenShape, Holds

\* One call: from the n-th character of T to the next separator, or to the end.
LEMMA CutEffect ==
  ASSUME StringConstants, mem = [c \in Blocks |-> mem[c]],
         NEW b \in Blocks, NEW a \in Nat, NEW T \in Strs,
         a + Len(T) <= Capacity[b], NEW bytes \in [0 .. Capacity[b] -> Int],
         Lies(bytes, a, T), NEW n \in 0 .. Len(T) - 1, NEW ch \in Separators,
         cut(bytes, Ptr(b, a + n), ch)
  PROVE  \E m \in Nat : CutAt(b, a, T, n, m, ch, bytes, token(Ptr(b, a + n), ch))
<1> DEFINE C == Capacity[b]
           k == a + n + 1
           e == scan(bytes, k, {ch, NUL})
           x == token(Ptr(b, a + n), ch)
           m == e - a
<1>1. C \in Nat /\ Len(T) \in Nat /\ k \in Nat /\ ch # NUL
  BY DEF StringConstants, Strs
<1>2. e \in k .. a + Len(T) /\ FirstOf(bytes, k, {ch, NUL}, e)
  <2>1. bytes[a + Len(T)] \in {ch, NUL} BY DEF Lies
  <2>2. k <= a + Len(T) /\ a + Len(T) \in 0 .. C BY <1>1
  <2> HIDE DEF k, C
  <2> QED BY <1>1, <2>1, <2>2, ScanFinds DEF C
<1>3. behind(Ptr(b, a + n)) = k /\ Ptr(b, a + n).block = b BY DEF behind, Ptr
<1>4. IF bytes[e] = NUL
      THEN at_end' = TRUE /\ mem' = [mem EXCEPT ![b] = bytes]
           /\ UNCHANGED <<prev, missing_char>>
      ELSE at_end' = FALSE /\ missing_char' = bytes[e] /\ prev' = Ptr(b, e)
           /\ mem' = [mem EXCEPT ![b] = [bytes EXCEPT ![e] = NUL]]
  BY <1>3 DEF cut, is_last
<1> HIDE DEF C, k, e, x
<1>5. m \in n + 1 .. Len(T) /\ a + m = e BY <1>1, <1>2 DEF k
<1>6. bytes[e] = NUL <=> m = Len(T)
  <2>1. e \in a .. a + Len(T) BY <1>1, <1>2 DEF k
  <2>2. CASE e < a + Len(T)
    <3>1. bytes[e] # NUL BY <2>1, <2>2, LiesAt
    <3>2. m # Len(T) BY <1>1, <2>1, <2>2
    <3> QED BY <3>1, <3>2
  <2>3. CASE e = a + Len(T)
    <3>1. bytes[e] = NUL BY <2>3 DEF Lies
    <3>2. m = Len(T) BY <1>1, <2>3
    <3> QED BY <3>1, <3>2
  <2> QED BY <1>1, <2>1, <2>2, <2>3
<1>7. mem'[b] \in [0 .. Capacity[b] -> Int] /\ mem'[b][e] = NUL
      /\ \A i \in a + n .. e - 1 : mem'[b][i] = bytes[i]
  <2>1. e \in 0 .. Capacity[b] BY <1>1, <1>2 DEF k, C
  <2>2. CASE bytes[e] = NUL BY <1>4, <2>2
  <2>3. CASE bytes[e] # NUL
    <3>1. mem'[b] = [bytes EXCEPT ![e] = NUL] BY <1>4, <2>3
    <3>2. \A i \in a + n .. e - 1 : i # e BY <1>1, <1>2 DEF k
    <3>3. a + n \in Nat /\ e \in Nat BY <1>1, <2>1
    <3>4. \A i \in a + n .. e - 1 : i \in 0 .. Capacity[b] BY <1>1, <2>1, <3>3 DEF C
    <3> QED BY <2>1, <3>1, <3>2, <3>4 DEF NUL
  <2> QED BY <2>2, <2>3
<1>8. \A i \in n + 2 .. m : T[i] # ch
  <2> TAKE i \in n + 2 .. m
  <2> HIDE DEF m
  <2>0. n \in Nat /\ m \in Nat /\ e = a + m /\ m <= Len(T) BY <1>1, <1>5
  <2>1. i \in 1 .. Len(T) /\ i \in Nat /\ n + 2 <= i /\ i <= m BY <1>1, <2>0
  <2>2. bytes[a + i - 1] = T[i] BY <2>1 DEF Lies
  <2>3. a + i - 1 \in k .. e - 1
    <3>1. k = a + n + 1 /\ a \in Nat BY DEF k
    <3>2. a + i - 1 \in Int /\ k <= a + i - 1 /\ a + i - 1 <= e - 1
      BY ONLY <2>0, <2>1, <3>1
    <3>3. k \in Int /\ e - 1 \in Int BY <2>0, <3>1
    <3> QED BY <3>2, <3>3
  <2>4. bytes[a + i - 1] # ch BY <1>2, <2>3 DEF FirstOf
  <2> QED BY <2>2, <2>4
<1>9. TokenShape(x) /\ Holds(x, T, n, m)
  <2> HIDE DEF m
  <2>1. n \in Nat BY <1>1
  <2>2. mem'[b][a + m] = NUL /\ \A i \in a + n .. a + m - 1 : mem'[b][i] = bytes[i]
    BY <1>5, <1>7
  <2>3. m \in n + 1 .. Len(T) /\ mem'[b] \in [0 .. Capacity[b] -> Int] BY <1>5, <1>7
  <2> QED BY <1>8, <2>1, <2>2, <2>3, TokenRead DEF x
<1>10. m < Len(T) => bytes[e] = T[m + 1]
  <2>1. e \in a .. a + Len(T) /\ e - a + 1 = m + 1 BY <1>1, <1>2 DEF k
  <2> HIDE DEF m
  <2>2. m < Len(T) => e < a + Len(T) BY <1>1, <1>5
  <2> QED BY <2>1, <2>2, LiesAt
<1>11. m \in Nat BY <1>1, <1>5
<1> HIDE DEF m
<1>12. m < Len(T) => bytes[e] # NUL BY <1>1, <1>6, <1>11
<1>13. CutAt(b, a, T, n, m, ch, bytes, x)
  <2>1. at_end' = (m = Len(T)) BY <1>4, <1>6
  <2>2. m < Len(T) => /\ prev' = Ptr(b, a + m) /\ missing_char' = T[m + 1]
                      /\ mem' = [mem EXCEPT ![b] = [bytes EXCEPT ![a + m] = NUL]]
    BY <1>4, <1>5, <1>10, <1>12
  <2>3. m = Len(T) => /\ UNCHANGED <<prev, missing_char>>
                      /\ mem' = [mem EXCEPT ![b] = bytes]
    BY <1>4, <1>6
  <2> QED BY <1>5, <1>9, <2>1, <2>2, <2>3 DEF CutAt
<1> QED BY <1>11, <1>13 DEF x

\* A cut leaves the other blocks alone, and the string where it was but for the
\* character it replaces.
CutKept(b, a, T, m) ==
  /\ Contents' /\ Cursor'
  /\ Lies(healed(b)', a, T)
  /\ \A c \in Blocks \ {b} : mem'[c] = mem[c]
  /\ ~at_end' => prev' = Ptr(b, a + m) /\ mem'[b][a + m] = NUL

LEMMA CutKeeps ==
  ASSUME StringConstants, Contents, Cursor,
         NEW b \in Blocks, NEW a \in Nat, NEW T \in Strs,
         a + Len(T) <= Capacity[b], NEW bytes \in [0 .. Capacity[b] -> Int],
         bytes[Capacity[b]] = NUL, Lies(bytes, a, T),
         NEW n \in Nat, NEW m \in Nat, NEW ch, NEW x, CutAt(b, a, T, n, m, ch, bytes, x),
         held' = held
  PROVE  CutKept(b, a, T, m)
<1>1. /\ mem = [c \in Blocks |-> mem[c]] /\ Capacity[b] \in Nat /\ Len(T) \in Nat
      /\ \A c \in Blocks : mem[c] \in [0 .. Capacity[c] -> Int] /\ mem[c][Capacity[c]] = NUL
  BY DEF Contents, StringConstants, Strs
<1>2. m <= Len(T) BY <1>1 DEF CutAt
<1>3. CASE m = Len(T)
  <2>1. at_end' = TRUE /\ UNCHANGED <<prev, missing_char>> /\ mem' = [mem EXCEPT ![b] = bytes]
    BY <1>3 DEF CutAt
  <2>2. mem' = [c \in Blocks |-> mem'[c]] /\ mem'[b] = bytes
        /\ \A c \in Blocks \ {b} : mem'[c] = mem[c]
    BY <1>1, <2>1
  <2>3. Contents' BY <1>1, <2>2 DEF Contents
  <2>4. Cursor' BY <2>1 DEF Cursor
  <2>5. Lies(healed(b)', a, T) BY <2>1, <2>2 DEF healed
  <2> QED BY <2>1, <2>2, <2>3, <2>4, <2>5 DEF CutKept
<1>4. CASE m < Len(T)
  <2> DEFINE e == a + m
             B == [bytes EXCEPT ![e] = NUL]
  <2>1. /\ at_end' = FALSE /\ prev' = Ptr(b, e) /\ missing_char' = T[m + 1]
        /\ mem' = [mem EXCEPT ![b] = B]
    <3>1. at_end' = (m = Len(T)) /\ m # Len(T) BY <1>1, <1>4 DEF CutAt
    <3>2. at_end' = FALSE BY <3>1
    <3> QED BY <1>4, <3>2 DEF CutAt
  <2>2. e \in Nat /\ e < Capacity[b] /\ e \in 0 .. Capacity[b] BY <1>1, <1>4
  <2>3. B \in [0 .. Capacity[b] -> Int] /\ B[Capacity[b]] = NUL /\ B[e] = NUL
        /\ \A i \in 0 .. Capacity[b] : i # e => B[i] = bytes[i]
    BY <1>1, <2>2 DEF NUL
  <2> HIDE DEF B, e
  <2>4. mem' = [c \in Blocks |-> mem'[c]] /\ mem'[b] = B
        /\ \A c \in Blocks \ {b} : mem'[c] = mem[c]
    BY <1>1, <2>1
  <2>5. Contents' BY <1>1, <2>3, <2>4 DEF Contents
  <2>6. prev' = [block |-> b, at |-> e] /\ prev' # NULL
    <3> DEFINE r == [block |-> b, at |-> e]
    <3>1. prev' = r BY <2>1 DEF Ptr
    <3>2. r \in [block : Blocks, at : Int] BY <2>2
    <3> HIDE DEF r
    <3>3. r # NULL BY <3>2 DEF StringConstants
    <3> QED BY <3>1, <3>3 DEF r
  <2>7. Cursor'
    <3>1. prev' \in [block : Blocks, at : Nat] BY <2>2, <2>6
    <3>2. prev'.at = e /\ prev'.block = b BY <2>6
    <3>3. held' \subseteq Blocks BY DEF Cursor
    <3>4. at_end' \in BOOLEAN BY <2>1
    <3>5. prev' # NULL /\ prev'.at < Capacity[prev'.block] BY <2>2, <2>6, <3>2
    <3> QED BY <3>1, <3>3, <3>4, <3>5 DEF Cursor
  <2> DEFINE H == [B EXCEPT ![e] = T[m + 1]]
  <2>8. healed(b)' = H
    <3>1. prev'.at = e BY <2>6
    <3>2. healed(b)' = [mem'[b] EXCEPT ![prev'.at] = missing_char'] BY <2>1 DEF healed
    <3>3. mem'[b] = B /\ missing_char' = T[m + 1] BY <2>1, <2>4
    <3> QED BY ONLY <3>1, <3>2, <3>3 DEF H
  <2>9. \A i \in 0 .. Capacity[b] : H[i] = IF i = e THEN T[m + 1] ELSE bytes[i]
    BY <2>3
  <2> HIDE DEF H
  <2>10. Lies(H, a, T)
    <3>1. ASSUME NEW i \in 1 .. Len(T) PROVE H[a + i - 1] = T[i]
      <4>1. a + i - 1 \in 0 .. Capacity[b] BY <1>1
      <4>2. bytes[a + i - 1] = T[i] BY DEF Lies
      <4>3. a + i - 1 = e => i = m + 1 BY DEF e
      <4> QED BY <2>9, <4>1, <4>2, <4>3
    <3>2. a + Len(T) \in 0 .. Capacity[b] /\ a + Len(T) # e BY <1>1, <1>4 DEF e
    <3>3. H[a + Len(T)] = NUL BY <2>9, <3>2 DEF Lies
    <3> QED BY <3>1, <3>3 DEF Lies
  <2>11. mem'[b][e] = NUL BY <2>3, <2>4
  <2> QED BY <2>1, <2>4, <2>5, <2>7, <2>8, <2>10, <2>11 DEF e, CutKept
<1> QED BY <1>1, <1>2, <1>3, <1>4

\* The tokens before, and a token from there on, make a longer front.
LEMMA FrontGrows ==
  ASSUME NEW T \in Strs, NEW c, Begins(c, T), NEW x, NEW m \in Len(c) + 1 .. Len(T),
         Holds(x, T, Len(c), m)
  PROVE  Begins(c \o x.text, T) /\ Len(c \o x.text) = m /\ c \o x.text # <<>>
<1> DEFINE t == x.text
           n == Len(c)
           d == c \o t
<1>1. c \in Seq(Int \ {NUL}) /\ t \in Seq(Int \ {NUL}) /\ n \in Nat /\ Len(t) = m - n
      /\ Len(T) \in Nat
      /\ \A i \in 1 .. n : c[i] = T[i]
  BY DEF Begins, Holds, Strs
<1>0. \A i \in 1 .. m - n : t[i] = T[n + i] BY DEF Holds
<1> HIDE DEF t
<1>2. d \in Seq(Int \ {NUL}) /\ Len(d) = n + Len(t)
      /\ \A i \in 1 .. n + Len(t) : d[i] = IF i <= n THEN c[i] ELSE t[i - n]
  BY <1>1, ConcatProperties
<1> HIDE DEF d, n
<1>3. Len(d) = m /\ m \in Nat /\ m >= n + 1 /\ m <= Len(T) BY <1>1, <1>2 DEF n
<1>4. ASSUME NEW i \in 1 .. m PROVE d[i] = T[i]
  <2>1. n + Len(t) = m BY <1>1, <1>3
  <2>2. d[i] = IF i <= n THEN c[i] ELSE t[i - n] BY <1>2, <2>1
  <2>3. CASE i <= n
    <3>1. i \in 1 .. n BY <1>1, <1>3, <2>3
    <3> QED BY <1>1, <2>2, <2>3, <3>1
  <2>4. CASE ~ (i <= n)
    <3>1. i - n \in 1 .. m - n /\ n + (i - n) = i
      <4>1. n \in Nat /\ m \in Nat BY <1>1, <1>3
      <4> QED BY <2>4, <4>1
    <3> DEFINE j == i - n
    <3>2. j \in 1 .. m - n /\ n + j = i /\ d[i] = t[j] BY <2>2, <2>4, <3>1
    <3> HIDE DEF j
    <3>3. t[j] = T[n + j] BY <1>0, <3>2
    <3> QED BY <3>2, <3>3
  <2> QED BY <2>3, <2>4
<1>5. d # <<>>
  <2>1. Len(d) # 0 BY <1>1, <1>3
  <2> QED BY <2>1
<1> QED BY <1>2, <1>3, <1>4, <1>5 DEF Begins, Strs, t, d

LEMMA TogetherOne ==
  ASSUME NEW x, TokenShape(x)
  PROVE  together(<<x>>) = x.text
<1>1. x.text \in Strs BY DEF TokenShape, Tokens
<1>2. texts(<<x>>) = <<x.text>> BY DEF texts
<1>3. FlattenSeq(<<x.text>>) = x.text BY <1>1, FlattenOne DEF Strs
<1> QED BY <1>2, <1>3 DEF together

LEMMA TogetherAppend ==
  ASSUME NEW ts \in Seq(Tokens), ts # <<>>, NEW x, TokenShape(x)
  PROVE  together(Append(ts, x)) = together(ts) \o x.text
<1> DEFINE s == texts(ts)
           t == x.text
<1>1. x \in Tokens /\ t \in Seq(Int \ {NUL}) BY DEF TokenShape, Tokens, Strs
<1>2. Len(ts) \in Nat /\ Len(ts) # 0 /\ DOMAIN ts = 1 .. Len(ts) BY EmptySeq
<1>3. \A i \in 1 .. Len(ts) : ts[i].text \in Seq(Int \ {NUL})
  <2> TAKE i \in 1 .. Len(ts)
  <2>1. ts[i] \in Tokens OBVIOUS
  <2> QED BY <2>1 DEF Tokens, Strs
<1>4. s \in Seq(Seq(Int \ {NUL})) /\ Len(s) = Len(ts)
  <2> DEFINE l == Len(ts)
  <2>1. s = [i \in 1 .. l |-> ts[i].text] /\ l \in Nat BY <1>2 DEF texts
  <2>2. s \in [1 .. l -> Seq(Int \ {NUL})] BY <1>3, <2>1
  <2> HIDE DEF s, l
  <2>3. s \in Seq(Seq(Int \ {NUL})) /\ Len(s) = l BY <2>1, <2>2
  <2> QED BY <2>3 DEF l
<1>5. s # <<>> BY <1>2, <1>4
<1>6. texts(Append(ts, x)) = Append(s, t)
  <2> DEFINE u == Append(ts, x)
             v == Append(s, t)
  <2>1. u \in Seq(Tokens) /\ Len(u) = Len(ts) + 1 /\ u[Len(ts) + 1] = x
        /\ \A i \in 1 .. Len(ts) : u[i] = ts[i]
    BY <1>1, AppendProperties
  <2> HIDE DEF s, t
  <2>2. v \in Seq(Seq(Int \ {NUL})) /\ Len(v) = Len(ts) + 1 /\ v[Len(ts) + 1] = t
        /\ \A i \in 1 .. Len(ts) : v[i] = s[i]
    BY <1>1, <1>4, AppendProperties
  <2>3. \A i \in 1 .. Len(ts) : s[i] = ts[i].text BY <1>2 DEF s, texts
  <2> HIDE DEF u, v
  <2>4. DOMAIN u = 1 .. Len(ts) + 1 BY <1>2, <2>1
  <2>5. \A i \in 1 .. Len(ts) + 1 : v[i] = u[i].text
    <3> TAKE i \in 1 .. Len(ts) + 1
    <3>1. i = Len(ts) + 1 \/ i \in 1 .. Len(ts) BY <1>2
    <3> QED BY <2>1, <2>2, <2>3, <3>1 DEF t
  <2>6. v = [i \in 1 .. Len(ts) + 1 |-> v[i]] BY <1>2, <2>2
  <2>7. texts(u) = [i \in 1 .. Len(ts) + 1 |-> u[i].text] BY <2>4 DEF texts
  <2>8. texts(u) = v BY <2>5, <2>6, <2>7
  <2> QED BY <2>8 DEF u, v
<1> HIDE DEF s, t
<1>7. FlattenSeq(Append(s, t)) = FlattenSeq(s) \o t BY <1>1, <1>4, <1>5, FlattenAppend
<1> QED BY <1>6, <1>7 DEF together, s, t

-----------------------------------------------------------------------------
(* What leaves a string or a copy alone                                    *)

LEMMA SplittingKept ==
  ASSUME Splitting, UNCHANGED <<split, tokens, prev, missing_char, at_end>>,
         split # NULL => /\ split.start.block \in held'
                         /\ mem'[split.start.block] = mem[split.start.block]
  PROVE  Splitting'
<1> SUFFICES ASSUME split # NULL
             PROVE  \E b \in held', a \in Nat, T \in Strs :
                      split' = [start |-> Ptr(b, a), text |-> T] /\ Works(b, a, T)'
  BY DEF Splitting
<1>1. PICK b \in held, a \in Nat, T \in Strs :
        split = [start |-> Ptr(b, a), text |-> T] /\ Works(b, a, T)
  BY DEF Splitting
<1>2. split.start.block = b BY <1>1 DEF Ptr
<1>3. b \in held' /\ mem'[b] = mem[b] BY <1>2
<1>4. covered' = covered BY DEF covered
<1>5. healed(b)' = healed(b) BY <1>3 DEF healed
<1>6. Works(b, a, T)' BY <1>1, <1>3, <1>4, <1>5 DEF Works
<1> QED BY <1>1, <1>3, <1>6

\* The string that is split is in a block the program holds.
LEMMA SplitHeld ==
  ASSUME Splitting, split # NULL
  PROVE  split.start.block \in held
<1>1. PICK b \in held, a \in Nat, T \in Strs : split = [start |-> Ptr(b, a), text |-> T]
  BY DEF Splitting
<1> QED BY <1>1 DEF Ptr

LEMMA LeavesKeeps ==
  ASSUME Splitting, NEW b, leaves(b), held \ {b} \subseteq held',
         \A c \in held \ {b} : mem'[c] = mem[c]
  PROVE  Splitting' /\ (split' = NULL \/ split' = split)
<1>1. CASE split # NULL /\ split.start.block = b
  <2>1. split' = NULL BY <1>1 DEF leaves
  <2> QED BY <2>1 DEF Splitting
<1>2. CASE ~ (split # NULL /\ split.start.block = b)
  <2>1. UNCHANGED <<split, tokens, prev, missing_char, at_end>> BY <1>2 DEF leaves
  <2>2. split # NULL => split.start.block \in held \ {b} BY <1>2, SplitHeld
  <2>3. Splitting' BY <2>1, <2>2, SplittingKept
  <2> QED BY <2>1, <2>3
<1> QED BY <1>1, <1>2

LEMMA CopiedKept ==
  ASSUME Copied, dup' = dup,
         dup # NULL => /\ dup.copy.block \in held'
                       /\ mem'[dup.copy.block] = mem[dup.copy.block]
                       /\ split' # NULL => split'.start.block # dup.copy.block
  PROVE  Copied'
BY DEF Copied

LEMMA ChangesKeeps ==
  ASSUME Copied, NEW b, changes(b), held \ {b} \subseteq held',
         \A c \in held \ {b} : mem'[c] = mem[c],
         split' # NULL => split'.start.block = b \/ split' = split
  PROVE  Copied'
<1>1. CASE dup # NULL /\ dup.copy.block = b
  <2>1. dup' = NULL BY <1>1 DEF changes
  <2> QED BY <2>1 DEF Copied
<1>2. CASE ~ (dup # NULL /\ dup.copy.block = b)
  <2>1. dup' = dup BY <1>2 DEF changes
  <2>2. dup # NULL => dup.copy.block \in held \ {b} BY <1>2 DEF Copied
  <2>3. dup # NULL /\ split' # NULL => split'.start.block # dup.copy.block
    BY <1>2 DEF Copied
  <2> QED BY <2>1, <2>2, <2>3, CopiedKept
<1> QED BY <1>1, <1>2

-----------------------------------------------------------------------------
(* The actions                                                             *)

LEMMA InitStrings == StringConstants /\ Init => StringsInv
<1> SUFFICES ASSUME StringConstants, Init PROVE StringsInv OBVIOUS
<1>1. Contents
  <2>1. mem = [b \in Blocks |-> [k \in 0 .. Capacity[b] |-> NUL]] BY DEF Init
  <2>2. \A b \in Blocks : Capacity[b] \in Nat BY DEF StringConstants
  <2> QED BY <2>1, <2>2 DEF Contents, NUL
<1> QED BY <1>1 DEF Init, StringsInv, Cursor, Splitting, Copied

LEMMA TakesBlockKeeps ==
  ASSUME StringsInv, NEW b \in Blocks, takes_block(b)
  PROVE  StringsInv'
<1>1. held' = held \cup {b} /\ UNCHANGED <<mem, prev, missing_char, at_end, split, tokens, dup>>
  BY DEF takes_block, malloc
<1>2. Contents' /\ Cursor' BY <1>1 DEF StringsInv, Contents, Cursor
<1>3. split # NULL => split.start.block \in held BY SplitHeld DEF StringsInv
<1>4. Splitting' BY <1>1, <1>3, SplittingKept DEF StringsInv
<1>5. dup # NULL => /\ dup.copy.block \in held
                    /\ split # NULL => split.start.block # dup.copy.block
  BY DEF StringsInv, Copied
<1>6. Copied' BY <1>1, <1>5, CopiedKept DEF StringsInv
<1> QED BY <1>2, <1>4, <1>6 DEF StringsInv

LEMMA FreeKeeps ==
  ASSUME StringsInv, NEW b \in Blocks, free(b)
  PROVE  StringsInv'
<1>1. held' = held \ {b} /\ mem' = mem /\ leaves(b) /\ changes(b)
      /\ UNCHANGED <<prev, missing_char, at_end>>
  BY DEF free, leaves
<1>2. Contents' /\ Cursor' BY <1>1 DEF StringsInv, Contents, Cursor
<1>3. Splitting' /\ (split' = NULL \/ split' = split)
  BY <1>1, LeavesKeeps DEF StringsInv
<1>4. Copied' BY <1>1, <1>3, ChangesKeeps DEF StringsInv
<1> QED BY <1>2, <1>3, <1>4 DEF StringsInv

\* A copy that ends inside the block changes nothing behind it.
LEMMA CopyInside ==
  ASSUME StringConstants, NEW b \in Blocks, NEW bytes \in [0 .. Capacity[b] -> Int],
         NEW src \in Seq(Int), Len(src) <= Capacity[b]
  PROVE  /\ strcpy(bytes, src) \in [0 .. Capacity[b] -> Int]
         /\ strcpy(bytes, src)[Capacity[b]] = bytes[Capacity[b]]
         /\ \A i \in 1 .. Len(src) : strcpy(bytes, src)[i - 1] = src[i]
<1> DEFINE C == Capacity[b]
           r == strcpy(bytes, src)
<1>1. C \in Nat /\ Len(src) \in Nat /\ \A i \in 1 .. Len(src) : src[i] \in Int
  BY DEF StringConstants
<1>2. r = [k \in 0 .. C |-> IF k < Len(src) THEN src[k + 1] ELSE bytes[k]]
  BY DEF strcpy
<1> HIDE DEF C, r
<1>3. \A k \in 0 .. C : (IF k < Len(src) THEN src[k + 1] ELSE bytes[k]) \in Int
  BY <1>1 DEF C
<1>4. r \in [0 .. C -> Int] BY <1>2, <1>3
<1>5. r[C] = bytes[C]
  <2>1. C \in 0 .. C /\ ~ (C < Len(src)) BY <1>1 DEF C
  <2> QED BY <1>2, <2>1
<1>6. \A i \in 1 .. Len(src) : r[i - 1] = src[i]
  <2> TAKE i \in 1 .. Len(src)
  <2>1. i - 1 \in 0 .. C /\ i - 1 < Len(src) /\ (i - 1) + 1 = i BY <1>1 DEF C
  <2>2. r[i - 1] = src[(i - 1) + 1] BY <1>2, <2>1
  <2> QED BY <2>1, <2>2
<1> QED BY <1>4, <1>5, <1>6 DEF C, r

LEMMA FillsKeeps ==
  ASSUME StringConstants, StringsInv, NEW b \in Blocks,
         NEW src \in Texts, NEW n \in 0 .. Capacity[b], fills(b, src, n)
  PROVE  StringsInv'
<1> DEFINE c == copied(src, n)
           s == SubSeq(src, 1, c)
           B == [strcpy(mem[b], s) EXCEPT ![c] = NUL]
<1>1. src \in Seq(Int) /\ Capacity[b] \in Nat /\ Len(src) \in Nat BY DEF StringConstants
<1>2. c \in Nat /\ c <= Len(src) /\ c < Capacity[b] BY <1>1 DEF copied, fills
<1>3. /\ mem = [d \in Blocks |-> mem[d]] /\ held \subseteq Blocks
      /\ \A d \in Blocks : mem[d] \in [0 .. Capacity[d] -> Int] /\ mem[d][Capacity[d]] = NUL
  BY DEF StringsInv, Contents, Cursor
<1>4. held' = held /\ mem' = [mem EXCEPT ![b] = B] /\ leaves(b) /\ changes(b)
      /\ UNCHANGED <<prev, missing_char, at_end>>
  BY DEF fills, strncpy, leaves
<1> HIDE DEF c
<1>5. s \in Seq(Int) /\ Len(s) = c BY <1>1, <1>2, SubSeqProperties
<1> HIDE DEF s
<1>6. B \in [0 .. Capacity[b] -> Int] /\ B[Capacity[b]] = NUL
  <2> DEFINE r == strcpy(mem[b], s)
  <2>1. mem[b] \in [0 .. Capacity[b] -> Int] /\ mem[b][Capacity[b]] = NUL BY <1>3
  <2>2. Len(s) <= Capacity[b] BY <1>1, <1>2, <1>5
  <2>3. r \in [0 .. Capacity[b] -> Int] /\ r[Capacity[b]] = NUL
    BY <1>5, <2>1, <2>2, CopyInside
  <2> HIDE DEF r
  <2>4. [r EXCEPT ![c] = NUL] \in [0 .. Capacity[b] -> Int]
        /\ [r EXCEPT ![c] = NUL][Capacity[b]] = NUL
    BY <1>1, <1>2, <2>3 DEF NUL
  <2> QED BY <2>4 DEF r
<1> HIDE DEF B
<1>7. mem' = [d \in Blocks |-> mem'[d]] /\ mem'[b] = B
      /\ \A d \in Blocks \ {b} : mem'[d] = mem[d]
  BY <1>3, <1>4
<1>8. Contents' BY <1>3, <1>6, <1>7 DEF Contents
<1>9. Cursor' BY <1>4 DEF StringsInv, Cursor
<1>10. \A d \in held \ {b} : mem'[d] = mem[d] BY <1>3, <1>7
<1>11. Splitting' /\ (split' = NULL \/ split' = split)
  BY <1>4, <1>10, LeavesKeeps DEF StringsInv
<1>12. Copied' BY <1>4, <1>10, <1>11, ChangesKeeps DEF StringsInv
<1> QED BY <1>8, <1>9, <1>11, <1>12 DEF StringsInv

LEMMA StrdupKeeps ==
  ASSUME StringConstants, StringsInv, NEW b \in Blocks,
         NEW src \in Texts \cup strings, strdup(b, src)
  PROVE  StringsInv'
<1> DEFINE B == strcpy(mem[b], src)
<1>1. /\ mem = [d \in Blocks |-> mem[d]] /\ held \subseteq Blocks
      /\ \A d \in Blocks : mem[d] \in [0 .. Capacity[d] -> Int] /\ mem[d][Capacity[d]] = NUL
  BY DEF StringsInv, Contents, Cursor
<1>2. src \in Strs
  <2>1. CASE src \in Texts BY <2>1 DEF StringConstants, Strs
  <2>2. CASE src \in strings
    <3>1. PICK d \in held : src = string(Ptr(d, 0)) BY <2>2 DEF strings
    <3>2. d \in Blocks /\ 0 \in 0 .. Capacity[d] BY <1>1, <3>1 DEF StringConstants
    <3> QED BY <3>1, <3>2, StringLies DEF StringsInv
  <2> QED BY <2>1, <2>2
<1>3. /\ b \notin held /\ Len(src) <= Capacity[b] /\ held' = held \cup {b}
      /\ mem' = [mem EXCEPT ![b] = B] /\ dup' = [copy |-> Ptr(b, 0), text |-> src]
      /\ UNCHANGED <<prev, missing_char, at_end, split, tokens>>
  BY DEF strdup, malloc, copy_len
<1>4. B \in [0 .. Capacity[b] -> Int] /\ B[Capacity[b]] = NUL
      /\ \A i \in 1 .. Len(src) : B[i - 1] = src[i]
  <2>1. src \in Seq(Int) BY <1>2 DEF Strs
  <2>2. mem[b] \in [0 .. Capacity[b] -> Int] /\ mem[b][Capacity[b]] = NUL BY <1>1
  <2> QED BY <1>3, <2>1, <2>2, CopyInside
<1> HIDE DEF B
<1>5. mem' = [d \in Blocks |-> mem'[d]] /\ mem'[b] = B
      /\ \A d \in Blocks \ {b} : mem'[d] = mem[d]
  BY <1>1, <1>3
<1>6. Contents' BY <1>1, <1>4, <1>5 DEF Contents
<1>7. Cursor' BY <1>3 DEF StringsInv, Cursor
<1>8. split # NULL => split.start.block \in held BY SplitHeld DEF StringsInv
<1>9. Splitting'
  <2>1. split # NULL => /\ split.start.block \in held'
                        /\ mem'[split.start.block] = mem[split.start.block]
    BY <1>1, <1>3, <1>5, <1>8
  <2> QED BY <1>3, <2>1, SplittingKept DEF StringsInv
<1>10. Copied'
  <2>1. dup'.copy.block = b /\ dup'.copy.at = 0 /\ dup'.text = src BY <1>3 DEF Ptr
  <2>2. dup' \in [copy : [block : held', at : {0}], text : Strs]
    BY <1>2, <1>3 DEF Ptr
  <2>3. split' # NULL => split'.start.block # b BY <1>3, <1>8
  <2> QED BY <1>3, <1>4, <1>5, <2>1, <2>2, <2>3 DEF Copied
<1> QED BY <1>6, <1>7, <1>9, <1>10 DEF StringsInv

LEMMA StrtokcKeeps ==
  ASSUME StringConstants, StringsInv, NEW b \in Blocks,
         NEW k \in 0 .. Capacity[b], NEW ch \in Separators, strtokc(b, k, ch)
  PROVE  StringsInv'
<1>0. PICK T : T = string(Ptr(b, k)) OBVIOUS
<1> DEFINE x == token(Ptr(b, k), ch)
<1>1. /\ b \in held /\ mem[b][k] # NUL /\ cut(mem[b], Ptr(b, k), ch)
      /\ split' = [start |-> Ptr(b, k), text |-> T] /\ tokens' = <<x>>
      /\ changes(b) /\ held' = held
  BY <1>0 DEF strtokc
<1>2. /\ mem = [d \in Blocks |-> mem[d]] /\ held \subseteq Blocks
      /\ mem[b] \in [0 .. Capacity[b] -> Int] /\ mem[b][Capacity[b]] = NUL
  BY DEF StringsInv, Contents, Cursor
<1>3. T \in Strs /\ k + Len(T) <= Capacity[b] /\ Lies(mem[b], k, T) /\ T # <<>>
  BY <1>0, <1>1, StringLies DEF StringsInv
<1>4. k \in Nat /\ 0 \in 0 .. Len(T) - 1 /\ k + 0 = k /\ Len(T) \in Nat
  BY <1>3, EmptySeq DEF StringConstants, Strs
<1>5. PICK m \in Nat : CutAt(b, k, T, 0, m, ch, mem[b], x)
  BY <1>1, <1>2, <1>3, <1>4, CutEffect
<1> HIDE DEF x
<1>6. /\ Contents' /\ Cursor'
      /\ Lies(healed(b)', k, T)
      /\ \A c \in Blocks \ {b} : mem'[c] = mem[c]
      /\ ~at_end' => prev' = Ptr(b, k + m) /\ mem'[b][k + m] = NUL
  <2>1. Contents /\ Cursor /\ held' = held BY <1>1 DEF StringsInv
  <2>2. k + Len(T) <= Capacity[b] /\ T \in Strs /\ Lies(mem[b], k, T) BY <1>3
  <2>3. mem[b] \in [0 .. Capacity[b] -> Int] /\ mem[b][Capacity[b]] = NUL BY <1>2
  <2>4. k \in Nat /\ 0 \in Nat BY <1>4
  <2>5. CutKept(b, k, T, m) BY <1>5, <2>1, <2>2, <2>3, <2>4, CutKeeps
  <2> QED BY <2>5 DEF CutKept
<1>7. /\ m \in 1 .. Len(T) /\ TokenShape(x) /\ Holds(x, T, 0, m) /\ at_end' = (m = Len(T))
  BY <1>5 DEF CutAt
<1>8. covered' = x.text BY <1>1, <1>7, TogetherOne DEF covered
<1>9. Begins(x.text, T) /\ Len(x.text) = m /\ x.text # <<>>
  BY <1>4, <1>7 DEF Holds, Begins, TokenShape
<1>10. Works(b, k, T)'
  <2>1. <<x>> \in Seq(Tokens) /\ <<x>> # <<>> /\ DOMAIN <<x>> = {1} /\ <<x>>[1] = x
    BY <1>7 DEF TokenShape
  <2>2. \A i \in DOMAIN tokens' : TokenShape(tokens'[i])
    BY <1>1, <1>7, <2>1
  <2>3. at_end' <=> Len(covered') = Len(T) BY <1>7, <1>8, <1>9
  <2>4. ~at_end' => prev' = Ptr(b, k + Len(covered')) /\ mem'[b][prev'.at] = NUL
    <3>1. ~at_end' => prev' = Ptr(b, k + m) /\ mem'[b][k + m] = NUL BY <1>6
    <3>2. prev' = Ptr(b, k + m) => prev'.at = k + m BY DEF Ptr
    <3> QED BY <1>8, <1>9, <3>1, <3>2
  <2>5. b \in held' /\ k \in Nat /\ T \in Strs /\ k + Len(T) <= Capacity[b]
        /\ Lies(healed(b)', k, T)
    BY <1>1, <1>3, <1>4, <1>6
  <2>6. Begins(covered', T) /\ covered' # <<>> BY <1>8, <1>9
  <2>7. tokens' \in Seq(Tokens) /\ tokens' # <<>> BY <1>1, <2>1
  <2> QED BY <2>2, <2>3, <2>4, <2>5, <2>6, <2>7 DEF Works
<1>11. Splitting' BY <1>1, <1>3, <1>4, <1>10 DEF Splitting
<1>12. split'.start.block = b BY <1>1 DEF Ptr
<1>13. Copied' BY <1>1, <1>2, <1>6, <1>12, ChangesKeeps DEF StringsInv
<1> QED BY <1>6, <1>11, <1>13 DEF StringsInv

LEMMA StrtokcAgainKeeps ==
  ASSUME StringConstants, StringsInv, NEW ch \in Separators, strtokc_again(ch)
  PROVE  StringsInv'
<1>1. /\ ~at_end /\ split # NULL /\ cut(resumed, prev, ch)
      /\ tokens' = Append(tokens, token(prev, ch)) /\ UNCHANGED <<held, split, dup>>
  BY DEF strtokc_again
<1>2. PICK b \in held, a \in Nat, T \in Strs :
        split = [start |-> Ptr(b, a), text |-> T] /\ Works(b, a, T)
  BY <1>1 DEF StringsInv, Splitting
<1> DEFINE n == Len(covered)
           x == token(Ptr(b, a + n), ch)
           B == healed(b)
<1>3. /\ mem = [d \in Blocks |-> mem[d]] /\ held \subseteq Blocks /\ b \in Blocks
      /\ mem[b] \in [0 .. Capacity[b] -> Int] /\ mem[b][Capacity[b]] = NUL
  BY DEF StringsInv, Contents, Cursor
<1>4. /\ a + Len(T) <= Capacity[b] /\ Lies(B, a, T)
      /\ tokens \in Seq(Tokens) /\ tokens # <<>>
      /\ \A i \in DOMAIN tokens : TokenShape(tokens[i])
      /\ Begins(covered, T) /\ n # Len(T)
      /\ prev = Ptr(b, a + n)
  BY <1>1, <1>2 DEF Works
<1>5. n \in 0 .. Len(T) - 1 /\ n \in Nat /\ Len(T) \in Nat
  BY <1>4 DEF Begins, Strs
<1>6. prev.block = b /\ prev.at = a + n BY <1>4 DEF Ptr
<1>7. resumed = B BY <1>1, <1>6 DEF resumed, healed
<1>8. B = [mem[b] EXCEPT ![a + n] = missing_char]
  <2>1. B = [mem[b] EXCEPT ![prev.at] = missing_char] BY <1>1 DEF healed
  <2> QED BY <1>6, <2>1
<1>9. a + n \in 0 .. Capacity[b] /\ a + n # Capacity[b] BY <1>3, <1>4, <1>5 DEF StringConstants
<1> HIDE DEF n, x, B
<1>10. B[a + n] = T[n + 1]
  <2>1. n + 1 \in 1 .. Len(T) /\ a + (n + 1) - 1 = a + n BY <1>5
  <2>2. B[a + (n + 1) - 1] = T[n + 1] BY <1>4, <2>1 DEF Lies
  <2> QED BY <2>1, <2>2
<1>11. T[n + 1] \in Int BY <1>5 DEF Strs
<1>12. B \in [0 .. Capacity[b] -> Int] /\ B[Capacity[b]] = NUL
  <2>1. missing_char \in Int BY <1>3, <1>8, <1>9, <1>10, <1>11
  <2>2. Capacity[b] \in 0 .. Capacity[b] BY <1>3 DEF StringConstants
  <2> QED BY <1>3, <1>8, <1>9, <2>1, <2>2
<1>13. cut(B, Ptr(b, a + n), ch) /\ tokens' = Append(tokens, x)
  BY <1>1, <1>4, <1>7 DEF x
<1>14. PICK m \in Nat : CutAt(b, a, T, n, m, ch, B, x)
  BY <1>3, <1>4, <1>5, <1>12, <1>13, CutEffect DEF x
<1>15. /\ Contents' /\ Cursor'
       /\ Lies(healed(b)', a, T)
       /\ \A c \in Blocks \ {b} : mem'[c] = mem[c]
       /\ ~at_end' => prev' = Ptr(b, a + m) /\ mem'[b][a + m] = NUL
  <2>1. Contents /\ Cursor /\ held' = held BY <1>1 DEF StringsInv
  <2>2. a + Len(T) <= Capacity[b] /\ Lies(B, a, T) BY <1>4
  <2>3. b \in Blocks /\ n \in Nat BY <1>3, <1>5
  <2>4. CutKept(b, a, T, m) BY <1>12, <1>14, <2>1, <2>2, <2>3, CutKeeps
  <2> QED BY <2>4 DEF CutKept
<1>16. /\ m \in n + 1 .. Len(T) /\ TokenShape(x) /\ Holds(x, T, n, m)
       /\ at_end' = (m = Len(T))
  BY <1>14 DEF CutAt
<1>17. covered' = covered \o x.text BY <1>4, <1>13, <1>16, TogetherAppend DEF covered
<1>18. Begins(covered', T) /\ Len(covered') = m /\ covered' # <<>>
  BY <1>4, <1>16, <1>17, FrontGrows DEF n
<1>19. Works(b, a, T)'
  <2>1. x \in Tokens BY <1>16 DEF TokenShape
  <2> DEFINE t == Append(tokens, x)
  <2>2. /\ t \in Seq(Tokens) /\ Len(t) = Len(tokens) + 1 /\ t[Len(tokens) + 1] = x
        /\ \A i \in 1 .. Len(tokens) : t[i] = tokens[i]
        /\ Len(tokens) \in Nat /\ DOMAIN tokens = 1 .. Len(tokens)
    BY <1>4, <2>1, AppendProperties
  <2> HIDE DEF t
  <2>3. DOMAIN t = 1 .. Len(tokens) + 1 /\ t # <<>> BY <2>2
  <2>4. \A i \in DOMAIN t : TokenShape(t[i])
    <3> TAKE i \in DOMAIN t
    <3>1. i = Len(tokens) + 1 \/ i \in DOMAIN tokens BY <2>2, <2>3
    <3> QED BY <1>4, <1>16, <2>2, <3>1
  <2>5. at_end' <=> Len(covered') = Len(T) BY <1>16, <1>18
  <2>6. ~at_end' => prev' = Ptr(b, a + Len(covered')) /\ mem'[b][prev'.at] = NUL
    BY <1>15, <1>18 DEF Ptr
  <2>7. tokens' = t BY <1>13 DEF t
  <2> QED BY <1>1, <1>4, <1>15, <1>18, <2>2, <2>3, <2>4, <2>5, <2>6, <2>7 DEF Works
<1>20. Splitting' BY <1>1, <1>2, <1>19 DEF Splitting
<1>21. Copied'
  <2>1. split.start.block = b BY <1>2 DEF Ptr
  <2>2. dup # NULL => /\ dup.copy.block \in held /\ dup.copy.block # b
                      /\ split' # NULL => split'.start.block # dup.copy.block
    BY <1>1, <2>1 DEF StringsInv, Copied
  <2>3. dup # NULL => mem'[dup.copy.block] = mem[dup.copy.block] BY <1>3, <1>15, <2>2
  <2> QED BY <1>1, <2>2, <2>3, CopiedKept DEF StringsInv
<1> QED BY <1>15, <1>20, <1>21 DEF StringsInv

LEMMA StringsStep == StringConstants /\ StringsInv /\ [Next]_vars => StringsInv'
<1> SUFFICES ASSUME StringConstants, StringsInv, [Next]_vars PROVE StringsInv' OBVIOUS
<1>1. ASSUME UNCHANGED vars PROVE StringsInv'
  <2>1. UNCHANGED <<mem, held, prev, missing_char, at_end, split, tokens, dup>>
    BY <1>1 DEF vars
  <2>2. Contents' /\ Cursor' BY <2>1 DEF StringsInv, Contents, Cursor
  <2>3. split # NULL => split.start.block \in held' BY <2>1, SplitHeld DEF StringsInv
  <2>4. Splitting' BY <2>1, <2>3, SplittingKept DEF StringsInv
  <2>5. Copied' BY <2>1, CopiedKept DEF StringsInv, Copied
  <2> QED BY <2>2, <2>4, <2>5 DEF StringsInv
<1>2. ASSUME NEW b \in Blocks, takes_block(b) PROVE StringsInv' BY <1>2, TakesBlockKeeps
<1>3. ASSUME NEW b \in Blocks, free(b) PROVE StringsInv' BY <1>3, FreeKeeps
<1>4. ASSUME NEW b \in Blocks, NEW src \in Texts, NEW n \in 0 .. Capacity[b], fills(b, src, n)
      PROVE  StringsInv'
  BY <1>4, FillsKeeps
<1>5. ASSUME NEW b \in Blocks, NEW src \in Texts \cup strings, strdup(b, src)
      PROVE  StringsInv'
  BY <1>5, StrdupKeeps
<1>6. ASSUME NEW b \in Blocks, NEW k \in 0 .. Capacity[b], NEW ch \in Separators,
             strtokc(b, k, ch)
      PROVE  StringsInv'
  BY <1>6, StrtokcKeeps
<1>7. ASSUME NEW ch \in Separators, strtokc_again(ch) PROVE StringsInv'
  BY <1>7, StrtokcAgainKeeps
<1>8. ASSUME strdup_fails \/ strtokc_done PROVE StringsInv'
  BY <1>1, <1>8 DEF strdup_fails, strtokc_done
<1> QED BY <1>1, <1>2, <1>3, <1>4, <1>5, <1>6, <1>7, <1>8 DEF Next

\* The invariant holds in every reachable state.
THEOREM StringsInvariance == Spec => []StringsInv
<1>1. StringConstants /\ Init => StringsInv BY InitStrings
<1>2. StringConstants /\ StringsInv /\ [Next]_vars => StringsInv' BY StringsStep
<1> QED BY <1>1, <1>2, StringConstants, PTL DEF Spec

-----------------------------------------------------------------------------
(* What it says                                                            *)

LEMMA SamePlace ==
  ASSUME NEW b, NEW i, NEW j
  PROVE  Ptr(b, i) = Ptr(b, j) <=> i = j
<1>1. Ptr(b, i).at = i /\ Ptr(b, j).at = j BY DEF Ptr
<1> QED BY <1>1

\* The last cut is behind the first character of the string.
LEMMA CutBehindStart ==
  ASSUME Splitting, split # NULL, ~at_end
  PROVE  prev.block = split.start.block /\ prev.at > split.start.at
<1>1. PICK b \in held, a \in Nat, T \in Strs :
        split = [start |-> Ptr(b, a), text |-> T] /\ Works(b, a, T)
  BY DEF Splitting
<1>2. prev = Ptr(b, a + Len(covered)) /\ Begins(covered, T) /\ covered # <<>> BY <1>1 DEF Works
<1>3. Len(covered) \in Nat /\ Len(covered) # 0 BY <1>2, EmptySeq DEF Begins, Strs
<1>4. split.start.block = b /\ split.start.at = a BY <1>1 DEF Ptr
<1>5. prev.block = b /\ prev.at = a + Len(covered) BY <1>2 DEF Ptr
<1>6. a + Len(covered) > a BY <1>3
<1> QED BY <1>4, <1>5, <1>6

\* Property TypeOK of Strings: strtokc cuts inside the block, and never at the
\* first character of the string.
THEOREM StringsTyped == Spec => []TypeOK
<1>1. StringsInv => TypeOK
  <2> SUFFICES ASSUME StringsInv PROVE TypeOK OBVIOUS
  <2>1. DOMAIN mem = Blocks /\ \A b \in Blocks : mem[b] \in [0 .. Capacity[b] -> Int]
    BY DEF StringsInv, Contents
  <2>2. held \subseteq Blocks /\ at_end \in BOOLEAN /\ (prev = NULL => at_end)
    BY DEF StringsInv, Cursor
  <2>3. prev # NULL => prev.block \in Blocks /\ prev.at \in 0 .. Capacity[prev.block] - 1
    <3> SUFFICES ASSUME prev # NULL PROVE prev.block \in Blocks /\ prev.at \in 0 .. Capacity[prev.block] - 1
      OBVIOUS
    <3>1. prev.block \in Blocks /\ prev.at \in Nat /\ prev.at < Capacity[prev.block]
      BY DEF StringsInv, Cursor
    <3>2. Capacity[prev.block] \in Nat BY <3>1, StringConstants DEF StringConstants
    <3> QED BY <3>1, <3>2
  <2>4. split # NULL /\ ~at_end => prev.block = split.start.block /\ prev.at > split.start.at
    BY CutBehindStart DEF StringsInv
  <2> QED BY <2>1, <2>2, <2>3, <2>4 DEF TypeOK
<1> QED BY <1>1, StringsInvariance, PTL

\* Property TextRestored of Strings: while strtokc works one character of the
\* string is changed, where it cut last, and when it is done none.
THEOREM Restored == Spec => []TextRestored
<1>1. StringsInv => TextRestored
  <2> SUFFICES ASSUME StringsInv, split # NULL, NEW i \in 1 .. Len(split.text)
               PROVE  LET p == Ptr(split.start.block, split.start.at + i - 1)
                      IN  mem[p.block][p.at] = IF ~at_end /\ p = prev THEN NUL ELSE split.text[i]
    BY DEF TextRestored
  <2>1. PICK b \in held, a \in Nat, T \in Strs :
          split = [start |-> Ptr(b, a), text |-> T] /\ Works(b, a, T)
    BY DEF StringsInv, Splitting
  <2> DEFINE j == a + i - 1
             p == Ptr(b, j)
  <2>2. split.start.block = b /\ split.start.at = a /\ split.text = T BY <2>1 DEF Ptr
  <2>3. p.block = b /\ p.at = j /\ i \in 1 .. Len(T) BY <2>2 DEF Ptr
  <2>4. healed(b)[j] = T[i] BY <2>1, <2>3 DEF Works, Lies
  <2>5. CASE at_end
    <3>1. mem[b][j] = T[i] BY <2>4, <2>5 DEF healed
    <3> QED BY <2>2, <2>3, <2>5, <3>1
  <2>6. CASE ~at_end
    <3> DEFINE e == a + Len(covered)
    <3>1. prev = Ptr(b, e) /\ mem[b][prev.at] = NUL BY <2>1, <2>6 DEF Works
    <3>2. prev.at = e BY <3>1 DEF Ptr
    <3>3. p = prev <=> j = e BY <3>1, SamePlace
    <3>4. j # e => mem[b][j] = T[i]
      <4>1. b \in Blocks /\ mem[b] \in [0 .. Capacity[b] -> Int] /\ Capacity[b] \in Nat
        BY StringConstants DEF StringsInv, Contents, Cursor, StringConstants
      <4>2. a + Len(T) <= Capacity[b] /\ Len(T) \in Nat BY <2>1 DEF Works, Strs
      <4>3. j \in 0 .. Capacity[b] BY <2>3, <4>1, <4>2
      <4>4. healed(b) = [mem[b] EXCEPT ![e] = missing_char] BY <2>6, <3>2 DEF healed
      <4> HIDE DEF j, e
      <4>5. j # e => healed(b)[j] = mem[b][j] BY <4>1, <4>3, <4>4
      <4> QED BY <2>4, <4>5
    <3>5. mem[b][e] = NUL BY <3>1, <3>2
    <3> HIDE DEF e, j
    <3>6. mem[b][j] = IF p = prev THEN NUL ELSE T[i] BY <3>3, <3>4, <3>5
    <3> QED BY <2>2, <2>3, <2>6, <3>6 DEF j
  <2> QED BY <2>5, <2>6
<1> QED BY <1>1, StringsInvariance, PTL

\* Property TokensCover of Strings: the tokens, one behind the other, are the
\* string up to where strtokc stands, and strtok_end() is true exactly when the
\* last one has been returned.
THEOREM Covered == Spec => []TokensCover
<1>1. StringsInv => TokensCover
  <2> SUFFICES ASSUME StringsInv, split # NULL PROVE TokensCover BY DEF TokensCover
  <2>1. PICK b \in held, a \in Nat, T \in Strs :
          split = [start |-> Ptr(b, a), text |-> T] /\ Works(b, a, T)
    BY DEF StringsInv, Splitting
  <2>2. split.start.block = b /\ split.start.at = a /\ split.text = T BY <2>1 DEF Ptr
  <2> DEFINE c == covered
             n == Len(c)
  <2>3. /\ c \in Strs /\ n <= Len(T) /\ \A i \in 1 .. n : c[i] = T[i]
        /\ at_end <=> n = Len(T)
        /\ ~at_end => prev = Ptr(b, a + n)
        /\ \A i \in DOMAIN tokens : TokenShape(tokens[i])
    BY <2>1 DEF Works, Begins
  <2> HIDE DEF c
  <2>4. c \in Seq(Int \ {NUL}) /\ T \in Seq(Int \ {NUL}) /\ n \in Nat /\ Len(T) \in Nat
    BY <2>3 DEF Strs
  <2>5. IsPrefix(c, T)
    <3> DEFINE u == SubSeq(c, 1, n)
               v == SubSeq(T, 1, n)
    <3>1. u \in Seq(Int \ {NUL}) /\ Len(u) = n /\ \A i \in 1 .. n : u[i] = c[i]
      BY <2>4, SubSeqProperties
    <3>2. v \in Seq(Int \ {NUL}) /\ Len(v) = n /\ \A i \in 1 .. n : v[i] = T[i]
      BY <2>3, <2>4, SubSeqProperties
    <3> HIDE DEF u, v
    <3>3. u = v BY <2>3, <2>4, <3>1, <3>2, SeqEqual
    <3> QED BY <2>3, <3>3 DEF IsPrefix, u, v
  <2>6. at_end <=> c = T
    <3>1. n = Len(T) => c = T BY <2>3, <2>4, SeqEqual
    <3> QED BY <2>3, <3>1
  <2>7. \A i \in DOMAIN tokens :
          /\ tokens[i].text # <<>>
          /\ \A k \in 2 .. Len(tokens[i].text) : tokens[i].text[k] # tokens[i].ch
    BY <2>3 DEF TokenShape
  <2>8. FlattenSeq([i \in DOMAIN tokens |-> tokens[i].text]) = c
    BY DEF c, covered, together, texts
  <2> QED BY <2>2, <2>3, <2>5, <2>6, <2>7, <2>8 DEF TokensCover
<1> QED BY <1>1, StringsInvariance, PTL

\* A string that begins like T, which holds no NUL, and is followed in memory by
\* a byte: comparing them tells that byte.
LEMMA CompareTells ==
  ASSUME NEW T \in Strs, NEW s \in Strs, Len(T) <= Len(s),
         \A i \in 1 .. Len(T) : s[i] = T[i]
  PROVE  strcmp(s, T) = char(s, Len(T) + 1)
<1> DEFINE n == Len(T)
           stops(i) == char(s, i) = NUL \/ char(T, i) = NUL \/ s[i] # T[i]
           First(i) == stops(i) /\ \A h \in 1 .. i - 1 : ~stops(h)
           k == CHOOSE i \in 1 .. Len(s) + 1 : First(i)
<1>1. n \in Nat /\ Len(s) \in Nat /\ \A i \in 1 .. n : T[i] \in Int /\ T[i] # NUL
  BY DEF Strs
<1>2. n + 1 \in 1 .. Len(s) + 1 BY <1>1
<1>3. \A i \in 1 .. n : ~stops(i)
  <2> TAKE i \in 1 .. n
  <2>1. i <= Len(s) /\ i <= n BY <1>1
  <2> QED BY <1>1, <2>1 DEF char
<1>4. stops(n + 1)
  <2>1. ~ (n + 1 <= n) BY <1>1
  <2> QED BY <2>1 DEF char
<1>5. char(T, n + 1) = NUL
  <2>1. ~ (n + 1 <= n) BY <1>1
  <2> QED BY <2>1 DEF char
<1>6. strcmp(s, T) = char(s, k) - char(T, k) BY DEF strcmp
<1> HIDE DEF stops
<1>7. First(n + 1)
  <2>1. (n + 1) - 1 = n BY <1>1
  <2> QED BY <1>3, <1>4, <2>1
<1>8. k \in 1 .. Len(s) + 1 /\ First(k) BY <1>2, <1>7
<1> HIDE DEF k
<1>9. k = n + 1
  <2>1. ~ (k \in 1 .. n) BY <1>3, <1>8
  <2>2. ~ (n + 1 \in 1 .. k - 1) BY <1>4, <1>8
  <2>3. k \in Int /\ k >= 1 BY <1>1, <1>8
  <2> QED BY <1>1, <2>1, <2>2, <2>3
<1>10. char(s, n + 1) \in Int
  <2>1. CASE n + 1 <= Len(s)
    <3>1. n + 1 \in 1 .. Len(s) BY <1>1, <2>1
    <3> QED BY <2>1, <3>1 DEF char, Strs
  <2>2. CASE ~ (n + 1 <= Len(s)) BY <2>2 DEF char, NUL
  <2> QED BY <2>1, <2>2
<1>11. char(s, n + 1) - NUL = char(s, n + 1) BY <1>10 DEF NUL
<1> QED BY <1>5, <1>6, <1>9, <1>11

\* Property CopiesInside of Strings: no function writes behind a block, and
\* strcmp of a copy by strdup with its text tells exactly the byte behind it.
THEOREM Inside == Spec => []CopiesInside
<1>1. StringsInv => CopiesInside
  <2> SUFFICES ASSUME StringsInv, dup # NULL
               PROVE  strcmp(string(dup.copy), dup.text) = mem[dup.copy.block][Len(dup.text)]
    BY DEF CopiesInside, StringsInv, Contents
  <2> DEFINE b == dup.copy.block
             T == dup.text
             s == string(dup.copy)
  <2>1. /\ b \in held /\ dup.copy = Ptr(b, 0) /\ T \in Strs /\ Len(T) <= Capacity[b]
        /\ \A i \in 1 .. Len(T) : mem[b][i - 1] = T[i]
    BY DEF StringsInv, Copied, Ptr
  <2>2. b \in Blocks /\ Capacity[b] \in Nat /\ 0 \in 0 .. Capacity[b]
        /\ mem[b] \in [0 .. Capacity[b] -> Int]
    BY <2>1, StringConstants DEF StringsInv, Contents, Cursor, StringConstants
  <2>3. s \in Strs /\ 0 + Len(s) <= Capacity[b] /\ Lies(mem[b], 0, s)
    BY <2>1, <2>2, StringConstants, StringLies DEF StringsInv
  <2> HIDE DEF b, T, s
  <2>4. Len(T) \in Nat /\ Len(s) \in Nat BY <2>1, <2>3 DEF Strs
  <2>5. \A i \in 1 .. Len(s) : mem[b][i - 1] = s[i]
    <3> TAKE i \in 1 .. Len(s)
    <3>1. mem[b][0 + i - 1] = s[i] BY <2>3 DEF Lies
    <3>2. 0 + i - 1 = i - 1 BY <2>4
    <3> QED BY <3>1, <3>2
  <2>6. mem[b][Len(s)] = NUL BY <2>3, <2>4 DEF Lies
  <2>7. Len(T) <= Len(s)
    <3> SUFFICES ASSUME Len(s) < Len(T) PROVE FALSE BY <2>4
    <3>1. Len(s) + 1 \in 1 .. Len(T) /\ (Len(s) + 1) - 1 = Len(s) BY <2>4
    <3>2. mem[b][(Len(s) + 1) - 1] = T[Len(s) + 1] BY <2>1, <3>1
    <3>3. T[Len(s) + 1] # NUL BY <2>1, <3>1 DEF Strs
    <3> QED BY <2>6, <3>1, <3>2, <3>3
  <2>8. \A i \in 1 .. Len(T) : s[i] = T[i]
    <3> TAKE i \in 1 .. Len(T)
    <3>1. i \in 1 .. Len(s) BY <2>4, <2>7
    <3> QED BY <2>1, <2>5, <3>1
  <2>9. strcmp(s, T) = char(s, Len(T) + 1) BY <2>1, <2>3, <2>7, <2>8, CompareTells
  <2>10. char(s, Len(T) + 1) = mem[b][Len(T)]
    <3>1. CASE Len(T) + 1 <= Len(s)
      <4>1. Len(T) + 1 \in 1 .. Len(s) /\ (Len(T) + 1) - 1 = Len(T) BY <2>4, <3>1
      <4>2. mem[b][(Len(T) + 1) - 1] = s[Len(T) + 1] BY <2>5, <4>1
      <4> QED BY <3>1, <4>1, <4>2 DEF char
    <3>2. CASE ~ (Len(T) + 1 <= Len(s))
      <4>1. Len(T) = Len(s) BY <2>4, <2>7, <3>2
      <4> QED BY <2>6, <3>2, <4>1 DEF char
    <3> QED BY <3>1, <3>2
  <2> QED BY <2>9, <2>10 DEF s, T, b
<1> QED BY <1>1, StringsInvariance, PTL
=============================================================================
