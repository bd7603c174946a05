---------------------------- MODULE ResponseProofs ----------------------------
(***************************************************************************)
(* Proofs about Response: header lookup finds the last line of a name, and *)
(* what the data natives write.                                            *)
(***************************************************************************)
EXTENDS Response, QueueLemmas

(***************************************************************************)
(* A header line and its parts.                                            *)
(***************************************************************************)
LineCharacters == Characters \cup {"CR", "LF"}
HeaderName(line) == tolower(SubSeq(line, 1, Delimiter(line) - 1))
HeaderValue(line) == trim(SubSeq(line, Delimiter(line) + 1, Len(line)))

\* A line is text and the line end.
LEMMA LineShape ==
    ASSUME NEW line \in HeaderLines
    PROVE  /\ line \in Seq(LineCharacters) /\ Len(line) \in Nat /\ Len(line) >= 2
           /\ line[Len(line)] = "LF" /\ line[Len(line) - 1] = "CR"
           /\ \A i \in 1..Len(line) - 2 : line[i] \in Characters
<1>1. PICK l \in BoundedSeq(Characters, MaxLine) : line = l \o LineEnd
  BY DEF HeaderLines
<1>2. PICK n \in Nat : l \in [1..n -> Characters]
  BY MaxAssumption DEF BoundedSeq, SeqOf
<1>3. l \in Seq(Characters) /\ Len(l) = n
  BY <1>2
<1>4. PICK end \in Seq(LineCharacters) :
          end = LineEnd /\ Len(end) = 2 /\ end[1] = "CR" /\ end[2] = "LF"
  <2>1. LineEnd \in Seq(LineCharacters)
    BY DEF LineEnd, LineCharacters
  <2>2. Len(LineEnd) = 2 /\ LineEnd[1] = "CR" /\ LineEnd[2] = "LF"
    BY DEF LineEnd
  <2> QED BY <2>1, <2>2
<1>5. l \in Seq(LineCharacters)
  BY <1>3 DEF LineCharacters
<1>6. /\ line \in Seq(LineCharacters) /\ Len(line) = n + 2
      /\ \A i \in 1..n + 2 : line[i] = IF i <= n THEN l[i] ELSE end[i - n]
  <2>1. line = l \o end
    BY <1>1, <1>4
  <2>2. /\ l \o end \in Seq(LineCharacters) /\ Len(l \o end) = Len(l) + Len(end)
        /\ \A i \in 1..Len(l) + Len(end) :
              (l \o end)[i] = IF i <= Len(l) THEN l[i] ELSE end[i - Len(l)]
    BY <1>5, ConcatProperties
  <2> QED BY <1>3, <1>4, <2>1, <2>2
<1>7. \A i \in 1..n : line[i] = l[i] /\ l[i] \in Characters
  BY <1>2, <1>6
<1>8. line[n + 1] = "CR" /\ line[n + 2] = "LF"
  BY <1>4, <1>6
<1> QED BY <1>6, <1>7, <1>8

\* The delimiter is the first colon, if there is one.
LEMMA DelimiterFacts ==
    ASSUME NEW line, Len(line) \in Nat
    PROVE  \/ Delimiter(line) = 0 /\ \A i \in 1..Len(line) : line[i] # ":"
           \/ /\ Delimiter(line) \in 1..Len(line) /\ line[Delimiter(line)] = ":"
              /\ \A i \in 1..Delimiter(line) - 1 : line[i] # ":"
<1> DEFINE I == {i \in 1..Len(line) : line[i] = ":"}
<1>1. Delimiter(line) = IF I # {} THEN Min(I) ELSE 0
  BY DEF Delimiter, SelectInSeq
<1>2. I \subseteq Nat
  OBVIOUS
<1>3. CASE I = {}
  BY <1>1, <1>3
<1>4. CASE I # {}
  <2>1. Min(I) \in I /\ \A y \in I : Min(I) <= y
    <3> HIDE DEF I
    <3> QED BY <1>2, <1>4, LeastMember
  <2>2. Delimiter(line) \in I /\ \A y \in I : Delimiter(line) <= y
    BY <1>1, <1>4, <2>1
  <2> QED BY <2>2
<1> QED BY <1>3, <1>4

\* Nothing is trimmed at the end of a text that ends with another character than a
\* space, as all that follow a delimiter do.
LEMMA TrimFacts ==
    ASSUME NEW S, NEW str \in Seq(S), Len(str) \in Nat, Len(str) > 0, str[Len(str)] # "SP"
    PROVE  \E first \in 1..Len(str) :
              /\ trim(str) = SubSeq(str, first, Len(str)) /\ str[first] # "SP"
              /\ \A i \in 1..first - 1 : str[i] = "SP"
<1> DEFINE I == {i \in 1..Len(str) : str[i] # "SP"}
<1>1. /\ SelectInSeq(str, LAMBDA ch : ch # "SP") = IF I # {} THEN Min(I) ELSE 0
      /\ SelectLastInSeq(str, LAMBDA ch : ch # "SP") = IF I # {} THEN Max(I) ELSE 0
  BY DEF SelectInSeq, SelectLastInSeq
<1>2. \A i : i \in I <=> i \in 1..Len(str) /\ str[i] # "SP"
  OBVIOUS
<1> HIDE DEF I
<1>3. Len(str) \in I /\ I \subseteq Nat /\ I \subseteq 0..Len(str)
  BY <1>2
<1>4. /\ Min(I) \in I /\ \A y \in I : Min(I) <= y
      /\ Max(I) \in I /\ \A y \in I : y <= Max(I)
  BY <1>3, LeastMember, GreatestMember
<1>5. Max(I) = Len(str)
  BY <1>2, <1>3, <1>4
<1>6. PICK first : first = Min(I)
  OBVIOUS
<1>7. /\ first \in 1..Len(str) /\ str[first] # "SP"
      /\ \A i \in 1..first - 1 : str[i] = "SP"
  BY <1>2, <1>4, <1>6
<1>8. trim(str) = SubSeq(str, first, Len(str))
  <2>1. I # {} /\ first # 0
    BY <1>3, <1>7
  <2> QED BY <1>1, <1>5, <1>6, <2>1 DEF trim
<1> QED BY <1>7, <1>8
\* A name is written in letters and spaces, and stored in small letters.
NameCharacters == Letters \cup {"SP"}

LEMMA LowerFacts ==
    ASSUME NEW name \in Seq(NameCharacters)
    PROVE  /\ tolower(name) \in Seq({"x", "SP"}) /\ Len(tolower(name)) = Len(name)
           /\ \A i \in 1..Len(name) :
                 tolower(name)[i] = IF name[i] = "X" THEN "x" ELSE name[i]
<1>1. /\ Len(name) \in Nat /\ DOMAIN name = 1..Len(name)
      /\ \A i \in 1..Len(name) : name[i] \in {"x", "X", "SP"}
  BY DEF NameCharacters, Letters
<1>2. tolower(name) = [i \in 1..Len(name) |-> IF name[i] = "X" THEN "x" ELSE name[i]]
  BY <1>1 DEF tolower
<1>3. tolower(name) \in [1..Len(name) -> {"x", "SP"}]
  BY <1>1, <1>2
<1>4. tolower(name) \in Seq({"x", "SP"}) /\ Len(tolower(name)) = Len(name)
  BY <1>1, <1>3
<1> QED BY <1>2, <1>4

\* The name and the value of a line, and the colon between them.
LEMMA PartsFacts ==
    ASSUME NEW line \in HeaderLines, Delimiter(line) # 0
    PROVE  LET delimiter == Delimiter(line)
               text == SubSeq(line, 1, delimiter - 1)
               rest == SubSeq(line, delimiter + 1, Len(line))
           IN  /\ delimiter \in 1..Len(line) - 2 /\ line[delimiter] = ":"
               /\ \A i \in 1..delimiter - 1 : line[i] # ":"
               /\ text \in Seq(NameCharacters) /\ Len(text) = delimiter - 1
               /\ \A i \in 1..delimiter - 1 : text[i] = line[i]
               /\ rest \in Seq(LineCharacters) /\ Len(rest) = Len(line) - delimiter
               /\ \A i \in 1..Len(line) - delimiter : rest[i] = line[delimiter + i]
<1>1. PICK d : d = Delimiter(line)
  OBVIOUS
<1>2. PICK n \in Nat : n = Len(line)
  BY LineShape
<1>3. /\ n >= 2 /\ line[n] = "LF" /\ line[n - 1] = "CR"
      /\ \A i \in 1..n - 2 : line[i] \in Characters
      /\ \A i \in 1..n : line[i] \in LineCharacters
  BY <1>2, LineShape
<1>4. d \in 1..n /\ line[d] = ":" /\ \A i \in 1..d - 1 : line[i] # ":"
  BY <1>1, <1>2, DelimiterFacts
<1>5. d \in 1..n - 2
  BY <1>3, <1>4
<1>6. \A i \in 1..d - 1 : line[i] \in NameCharacters
  BY <1>2, <1>3, <1>4, <1>5 DEF Characters, NameCharacters
<1>7. /\ SubSeq(line, 1, d - 1) \in Seq(NameCharacters)
      /\ Len(SubSeq(line, 1, d - 1)) = d - 1
      /\ \A i \in 1..d - 1 : SubSeq(line, 1, d - 1)[i] = line[i]
  BY <1>5, <1>6, SubSeqProperties
<1>8. /\ SubSeq(line, d + 1, n) \in Seq(LineCharacters)
      /\ Len(SubSeq(line, d + 1, n)) = n - d
      /\ \A i \in 1..n - d : SubSeq(line, d + 1, n)[i] = line[d + i]
  BY <1>3, <1>5, SubSeqProperties
<1> QED BY <1>1, <1>2, <1>4, <1>5, <1>7, <1>8

\* The stored value is what follows the colon and the spaces after it.
LEMMA ValueFacts ==
    ASSUME NEW line \in HeaderLines, Delimiter(line) # 0
    PROVE  /\ HeaderValue(line) \in Seq(LineCharacters)
           /\ HasValue(line, HeaderValue(line))
<1>1. PICK d : d = Delimiter(line)
  OBVIOUS
<1>2. PICK n \in Nat : n = Len(line)
  BY LineShape
<1>3. PICK rest : rest = SubSeq(line, d + 1, n)
  OBVIOUS
<1>4. d \in 1..n - 2 /\ line[d] = ":" /\ \A i \in 1..d - 1 : line[i] # ":"
  BY <1>1, <1>2, PartsFacts
<1>5. rest \in Seq(LineCharacters) /\ Len(rest) = n - d
  BY <1>1, <1>2, <1>3, PartsFacts
<1>6. \A i \in 1..n - d : rest[i] = line[d + i]
  BY <1>1, <1>2, <1>3, PartsFacts
<1>7. line[n] = "LF" /\ DOMAIN line = 1..n /\ line \in Seq(LineCharacters)
  BY <1>2, LineShape
<1>8. rest[Len(rest)] # "SP" /\ Len(rest) \in Nat /\ Len(rest) > 0
  <2>1. n - d \in 1..n - d /\ d + (n - d) = n
    BY <1>4
  <2> QED BY <1>5, <1>6, <1>7, <2>1
<1>9. PICK first \in 1..n - d : /\ trim(rest) = SubSeq(rest, first, n - d)
                               /\ rest[first] # "SP"
                               /\ \A i \in 1..first - 1 : rest[i] = "SP"
  <2>1. \E first \in 1..Len(rest) :
           /\ trim(rest) = SubSeq(rest, first, Len(rest)) /\ rest[first] # "SP"
           /\ \A i \in 1..first - 1 : rest[i] = "SP"
    BY <1>5, <1>8, TrimFacts, Zenon
  <2> QED BY <1>5, <2>1, Zenon
<1>10. HeaderValue(line) = SubSeq(rest, first, n - d)
  BY <1>1, <1>2, <1>3, <1>9, Zenon DEF HeaderValue
<1>11. \A i \in first..n - d : rest[i] \in LineCharacters
  <2>1. \A i \in first..n - d : i \in 1..Len(rest)
    BY <1>5
  <2> QED BY <1>5, <2>1, ElementOfSeq, Zenon
<1>12. SubSeq(rest, first, n - d) = SubSeq(line, d + first, n)
  <2>1. PICK p, q, l \in Nat : p = d + first /\ q = n - d /\ l = n - d - first + 1
    BY <1>4
  <2>2. p \in Int /\ q \in Int /\ first \in Int /\ n \in Int
    BY <1>4, <2>1
  <2>3. \A i \in first..q : rest[i] \in LineCharacters
    BY <1>11, <2>1
  <2>4. \A i \in p..n : line[i] \in LineCharacters
    <3>1. \A i \in p..n : i \in 1..Len(line)
      BY <1>2, <1>4, <2>1
    <3> QED BY <1>7, <3>1, ElementOfSeq, Zenon
  <2>5. /\ SubSeq(rest, first, q) \in Seq(LineCharacters)
        /\ Len(SubSeq(rest, first, q)) = IF first <= q THEN q - first + 1 ELSE 0
        /\ \A i \in 1..q - first + 1 : SubSeq(rest, first, q)[i] = rest[first + i - 1]
    BY <2>2, <2>3, SubSeqProperties
  <2>6. /\ SubSeq(line, p, n) \in Seq(LineCharacters)
        /\ Len(SubSeq(line, p, n)) = IF p <= n THEN n - p + 1 ELSE 0
        /\ \A i \in 1..n - p + 1 : SubSeq(line, p, n)[i] = line[p + i - 1]
    BY <2>2, <2>4, SubSeqProperties
  <2>7. PICK x : /\ x = SubSeq(rest, first, q) /\ x \in Seq(LineCharacters)
                 /\ Len(x) = IF first <= q THEN q - first + 1 ELSE 0
                 /\ \A i \in 1..q - first + 1 : x[i] = rest[first + i - 1]
    BY <2>5, Zenon
  <2>8. PICK y : /\ y = SubSeq(line, p, n) /\ y \in Seq(LineCharacters)
                 /\ Len(y) = IF p <= n THEN n - p + 1 ELSE 0
                 /\ \A i \in 1..n - p + 1 : y[i] = line[p + i - 1]
    BY <2>6, Zenon
  <2>9. q - first + 1 = l /\ n - p + 1 = l /\ first <= q /\ p <= n
    BY <1>4, <2>1
  <2>10. Len(x) = l /\ Len(y) = l
    BY <2>7, <2>8, <2>9
  <2>11. ASSUME NEW i \in 1..l PROVE x[i] = y[i]
    <3>1. PICK k \in 1..n - d : k = first + i - 1
      BY <1>4, <2>1
    <3>2. d + k = p + i - 1
      BY <1>4, <2>1, <3>1
    <3> QED BY <1>6, <2>7, <2>8, <2>9, <3>1, <3>2, Zenon
  <2>12. x = y
    BY <2>7, <2>8, <2>10, <2>11, SeqEqual, Zenon
  <2> QED BY <2>1, <2>7, <2>8, <2>12, Zenon
<1>13. HeaderValue(line) \in Seq(LineCharacters)
  <2>1. PICK q \in Int : q = n - d
    BY <1>4
  <2>2. first \in Int
    BY <1>4
  <2>3. SubSeq(rest, first, q) \in Seq(LineCharacters)
    BY <1>11, <2>1, <2>2, SubSeqProperties, Zenon
  <2> QED BY <1>10, <2>1, <2>3, Zenon
<1>14. HasValue(line, HeaderValue(line))
  <2>1. PICK j \in 1..n : j = d + first - 1
    BY <1>4
  <2>2. d <= j /\ d \in 1..n /\ j + 1 = d + first
    BY <1>4, <2>1
  <2>3. ASSUME NEW k \in d + 1..j PROVE line[k] = "SP"
    <3>1. PICK i \in 1..first - 1 : k = d + i
      <4>1. k - d \in 1..first - 1 /\ k = d + (k - d)
        BY <1>4, <2>1
      <4> QED BY <4>1
    <3>2. i \in 1..n - d
      BY <1>4
    <3> QED BY <1>6, <1>9, <3>1, <3>2, Zenon
  <2>4. line[j + 1] # "SP"
    BY <1>6, <1>9, <2>2, Zenon
  <2>5. HeaderValue(line) = SubSeq(line, j + 1, Len(line))
    BY <1>2, <1>10, <1>12, <2>2, Zenon
  <2> QED BY <1>4, <1>7, <2>1, <2>2, <2>3, <2>4, <2>5, Zenon DEF HasValue
<1> QED BY <1>13, <1>14

\* tolower tells apart just the names that SameName does.
LEMMA SameNameFacts ==
    ASSUME NEW a \in Seq(NameCharacters), NEW b \in Seq(Letters)
    PROVE  SameName(a, b) <=> tolower(a) = tolower(b)
<1>1. /\ Len(a) \in Nat /\ Len(b) \in Nat /\ DOMAIN a = 1..Len(a)
      /\ \A i \in 1..Len(a) : a[i] \in {"x", "X", "SP"}
      /\ \A i \in 1..Len(b) : b[i] \in {"x", "X"}
  BY DEF NameCharacters, Letters
<1>2. b \in Seq(NameCharacters)
  <2>1. b \in [1..Len(b) -> NameCharacters]
    <3>1. \A i \in 1..Len(b) : b[i] \in NameCharacters
      BY <1>1 DEF NameCharacters, Letters
    <3>2. b \in [1..Len(b) -> Letters]
      OBVIOUS
    <3> HIDE DEF Letters, NameCharacters
    <3> QED BY <3>1, <3>2
  <2> QED BY <1>1, <2>1
<1>3. PICK la, lb : la = tolower(a) /\ lb = tolower(b)
  OBVIOUS
<1>4. /\ la \in Seq({"x", "SP"}) /\ Len(la) = Len(a)
      /\ \A i \in 1..Len(a) : la[i] = IF a[i] = "X" THEN "x" ELSE a[i]
      /\ lb \in Seq({"x", "SP"}) /\ Len(lb) = Len(b)
      /\ \A i \in 1..Len(b) : lb[i] = IF b[i] = "X" THEN "x" ELSE b[i]
  BY <1>2, <1>3, LowerFacts
<1>5. ASSUME SameName(a, b) PROVE la = lb
  <2>1. Len(a) = Len(b) /\ \A i \in 1..Len(a) : {a[i], b[i]} \subseteq Letters \/ a[i] = b[i]
    BY <1>1, <1>5 DEF SameName
  <2>2. \A i \in 1..Len(a) : la[i] = lb[i]
    BY <1>1, <1>4, <2>1 DEF Letters
  <2> QED BY <1>4, <2>1, <2>2, SeqEqual
<1>6. ASSUME la = lb PROVE SameName(a, b)
  <2>1. Len(a) = Len(b)
    BY <1>4, <1>6
  <2>2. ASSUME NEW i \in 1..Len(a) PROVE {a[i], b[i]} \subseteq Letters
    <3>1. (IF a[i] = "X" THEN "x" ELSE a[i]) = IF b[i] = "X" THEN "x" ELSE b[i]
      BY <1>4, <1>6, <2>1
    <3>2. a[i] \in {"x", "X", "SP"} /\ b[i] \in {"x", "X"}
      BY <1>1, <2>1
    <3> QED BY <3>1, <3>2 DEF Letters
  <2> QED BY <1>1, <2>1, <2>2 DEF SameName
<1> QED BY <1>3, <1>5, <1>6

\* A line is a header of a name if its own name, in small letters, is that name.
LEMMA IsHeaderFacts ==
    ASSUME NEW line \in HeaderLines, NEW name \in Seq(Letters)
    PROVE  IsHeader(line, name) <=>
              Delimiter(line) # 0 /\ HeaderName(line) = tolower(name)
<1>1. PICK n \in Nat : n = Len(line) /\ DOMAIN line = 1..n
  BY LineShape
<1>2. \/ Delimiter(line) = 0 /\ \A i \in 1..n : line[i] # ":"
      \/ /\ Delimiter(line) \in 1..n /\ line[Delimiter(line)] = ":"
         /\ \A i \in 1..Delimiter(line) - 1 : line[i] # ":"
  BY <1>1, DelimiterFacts
<1>3. IsHeader(line, name) <=>
        Delimiter(line) # 0 /\ SameName(SubSeq(line, 1, Delimiter(line) - 1), name)
  <2>1. ASSUME NEW i \in 1..n, line[i] = ":", \A k \in 1..i - 1 : line[k] # ":"
        PROVE  i = Delimiter(line)
    BY <1>2, <2>1
  <2> QED BY <1>1, <1>2, <2>1 DEF IsHeader
<1>4. Delimiter(line) # 0 => SubSeq(line, 1, Delimiter(line) - 1) \in Seq(NameCharacters)
  BY PartsFacts
<1> QED BY <1>3, <1>4, SameNameFacts DEF HeaderName

(***************************************************************************)
(* Types.                                                                  *)
(***************************************************************************)
\* One more line adds at most its own name and value to the map.
LEMMA HeadersWithFacts ==
    ASSUME NEW headers, NEW line
    PROVE  /\ Delimiter(line) = 0 => HeadersWith(headers, line) = headers
           /\ Delimiter(line) # 0 =>
                /\ DOMAIN HeadersWith(headers, line) = DOMAIN headers \cup {HeaderName(line)}
                /\ \A n \in DOMAIN headers \cup {HeaderName(line)} :
                      HeadersWith(headers, line)[n] =
                          IF n = HeaderName(line) THEN HeaderValue(line) ELSE headers[n]
<1>1. PICK name, value : name = HeaderName(line) /\ value = HeaderValue(line)
  OBVIOUS
<1>2. HeadersWith(headers, line) =
        IF Delimiter(line) = 0 THEN headers
        ELSE [n \in DOMAIN headers \cup {name} |-> IF n = name THEN value ELSE headers[n]]
  BY <1>1 DEF HeadersWith, HeaderName, HeaderValue
<1> QED BY <1>1, <1>2

LEMMA HeaderNameType ==
    ASSUME NEW line \in HeaderLines, Delimiter(line) # 0
    PROVE  HeaderName(line) \in Seq({"x", "SP"})
<1>1. PICK text \in Seq(NameCharacters) : text = SubSeq(line, 1, Delimiter(line) - 1)
  BY PartsFacts
<1> QED BY <1>1, LowerFacts DEF HeaderName

Calls == [native : {"none", "CurlGetData", "CurlGetDataString"}, size : Nat, given : Nat]

\* The plugin's memory after each of the two calls, place by place.
AfterGetData(i, size) ==
    IF i < size /\ i < Len(buffer) THEN buffer[i + 1]
    ELSE IF size > Len(buffer) /\ i = Len(buffer) + 1 THEN 0
    ELSE Old

AfterGetDataString(i, size, given) ==
    IF size > 0 /\ i = Smaller(size - 1, given) THEN 0 ELSE AfterGetData(i, size)

LEMMA GetDataFacts ==
    ASSUME RTypeOK, NEW size \in BufferSizes, NEW given \in CallbackSizes
    PROVE  /\ GetData(Fresh, size) = [i \in 0..MaxData + 2 |-> AfterGetData(i, size)]
           /\ Terminated(GetData(Fresh, size), size, given) =
                 [i \in 0..MaxData + 2 |-> AfterGetDataString(i, size, given)]
           /\ \A i \in 0..MaxData + 2 :
                 {AfterGetData(i, size), AfterGetDataString(i, size, given)}
                    \subseteq {Old, 0, 1, 2}
<1>1. /\ size \in Nat /\ Len(buffer) \in Nat /\ DOMAIN array = 0..MaxData + 2
      /\ given \in Nat
  BY SizesAssumption, MaxAssumption DEF RTypeOK, CallbackSizes
<1>2. \A i \in 1..Len(buffer) : buffer[i] \in {1, 2}
  BY DEF RTypeOK
<1>3. Fresh = [i \in 0..MaxData + 2 |-> Old]
  BY <1>1 DEF Fresh
<1>4. PICK memory : memory = [i \in 0..MaxData + 2 |-> AfterGetData(i, size)]
  OBVIOUS
<1>5. GetData(Fresh, size) = memory
  BY <1>3, <1>4 DEF GetData, AfterGetData
<1>6. Terminated(memory, size, given) =
        [i \in 0..MaxData + 2 |-> AfterGetDataString(i, size, given)]
  <2>1. DOMAIN memory = 0..MaxData + 2
    BY <1>4
  <2>2. CASE size = 0
    BY <1>4, <2>2 DEF Terminated, AfterGetDataString
  <2>3. CASE size # 0
    <3>1. PICK k : k = IF given < size THEN given ELSE size - 1
      OBVIOUS
    <3>2. Smaller(size - 1, given) = k /\ size > 0
      BY <1>1, <2>3, <3>1 DEF Smaller
    <3>3. Terminated(memory, size, given) = [memory EXCEPT ![k] = 0]
      BY <2>3, <3>1 DEF Terminated
    <3>4. [memory EXCEPT ![k] = 0] =
            [i \in 0..MaxData + 2 |-> IF i = k THEN 0 ELSE AfterGetData(i, size)]
      BY <1>4
    <3> QED BY <3>2, <3>3, <3>4 DEF AfterGetDataString
  <2> QED BY <2>2, <2>3
<1>7. \A i \in 0..MaxData + 2 : AfterGetData(i, size) \in {Old, 0, 1, 2}
  BY <1>1, <1>2 DEF AfterGetData
<1>8. \A i \in 0..MaxData + 2 : AfterGetDataString(i, size, given) \in {Old, 0, 1, 2}
  BY <1>7 DEF AfterGetDataString
<1> QED BY <1>4, <1>5, <1>6, <1>7, <1>8

LEMMA RTypeInit == RInit => RTypeOK
<1> SUFFICES ASSUME RInit PROVE RTypeOK
  OBVIOUS
<1>1. DOMAIN response_headers = {} /\ buffer = << >> /\ lines = << >> /\ earlier = 0
  BY DEF RInit
<1>2. array \in [0..MaxData + 2 -> {Old, 0, 1, 2}]
  BY DEF RInit
<1>3. call \in Calls
  BY DEF RInit, NoCall, Call, Calls
<1>4. lines \in Seq(HeaderLines) /\ buffer \in Seq({1, 2}) /\ earlier \in 0..Len(lines)
  BY <1>1
<1> QED BY <1>1, <1>2, <1>3, <1>4 DEF RTypeOK, Calls

LEMMA RTypeStep == RTypeOK /\ [RNext]_rVars => RTypeOK'
<1> SUFFICES ASSUME RTypeOK, [RNext]_rVars PROVE RTypeOK'
  OBVIOUS
<1>1. ASSUME NEW line \in HeaderLines, CurlReceiveHeaders(line) PROVE RTypeOK'
  <2>1. response_headers' = HeadersWith(response_headers, line) /\ lines' = Append(lines, line)
    BY <1>1 DEF CurlReceiveHeaders
  <2>2. \A n \in DOMAIN response_headers' :
           n \in Seq({"x", "SP"}) /\ response_headers'[n] \in Seq(LineCharacters)
    <3>1. \A n \in DOMAIN response_headers :
             n \in Seq({"x", "SP"}) /\ response_headers[n] \in Seq(LineCharacters)
      BY DEF RTypeOK, LineCharacters
    <3>2. CASE Delimiter(line) = 0
      BY <2>1, <3>1, <3>2, HeadersWithFacts
    <3>3. CASE Delimiter(line) # 0
      <4>1. /\ HeaderName(line) \in Seq({"x", "SP"})
            /\ HeaderValue(line) \in Seq(LineCharacters)
        BY <3>3, HeaderNameType, ValueFacts
      <4>2. DOMAIN response_headers' = DOMAIN response_headers \cup {HeaderName(line)}
        BY <2>1, <3>3, HeadersWithFacts
      <4>3. \A n \in DOMAIN response_headers \cup {HeaderName(line)} :
               response_headers'[n] =
                   IF n = HeaderName(line) THEN HeaderValue(line) ELSE response_headers[n]
        BY <2>1, <3>3, HeadersWithFacts
      <4> QED BY <3>1, <4>1, <4>2, <4>3
    <3> QED BY <3>2, <3>3
  <2>3. lines' \in Seq(HeaderLines) /\ earlier' \in 0..Len(lines')
    BY <1>1, <2>1 DEF RTypeOK, CurlReceiveHeaders
  <2> QED BY <1>1, <2>2, <2>3 DEF RTypeOK, CurlReceiveHeaders, LineCharacters
<1>2. CASE NextResponse
  <2>1. earlier' \in 0..Len(lines)
    BY <1>2 DEF RTypeOK, NextResponse
  <2> QED BY <1>2, <2>1 DEF RTypeOK, NextResponse
<1>3. ASSUME NEW byte \in {1, 2}, CurlReceiveData(byte) PROVE RTypeOK'
  <2>1. buffer' \in Seq({1, 2})
    BY <1>3 DEF RTypeOK, CurlReceiveData
  <2>2. call' \in Calls
    BY <1>3 DEF CurlReceiveData, NoCall, Call, Calls
  <2> QED BY <1>3, <2>1, <2>2 DEF RTypeOK, CurlReceiveData, Calls
<1>4. ASSUME NEW n \in BufferSizes, CurlGetData(n) PROVE RTypeOK'
  <2>1. array' \in [0..MaxData + 2 -> {Old, 0, 1, 2}]
    <3>1. PICK given : given \in CallbackSizes
      BY DEF CallbackSizes
    <3> QED BY <1>4, <3>1, GetDataFacts DEF CurlGetData
  <2>2. call' \in Calls
    BY <1>4, SizesAssumption, MaxAssumption DEF CurlGetData, Call, Calls
  <2> QED BY <1>4, <2>1, <2>2 DEF RTypeOK, CurlGetData, Calls
<1>5. ASSUME NEW n \in BufferSizes, NEW size \in CallbackSizes, CurlGetDataString(n, size)
      PROVE  RTypeOK'
  <2>1. array' \in [0..MaxData + 2 -> {Old, 0, 1, 2}]
    BY <1>5, GetDataFacts DEF CurlGetDataString
  <2>2. call' \in Calls
    <3>1. n \in Nat /\ size \in Nat
      BY SizesAssumption, MaxAssumption DEF CallbackSizes, RTypeOK
    <3> QED BY <1>5, <3>1 DEF CurlGetDataString, Call, Calls
  <2> QED BY <1>5, <2>1, <2>2 DEF RTypeOK, CurlGetDataString, Calls
<1>6. CASE UNCHANGED rVars
  BY <1>6 DEF RTypeOK, rVars
<1> QED BY <1>1, <1>2, <1>3, <1>4, <1>5, <1>6 DEF RNext

\* The variables of Response keep their types.
THEOREM ResponseTypes == RSpec => []RTypeOK
<1> QED BY RTypeInit, RTypeStep, PTL DEF RSpec

(***************************************************************************)
(* Headers.                                                                *)
(***************************************************************************)
HasName(line, n) == Delimiter(line) # 0 /\ HeaderName(line) = n

\* The map holds the names of the lines, and for each the value of its last line.
HeadersInv ==
    /\ \A k \in 1..Len(lines) :
          Delimiter(lines[k]) # 0 => HeaderName(lines[k]) \in DOMAIN response_headers
    /\ \A n \in DOMAIN response_headers : \E k \in 1..Len(lines) :
          /\ HasName(lines[k], n) /\ response_headers[n] = HeaderValue(lines[k])
          /\ \A j \in k + 1..Len(lines) : ~HasName(lines[j], n)

LEMMA HeadersInit == RInit => HeadersInv
<1> SUFFICES ASSUME RInit PROVE HeadersInv
  OBVIOUS
<1>1. DOMAIN response_headers = {} /\ Len(lines) = 0
  BY DEF RInit
<1> QED BY <1>1 DEF HeadersInv

LEMMA HeadersStep == RTypeOK /\ HeadersInv /\ [RNext]_rVars => HeadersInv'
<1> SUFFICES ASSUME RTypeOK, HeadersInv, [RNext]_rVars PROVE HeadersInv'
  OBVIOUS
<1>1. ASSUME NEW line \in HeaderLines, CurlReceiveHeaders(line) PROVE HeadersInv'
  <2>1. PICK m \in Nat : m = Len(lines)
    BY DEF RTypeOK
  <2>2. Len(lines') = m + 1 /\ lines'[m + 1] = line /\ \A k \in 1..m : lines'[k] = lines[k]
    <3>1. lines' = Append(lines, line) /\ lines \in Seq(HeaderLines)
      BY <1>1 DEF CurlReceiveHeaders, RTypeOK
    <3> QED BY <2>1, <3>1, AppendProperties
  <2>3. response_headers' = HeadersWith(response_headers, line)
    BY <1>1 DEF CurlReceiveHeaders
  <2>4. \A k \in 1..m :
           Delimiter(lines[k]) # 0 => HeaderName(lines[k]) \in DOMAIN response_headers
    BY <2>1 DEF HeadersInv
  <2>5. ASSUME NEW n \in DOMAIN response_headers
        PROVE  \E k \in 1..m : /\ HasName(lines[k], n)
                               /\ response_headers[n] = HeaderValue(lines[k])
                               /\ \A j \in k + 1..m : ~HasName(lines[j], n)
    BY <2>1 DEF HeadersInv
  <2>6. \* a name whose last line was not this one keeps its value
        ASSUME NEW n \in DOMAIN response_headers, ~HasName(line, n)
        PROVE  \E k \in 1..m + 1 : /\ HasName(lines'[k], n)
                                   /\ response_headers[n] = HeaderValue(lines'[k])
                                   /\ \A j \in k + 1..m + 1 : ~HasName(lines'[j], n)
    <3>1. PICK k \in 1..m : /\ HasName(lines[k], n)
                            /\ response_headers[n] = HeaderValue(lines[k])
                            /\ \A j \in k + 1..m : ~HasName(lines[j], n)
      BY <2>5
    <3>2. k \in 1..m + 1 /\ lines'[k] = lines[k]
      BY <2>2
    <3>3. ASSUME NEW j \in k + 1..m + 1 PROVE ~HasName(lines'[j], n)
      <4>1. CASE j = m + 1
        BY <2>2, <2>6, <4>1
      <4>2. CASE j # m + 1
        <5>1. j \in k + 1..m /\ j \in 1..m
          BY <4>2
        <5> QED BY <2>2, <3>1, <5>1, Zenon
      <4> QED BY <4>1, <4>2
    <3> QED BY <3>1, <3>2, <3>3, Zenon
  <2>7. CASE Delimiter(line) = 0
    <3>1. response_headers' = response_headers
      BY <2>3, <2>7, HeadersWithFacts
    <3>2. \A k \in 1..m + 1 :
             Delimiter(lines'[k]) # 0 => HeaderName(lines'[k]) \in DOMAIN response_headers
      BY <2>2, <2>4, <2>7
    <3>3. \A n : ~HasName(line, n)
      BY <2>7 DEF HasName
    <3> QED BY <2>2, <2>6, <3>1, <3>2, <3>3 DEF HeadersInv
  <2>8. CASE Delimiter(line) # 0
    <3>1. PICK name : name = HeaderName(line)
      OBVIOUS
    <3>2. /\ DOMAIN response_headers' = DOMAIN response_headers \cup {name}
          /\ \A n \in DOMAIN response_headers \cup {name} :
                response_headers'[n] =
                    IF n = name THEN HeaderValue(line) ELSE response_headers[n]
      BY <2>3, <2>8, <3>1, HeadersWithFacts
    <3>3. ASSUME NEW k \in 1..m + 1, Delimiter(lines'[k]) # 0
          PROVE  HeaderName(lines'[k]) \in DOMAIN response_headers'
      <4>1. CASE k = m + 1
        BY <2>2, <3>1, <3>2, <4>1
      <4>2. CASE k # m + 1
        <5>1. k \in 1..m
          BY <4>2
        <5> QED BY <2>2, <2>4, <3>2, <3>3, <5>1
      <4> QED BY <4>1, <4>2
    <3>4. ASSUME NEW n \in DOMAIN response_headers'
          PROVE  \E k \in 1..m + 1 : /\ HasName(lines'[k], n)
                                     /\ response_headers'[n] = HeaderValue(lines'[k])
                                     /\ \A j \in k + 1..m + 1 : ~HasName(lines'[j], n)
      <4>1. CASE n = name
        <5>1. HasName(lines'[m + 1], n) /\ response_headers'[n] = HeaderValue(lines'[m + 1])
          BY <2>2, <2>8, <3>1, <3>2, <4>1 DEF HasName
        <5>2. m + 1 \in 1..m + 1 /\ m + 1 + 1..m + 1 = {}
          OBVIOUS
        <5> QED BY <5>1, <5>2, Zenon
      <4>2. CASE n # name
        <5>1. n \in DOMAIN response_headers /\ response_headers'[n] = response_headers[n]
          BY <3>2, <4>2
        <5>2. ~HasName(line, n)
          BY <3>1, <4>2 DEF HasName
        <5> QED BY <2>6, <5>1, <5>2, Zenon
      <4> QED BY <4>1, <4>2
    <3> QED BY <2>2, <3>3, <3>4, Zenon DEF HeadersInv
  <2> QED BY <2>7, <2>8
<1>2. CASE UNCHANGED <<response_headers, lines>>
  BY <1>2 DEF HeadersInv
<1> QED BY <1>1, <1>2
        DEF RNext, rVars, NextResponse, CurlReceiveData, CurlGetData, CurlGetDataString

\* A name given to the header natives finds just the lines that have it.
LEMMA GivenFacts ==
    ASSUME RTypeOK, NEW name \in Names
    PROVE  Given(name) = {k \in 1..Len(lines) : HasName(lines[k], tolower(name))}
<1>1. name \in Seq(Letters)
  <2>1. name \in UNION {[1..n -> Letters] : n \in 0..MaxLine}
    BY DEF Names, BoundedSeq, SeqOf
  <2>2. PICK n \in 0..MaxLine : name \in [1..n -> Letters]
    BY <2>1, Zenon
  <2> QED BY <2>2
<1>2. DOMAIN lines = 1..Len(lines) /\ \A k \in 1..Len(lines) : lines[k] \in HeaderLines
  BY DEF RTypeOK
<1>3. \A k \in 1..Len(lines) : IsHeader(lines[k], name) <=> HasName(lines[k], tolower(name))
  BY <1>1, <1>2, IsHeaderFacts, Zenon DEF HasName
<1> QED BY <1>2, <1>3, Zenon DEF Given

LEMMA HeadersAreLastGiven == RTypeOK /\ HeadersInv => HeaderIsLastGiven
<1> SUFFICES ASSUME RTypeOK, HeadersInv, NEW name \in Names
             PROVE  LET size == CurlGetResponseHeaderSize(name)
                        header == CurlGetResponseHeader(name, size + 1)
                    IN /\ header.result = size
                       /\ IF Given(name) = {} THEN size = -1
                          ELSE /\ Len(header.text) = size
                               /\ HasValue(LastGiven(name), header.text)
  BY DEF HeaderIsLastGiven
<1>1. PICK t : t = tolower(name)
  OBVIOUS
<1>2. PICK m \in Nat : m = Len(lines) /\ \A k \in 1..m : lines[k] \in HeaderLines
  BY DEF RTypeOK
<1>3. Given(name) = {k \in 1..m : HasName(lines[k], t)}
  BY <1>1, <1>2, GivenFacts, Zenon
<1>4. CASE t \notin DOMAIN response_headers
  <2>1. \A k \in 1..m : ~HasName(lines[k], t)
    BY <1>2, <1>4 DEF HeadersInv, HasName
  <2>2. Given(name) = {}
    BY <1>3, <2>1
  <2>3. CurlGetResponseHeaderSize(name) = -1
    BY <1>1, <1>4 DEF CurlGetResponseHeaderSize
  <2>4. CurlGetResponseHeader(name, -1 + 1).result = -1
    BY <1>1, <1>4 DEF CurlGetResponseHeader
  <2> QED BY <2>2, <2>3, <2>4
<1>5. CASE t \in DOMAIN response_headers
  <2>1. PICK k \in 1..m : /\ HasName(lines[k], t)
                          /\ response_headers[t] = HeaderValue(lines[k])
                          /\ \A j \in k + 1..m : ~HasName(lines[j], t)
    BY <1>2, <1>5 DEF HeadersInv
  <2>2. PICK value : value = response_headers[t]
    OBVIOUS
  <2>3. value \in Seq(LineCharacters) /\ HasValue(lines[k], value)
    <3>1. lines[k] \in HeaderLines /\ Delimiter(lines[k]) # 0
      BY <1>2, <2>1 DEF HasName
    <3> QED BY <2>1, <2>2, <3>1, ValueFacts
  <2>4. LastGiven(name) = lines[k]
    <3>1. k \in Given(name) /\ Given(name) \subseteq 0..m
      BY <1>3, <2>1
    <3>2. \A j \in Given(name) : j <= k
      <4>1. \A j \in 1..m : j <= k \/ j \in k + 1..m
        OBVIOUS
      <4> QED BY <1>3, <2>1, <4>1, Zenon
    <3>3. PICK l : l = Max(Given(name))
      OBVIOUS
    <3>4. l \in Given(name) /\ k <= l
      BY <3>1, <3>3, GreatestMember
    <3>5. l = k
      BY <3>1, <3>2, <3>4
    <3> QED BY <3>3, <3>5 DEF LastGiven
  <2>5. PICK n \in Nat : n = Len(value)
    BY <2>3
  <2>6. CurlGetResponseHeaderSize(name) = n
    BY <1>1, <1>5, <2>2, <2>5, Zenon DEF CurlGetResponseHeaderSize
  <2>7. /\ CurlGetResponseHeader(name, n + 1).result = n
        /\ CurlGetResponseHeader(name, n + 1).text = value
    <3>1. CurlGetResponseHeader(name, n + 1) =
            [result |-> n, text |-> SubSeq(value, 1, IF n < n + 1 THEN n ELSE n + 1 - 1)]
      BY <1>1, <1>5, <2>2, <2>5 DEF CurlGetResponseHeader
    <3>2. (IF n < n + 1 THEN n ELSE n + 1 - 1) = n
      OBVIOUS
    <3>3. SubSeq(value, 1, n) = value
      BY <2>3, <2>5, SubSeqFull, Zenon
    <3> QED BY <3>1, <3>2, <3>3
  <2>8. Given(name) # {}
    BY <1>3, <2>1
  <2> QED BY <2>3, <2>4, <2>5, <2>6, <2>7, <2>8
<1> QED BY <1>4, <1>5

\* A header native finds the last line received for a name, however the name is
\* spelled, and nothing for a name no line has.
THEOREM HeaderLookup == RSpec => []HeaderIsLastGiven
<1>1. RSpec => [](RTypeOK /\ HeadersInv)
  BY RTypeInit, RTypeStep, HeadersInit, HeadersStep, PTL DEF RSpec
<1> QED BY <1>1, HeadersAreLastGiven, PTL

(***************************************************************************)
(* Data.                                                                   *)
(***************************************************************************)
\* What the last call wrote, at each place of the plugin's memory.
DataInv ==
    /\ call.native = "none" => call = NoCall
    /\ call.size \in 0..MaxData + 1
    /\ call.native = "CurlGetData" =>
          \A i \in 0..MaxData + 2 : array[i] = AfterGetData(i, call.size)
    /\ call.native = "CurlGetDataString" =>
          /\ call.given \in CallbackSizes
          /\ \A i \in 0..MaxData + 2 :
                array[i] = AfterGetDataString(i, call.size, call.given)

LEMMA DataInit == RInit => DataInv
BY MaxAssumption DEF RInit, NoCall, Call, DataInv

LEMMA DataStep == RTypeOK /\ DataInv /\ [RNext]_rVars => DataInv'
<1> SUFFICES ASSUME RTypeOK, DataInv, [RNext]_rVars PROVE DataInv'
  OBVIOUS
<1>1. ASSUME NEW byte \in {1, 2}, CurlReceiveData(byte) PROVE DataInv'
  <2>1. call' = NoCall
    BY <1>1 DEF CurlReceiveData
  <2> QED BY <2>1, MaxAssumption DEF NoCall, Call, DataInv
<1>2. ASSUME NEW n \in BufferSizes, CurlGetData(n) PROVE DataInv'
  <2>1. /\ array' = [i \in 0..MaxData + 2 |-> AfterGetData(i, n)] /\ UNCHANGED buffer
        /\ call'.native = "CurlGetData" /\ call'.size = n
    <3>1. PICK given : given \in CallbackSizes
      BY DEF CallbackSizes
    <3> QED BY <1>2, <3>1, GetDataFacts DEF CurlGetData, Call
  <2>2. \A i \in 0..MaxData + 2 : array'[i] = AfterGetData(i, call.size)'
    BY <2>1 DEF AfterGetData
  <2> QED BY <2>1, <2>2, SizesAssumption DEF DataInv
<1>3. ASSUME NEW n \in BufferSizes, NEW size \in CallbackSizes, CurlGetDataString(n, size)
      PROVE  DataInv'
  <2>1. /\ array' = [i \in 0..MaxData + 2 |-> AfterGetDataString(i, n, size)]
        /\ UNCHANGED buffer
        /\ call'.native = "CurlGetDataString" /\ call'.size = n /\ call'.given = size
    BY <1>3, GetDataFacts DEF CurlGetDataString, Call
  <2>2. \A i \in 0..MaxData + 2 :
           array'[i] = AfterGetDataString(i, call.size, call.given)'
    BY <2>1 DEF AfterGetData, AfterGetDataString
  <2>3. call'.given \in CallbackSizes'
    BY <2>1 DEF CallbackSizes
  <2> QED BY <2>1, <2>2, <2>3, SizesAssumption DEF DataInv
<1>4. CASE UNCHANGED <<buffer, array, call>>
  BY <1>4 DEF DataInv, AfterGetData, AfterGetDataString, CallbackSizes
<1> QED BY <1>1, <1>2, <1>3, <1>4 DEF RNext, rVars, NextResponse, CurlReceiveHeaders

LEMMA DataIsWritten ==
    RTypeOK /\ DataInv => DataIsCopied /\ StringIsTerminated /\ OverrunIsByOne
<1> SUFFICES ASSUME RTypeOK, DataInv
             PROVE  DataIsCopied /\ StringIsTerminated /\ OverrunIsByOne
  OBVIOUS
<1>1. PICK n \in 0..MaxData + 1 : n = call.size
  BY DEF DataInv
<1>2. PICK m \in Nat : m = Len(buffer)
  BY DEF RTypeOK
<1>3. MaxData \in Nat /\ DOMAIN array = 0..MaxData + 2
  BY MaxAssumption DEF RTypeOK
<1>4. ASSUME call.native = "CurlGetData", NEW i \in 0..MaxData + 2
      PROVE  array[i] = IF i < n /\ i < m THEN buffer[i + 1]
                        ELSE IF n > m /\ i = m + 1 THEN 0 ELSE Old
  BY <1>1, <1>2, <1>4 DEF DataInv, AfterGetData
<1>5. ASSUME call.native = "CurlGetDataString", NEW i \in 0..MaxData + 2
      PROVE  array[i] = IF n > 0 /\ i = Smaller(n - 1, call.given) THEN 0
                        ELSE IF i < n /\ i < m THEN buffer[i + 1]
                        ELSE IF n > m /\ i = m + 1 THEN 0 ELSE Old
  BY <1>1, <1>2, <1>5 DEF DataInv, AfterGetData, AfterGetDataString
<1>6. call.native = "CurlGetDataString" => call.given \in {m, 0}
  BY <1>2 DEF DataInv, CallbackSizes
<1>7. DataIsCopied
  BY <1>1, <1>2, <1>3, <1>4 DEF DataIsCopied, Smaller
<1>8. StringIsTerminated
  <2> SUFFICES ASSUME call.native = "CurlGetDataString", n > 0
               PROVE  LET length == Smaller(n - 1, call.given)
                      IN  /\ array[length] = 0
                          /\ \A i \in 0..length - 1 : array[i] = buffer[i + 1]
    BY <1>1 DEF StringIsTerminated
  <2>1. PICK length \in 0..MaxData + 2 :
            length = Smaller(n - 1, call.given) /\ length < n /\ length <= m
    BY <1>2, <1>3, <1>6 DEF Smaller
  <2>2. array[length] = 0
    BY <1>5, <2>1
  <2>3. ASSUME NEW i \in 0..length - 1 PROVE array[i] = buffer[i + 1]
    <3>1. i \in 0..MaxData + 2 /\ i # length /\ i < n /\ i < m
      BY <1>2, <1>3, <2>1
    <3> QED BY <1>5, <2>1, <3>1
  <2> QED BY <2>1, <2>2, <2>3
<1>9. OverrunIsByOne
  <2> SUFFICES ASSUME NEW i \in 0..MaxData + 2, call # NoCall, i >= n, array[i] # Old
               PROVE  i = n /\ n = m + 1
    BY <1>1, <1>2, <1>3 DEF OverrunIsByOne
  <2>1. call.native = "CurlGetData" \/ call.native = "CurlGetDataString"
    BY DEF RTypeOK, DataInv
  <2>2. n > m /\ i = m + 1
    BY <1>1, <1>3, <1>4, <1>5, <1>6, <2>1 DEF Smaller
  <2> QED BY <2>2
<1> QED BY <1>7, <1>8, <1>9

LEMMA DataInvariant == RSpec => [](RTypeOK /\ DataInv)
BY RTypeInit, RTypeStep, DataInit, DataStep, PTL DEF RSpec

\* CurlGetData gives a plugin the start of the data, as much as fits.
THEOREM DataCopied == RSpec => []DataIsCopied
BY DataInvariant, DataIsWritten, PTL

\* Async_CurlGetDataString leaves a terminated string in the plugin's buffer.
THEOREM StringTerminated == RSpec => []StringIsTerminated
BY DataInvariant, DataIsWritten, PTL

\* Neither call changes memory outside the buffer but for one place, and that only
\* for a buffer larger than the data by one.
THEOREM OverrunBounded == RSpec => []OverrunIsByOne
BY DataInvariant, DataIsWritten, PTL
=============================================================================
