--------------------------- MODULE EasyHandleProofs ---------------------------
(***************************************************************************)
(* Proofs about EasyHandle: the post bodies, the headers and the first     *)
(* request of a handle.                                                    *)
(***************************************************************************)
EXTENDS EasyHandle, QueueLemmas

(***************************************************************************)
(* What curl sends, as a function of the options and the memory.           *)
(***************************************************************************)
EasyOptions == [post : BOOLEAN, fieldsize : Nat \cup {-1}, postfields : Fields,
                httpheader : BOOLEAN, timeout : Nat]

FieldsOf(e, mem) ==
    IF e.postfields.copied THEN e.postfields.body
    ELSE IF e.postfields.block \in DOMAIN mem THEN mem[e.postfields.block]
    ELSE IF e.postfields.block = NULL THEN Stdin ELSE Freed

WireOf(e, mem) ==
    IF ~e.post THEN NoBody
    ELSE IF e.fieldsize = -1 THEN FieldsOf(e, mem)
    ELSE FirstBytes(FieldsOf(e, mem), e.fieldsize)

\* The time-out of a new handle, and that a plugin has no wish yet.
LEMMA DefaultTypes == Default \in Nat /\ NoWish \in [timeout : Nat, body : BOOLEAN]
<1>1. Default \in Nat
  BY DEF Default
<1> QED BY <1>1 DEF NoWish

\* WireBody is that function of the state.
LEMMA WireIs == WireBody = WireOf(easy, memory) /\ WireBody' = WireOf(easy', memory')
  BY DEF WireBody, PostFields, WireOf, FieldsOf

\* The first bytes of a body are a body, all of it if there are as many, and packed
\* only if it is.
LEMMA FirstBytesFacts ==
    ASSUME NEW body \in Bodies, NEW n \in Nat
    PROVE  /\ FirstBytes(body, n) \in Bodies
           /\ body.size = n => FirstBytes(body, n) = body
           /\ FirstBytes(body, n).format = "zlib" => body.format = "zlib"
<1>1. PICK format :
          format = IF body.format \in {"plain", "zlib"} /\ n > body.size THEN "overread"
                   ELSE body.format
  OBVIOUS
<1>2. FirstBytes(body, n) = [of |-> body.of, size |-> n, format |-> format]
  <2>1. body = [of |-> body.of, size |-> body.size, format |-> body.format]
    BY DEF Bodies
  <2>2. FirstBytes(body, n) = [body EXCEPT !.size = n, !.format = format]
    BY <1>1, <2>1 DEF FirstBytes
  <2> QED BY <2>1, <2>2
<1>3. format \in Formats /\ (format = "zlib" => body.format = "zlib")
  BY <1>1 DEF Bodies, Formats
<1>4. body.size = n => format = body.format
  BY <1>1
<1>5. body = [of |-> body.of, size |-> body.size, format |-> body.format]
  BY DEF Bodies
<1> QED BY <1>2, <1>3, <1>4, <1>5 DEF Bodies

\* Post fields that curl copied are sent as they are if the size is theirs or is
\* not set.
LEMMA CopiedWire ==
    ASSUME NEW e, NEW mem, NEW id \in Nat, NEW n \in Nat, e.post, e.postfields.copied,
           e.postfields.body = Body(id, n, "plain"), e.fieldsize \in {-1, n}
    PROVE  WireOf(e, mem) = Body(id, n, "plain")
<1>1. Body(id, n, "plain") \in Bodies /\ Body(id, n, "plain").size = n
  BY DEF Body, Bodies, Formats
<1> QED BY <1>1, FirstBytesFacts DEF WireOf, FieldsOf

\* Post fields in memory are sent as they are if the size is theirs.
LEMMA BlockWire ==
    ASSUME NEW e, NEW mem, NEW id \in Nat, NEW n \in Nat, NEW format \in Formats,
           e.post, ~e.postfields.copied,
           e.postfields.block \in DOMAIN mem,
           mem[e.postfields.block] = Body(id, n, format), e.fieldsize = n
    PROVE  WireOf(e, mem) = Body(id, n, format)
<1>1. Body(id, n, format) \in Bodies /\ Body(id, n, format).size = n
  BY DEF Body, Bodies
<1> QED BY <1>1, FirstBytesFacts DEF WireOf, FieldsOf

\* Whatever is sent is a body.
LEMMA WireTypes ==
    ASSUME NEW e \in EasyOptions, NEW mem, mem \in [DOMAIN mem -> Bodies]
    PROVE  WireOf(e, mem) \in Bodies
<1>1. e.postfields.body \in Bodies /\ e.fieldsize \in Nat \cup {-1}
  BY DEF EasyOptions, Fields
<1>2. NoBody \in Bodies /\ Freed \in Bodies /\ Stdin \in Bodies
  BY DEF NoBody, Freed, Stdin, Body, Bodies, Formats
<1>3. FieldsOf(e, mem) \in Bodies
  BY <1>1, <1>2 DEF FieldsOf
<1> QED BY <1>1, <1>2, <1>3, FirstBytesFacts DEF WireOf

(***************************************************************************)
(* Starting a request.                                                     *)
(***************************************************************************)
RawNatives == {"CurlPostRaw", "CurlPostRawCompress"}

\* The options when a post body of m bytes at a is sent.
PostEasy(a, m) ==
    [easy EXCEPT !.timeout = Default, !.post = TRUE, !.fieldsize = m,
                 !.postfields = [copied |-> FALSE, block |-> a, body |-> NoBody]]

\* A native that allocates no body: only the options may change.
LEMMA OwnStart ==
    ASSUME PostBlocksAccounted, NEW native, NEW n, NEW e, Started(native, n, e, OwnPost)
    PROVE  /\ post = NULL /\ DOMAIN memory = {}
           /\ easy' = e /\ UNCHANGED <<memory, post, postLength, headers, lost>>
<1>1. post = NULL /\ DOMAIN memory = {}
  BY DEF PostBlocksAccounted, Started
<1> QED BY <1>1 DEF Started, OnCurlStarted, OwnPost

\* CurlPostRawCompress: one block is left, with the plain or the packed body.
LEMMA CompressStart ==
    ASSUME EHTypeOK, PostBlocksAccounted, NULL \notin Blocks, NEW n \in Nat,
           CurlPostRawCompress(n)
    PROVE  \E a \in Blocks, m \in Nat, format \in {"plain", "zlib"} :
              /\ Whole(Body(starts + 1, m, format), starts + 1, n)
              /\ DOMAIN memory' = {a} /\ memory'[a] = Body(starts + 1, m, format)
              /\ memory' \in [{a} -> Bodies]
              /\ post' = a /\ postLength' = m
              /\ easy' = PostEasy(a, m)
              /\ \/ format = "plain" /\ UNCHANGED <<headers, lost>>
                 \/ format = "zlib" /\ AddHeader(Gzip)
<1>1. post = NULL /\ DOMAIN memory = {} /\ starts + 1 \in Nat
  BY DEF PostBlocksAccounted, CurlPostRawCompress, Started, EHTypeOK
<1> DEFINE plain == Body(starts + 1, n, "plain")
           packed == Body(starts + 1, PackedLength(n), "zlib")
<1>2. /\ plain \in Bodies /\ packed \in Bodies /\ plain.of = starts + 1
      /\ PackedLength(n) \in Nat
  BY <1>1 DEF Body, Bodies, Formats, PackedLength
<1>3. Whole(plain, starts + 1, n) /\ Whole(packed, starts + 1, n)
  BY DEF Whole, Body
<1>4. PICK a \in Blocks :
          Started("CurlPostRawCompress", n,
                  [easy EXCEPT !.timeout = Default, !.post = TRUE],
                  [post |-> a, length |-> n, memory |-> Alloc(memory, a, plain)])
  BY DEF CurlPostRawCompress
<1> DEFINE mem == Alloc(memory, a, plain)
<1>5. DOMAIN mem = {a} /\ mem[a] = plain /\ mem \in [{a} -> Bodies]
  BY <1>1, <1>2 DEF Alloc
<1>6. a # NULL
  OBVIOUS
<1> HIDE DEF plain, packed, mem
<1>7. /\ \/ Compressed(a, n, mem)
         \/ post' = a /\ postLength' = n /\ memory' = mem /\ UNCHANGED <<headers, lost>>
      /\ easy' = PostEasy(post', postLength')
  <2>1. OnCurlStarted([easy EXCEPT !.timeout = Default, !.post = TRUE],
                      [post |-> a, length |-> n, memory |-> mem])
    BY <1>4 DEF Started, mem
  <2> QED BY <2>1, <1>6 DEF OnCurlStarted, PostEasy, EHTypeOK
<1>8. CASE post' = a /\ postLength' = n /\ memory' = mem /\ UNCHANGED <<headers, lost>>
  BY <1>3, <1>5, <1>7, <1>8 DEF plain
<1>9. CASE Compressed(a, n, mem)
  <2>1. PICK b \in Blocks \ DOMAIN mem :
            /\ memory' = Alloc(Free(mem, a), b, Body(mem[a].of, PackedLength(n), "zlib"))
            /\ post' = b /\ postLength' = PackedLength(n) /\ AddHeader(Gzip)
    BY <1>9 DEF Compressed
  <2>2. memory' = Alloc(Free(mem, a), b, packed)
    BY <2>1, <1>2, <1>5 DEF packed
  <2>3. DOMAIN Free(mem, a) = {}
    BY <1>5 DEF Free, Restrict
  <2>4. DOMAIN memory' = {b} /\ memory'[b] = packed /\ memory' \in [{b} -> Bodies]
    BY <1>2, <2>2, <2>3 DEF Alloc
  <2> QED BY <1>2, <1>3, <1>7, <2>1, <2>4 DEF packed
<1> QED BY <1>7, <1>8, <1>9

(***************************************************************************)
(* Types, and the blocks of memory.                                        *)
(***************************************************************************)
\* The actions that neither start nor end a request and touch no memory.
QuietNext ==
    \/ CurlNew \/ Close \/ CleanHandles \/ Unloaded
    \/ ProcessCurlJob \/ SendRequest \/ CurlReceiveData
    \/ OnCurlCompletedGameThread
    \/ \E line \in HeaderLines : CurlAddHeader(line)
    \/ \E setting \in IntSettings : CurlSetInt(setting[1], setting[2])

\* The actions that start a request.
StartNext ==
    \/ CurlGet \/ CurlStart
    \/ \E n \in 0..MaxSize :
          CurlPost(n) \/ CurlPostRawCompress(n) \/ \E str \in 0..n : CurlPostRaw(n, str)

\* The kinds of step there are.
LEMMA StepKinds ==
    ASSUME [EHNext]_ehVars
    PROVE  \/ QuietNext \/ StartNext \/ UNCHANGED ehVars
           \/ \E code \in {0, 28} : CheckCompletedCurlJobs(code)
  BY DEF EHNext, QuietNext, StartNext

\* Adding a header keeps the type of the list.
LEMMA AddHeaderTypes ==
    ASSUME EHTypeOK, NEW line \in Lines, AddHeader(line)
    PROVE  headers' \in Seq(Lines) /\ lost' \in BOOLEAN
<1>1. headers \in Seq(Lines) /\ lost \in BOOLEAN
  BY DEF EHTypeOK
<1>2. Append(headers, line) \in Seq(Lines)
  BY <1>1, AppendItems
<1> QED BY <1>1, <1>2 DEF AddHeader

\* What curl copies of a body is a body.
LEMMA CopyTypes ==
    ASSUME EHTypeOK, NEW e \in EasyOptions, NEW str \in Nat
    PROVE  CopyPostFields(e, str) \in EasyOptions
<1>1. (IF e.fieldsize = -1 THEN str ELSE e.fieldsize) \in Nat
  BY DEF EasyOptions
<1>2. Body(starts + 1, IF e.fieldsize = -1 THEN str ELSE e.fieldsize, "plain") \in Bodies
  BY <1>1 DEF EHTypeOK, Body, Bodies, Formats
<1> QED BY <1>2 DEF CopyPostFields, EasyOptions, Fields

\* CurlPostRaw's options are options.
LEMMA RawOptions ==
    ASSUME EHTypeOK, NEW n \in Nat
    PROVE  [easy EXCEPT !.timeout = Default, !.fieldsize = n] \in EasyOptions
<1>1. easy \in EasyOptions
  BY DEF EHTypeOK, EasyOptions
<1> QED BY <1>1, DefaultTypes, Zenon DEF EasyOptions

\* What every start changes has its type, given the options, the body and the headers.
LEMMA StartedTypes ==
    ASSUME EHTypeOK, NEW native \in NativeNames, NEW n \in Nat,
           easy' \in EasyOptions, headers' \in Seq(Lines), lost' \in BOOLEAN,
           post' \in Blocks \cup {NULL}, postLength' \in Nat,
           DOMAIN memory' \subseteq Blocks, memory' \in [DOMAIN memory' -> Bodies],
           phase' = "queued", starts' = starts + 1, sent' = Nothing, size' = 0,
           asked' = [native |-> native, id |-> starts + 1, size |-> n],
           UNCHANGED <<buffer, curlcode, added, own>>
    PROVE  EHTypeOK'
<1>1. starts' \in Nat /\ asked' \in [native : NativeNames, id : Nat, size : Nat]
  BY DEF EHTypeOK
<1>2. sent' \in [method : {"none", "GET", "POST"}, body : Bodies, headers : Seq(Lines)]
  BY DEF Nothing, NoBody, Body, Bodies, Formats
<1>3. /\ buffer' \in Seq(Nat) /\ curlcode' \in {-1, 0, 28}
      /\ added' \subseteq HeaderLines /\ own' \in [timeout : Nat, body : BOOLEAN]
  BY DEF EHTypeOK
<1> QED BY <1>1, <1>2, <1>3 DEF EHTypeOK, EasyOptions

\* Starting a request preserves the types.
LEMMA StartTypes ==
    ASSUME EHTypeOK, PostBlocksAccounted, StartNext
    PROVE  EHTypeOK'
<1> USE BlocksAssumption, EHBoundsAssumption
<1>1. easy \in EasyOptions /\ MaxSize \in Nat
  BY DEF EHTypeOK, EasyOptions
<1>2. ASSUME NEW native \in NativeNames, NEW n \in Nat, NEW e \in EasyOptions,
             Started(native, n, e, OwnPost)
      PROVE  EHTypeOK'
  <2>1. /\ easy' = e /\ UNCHANGED <<memory, post, postLength, headers, lost>>
    BY <1>2, OwnStart
  <2>2. /\ phase' = "queued" /\ starts' = starts + 1 /\ sent' = Nothing /\ size' = 0
        /\ asked' = [native |-> native, id |-> starts + 1, size |-> n]
        /\ UNCHANGED <<buffer, curlcode, added, own>>
    BY <1>2 DEF Started
  <2>3. /\ headers' \in Seq(Lines) /\ lost' \in BOOLEAN
        /\ post' \in Blocks \cup {NULL} /\ postLength' \in Nat
        /\ DOMAIN memory' \subseteq Blocks /\ memory' \in [DOMAIN memory' -> Bodies]
    BY <2>1 DEF EHTypeOK
  <2> QED BY <1>2, <2>1, <2>2, <2>3, StartedTypes
<1>3. ASSUME NEW n \in Nat, CurlPostRawCompress(n) PROVE EHTypeOK'
  <2>1. PICK a \in Blocks, m \in Nat, format \in {"plain", "zlib"} :
            /\ DOMAIN memory' = {a} /\ memory' \in [{a} -> Bodies]
            /\ post' = a /\ postLength' = m /\ easy' = PostEasy(a, m)
            /\ \/ UNCHANGED <<headers, lost>>
               \/ AddHeader(Gzip)
    BY <1>3, CompressStart
  <2>2. /\ phase' = "queued" /\ starts' = starts + 1 /\ sent' = Nothing /\ size' = 0
        /\ asked' = [native |-> "CurlPostRawCompress", id |-> starts + 1, size |-> n]
        /\ UNCHANGED <<buffer, curlcode, added, own>>
    BY <1>3 DEF CurlPostRawCompress, Started
  <2>3. "CurlPostRawCompress" \in NativeNames
    BY DEF NativeNames
  <2>4. easy' \in EasyOptions
    <3>1. [copied |-> FALSE, block |-> a, body |-> NoBody] \in Fields
      BY DEF Fields, NoBody, Body, Bodies, Formats
    <3> QED BY <1>1, <2>1, <3>1, DefaultTypes DEF PostEasy, EasyOptions
  <2>5. headers' \in Seq(Lines) /\ lost' \in BOOLEAN
    BY <2>1, AddHeaderTypes DEF EHTypeOK, Lines
  <2> QED BY <2>1, <2>2, <2>3, <2>4, <2>5, StartedTypes
<1>4. CASE CurlGet \/ CurlStart
  BY <1>1, <1>2, <1>4 DEF CurlGet, CurlStart, NativeNames
<1>5. ASSUME NEW n \in 0..MaxSize, CurlPost(n) PROVE EHTypeOK'
  BY <1>1, <1>2, <1>5, CopyTypes DEF CurlPost, NativeNames
<1>6. ASSUME NEW n \in 0..MaxSize, NEW str \in 0..n, CurlPostRaw(n, str) PROVE EHTypeOK'
  <2>1. [easy EXCEPT !.timeout = Default, !.fieldsize = n] \in EasyOptions
    <3>1. n \in Nat
      BY <1>1
    <3> QED BY <3>1, RawOptions, Zenon
  <2>2. CopyPostFields([easy EXCEPT !.timeout = Default, !.fieldsize = n], str)
            \in EasyOptions
    BY <1>1, <2>1, CopyTypes
  <2> QED BY <1>1, <1>2, <1>6, <2>2 DEF CurlPostRaw, NativeNames
<1> QED BY <1>1, <1>3, <1>4, <1>5, <1>6 DEF StartNext

\* CurlSetInt leaves the list and a copy of a body alone, or drops the copy, and marks
\* what it does to the method or the size as the plugin's own wish.
LEMMA SetIntFacts ==
    ASSUME EHTypeOK, NEW setting \in IntSettings, CurlSetInt(setting[1], setting[2])
    PROVE  /\ easy' \in EasyOptions /\ own' \in [timeout : Nat, body : BOOLEAN]
           /\ easy'.httpheader = easy.httpheader
           /\ easy'.postfields.copied => easy'.postfields = easy.postfields
           /\ \/ own'.body
              \/ easy'.post = easy.post /\ easy'.fieldsize = easy.fieldsize /\ ~own.body
<1> DEFINE option == setting[1]  value == setting[2]
<1>1. /\ easy \in EasyOptions /\ own \in [timeout : Nat, body : BOOLEAN]
      /\ easy' = WithOption(easy, option, value)
      /\ own' = IF option = "TIMEOUT_MS" THEN [own EXCEPT !.timeout = value]
                ELSE [own EXCEPT !.body = TRUE]
  BY DEF EHTypeOK, EasyOptions, CurlSetInt
<1>2. \/ option \in {"TIMEOUT_MS", "POST"} /\ value \in Nat
      \/ option = "POSTFIELDSIZE" /\ value \in Nat \cup {-1}
  BY SettingsAssumption
<1> HIDE DEF option, value
<1>3. DOMAIN easy = {"post", "fieldsize", "postfields", "httpheader", "timeout"}
  BY <1>1 DEF EasyOptions
<1>4. [own EXCEPT !.body = TRUE] \in [timeout : Nat, body : BOOLEAN]
      /\ [own EXCEPT !.body = TRUE].body
  BY <1>1
<1>5. CASE option = "TIMEOUT_MS"
  <2>1. easy' = [easy EXCEPT !.timeout = value] /\ own' = [own EXCEPT !.timeout = value]
    BY <1>1, <1>5 DEF WithOption
  <2>2. value \in Nat
    BY <1>2, <1>5
  <2>3. easy' \in EasyOptions
    BY <1>1, <2>1, <2>2, Zenon DEF EasyOptions
  <2>4. /\ easy'.httpheader = easy.httpheader /\ easy'.postfields = easy.postfields
        /\ easy'.post = easy.post /\ easy'.fieldsize = easy.fieldsize
    BY <1>3, <2>1
  <2>5. own' \in [timeout : Nat, body : BOOLEAN] /\ own'.body = own.body
    BY <1>1, <2>1, <2>2
  <2> QED BY <1>1, <2>3, <2>4, <2>5
<1>6. CASE option = "POST"
  <2>1. easy' = [easy EXCEPT !.post = (value # 0)] /\ own' = [own EXCEPT !.body = TRUE]
    BY <1>1, <1>6 DEF WithOption
  <2>2. easy' \in EasyOptions
    <3>1. (value # 0) \in BOOLEAN
      OBVIOUS
    <3> QED BY <1>1, <2>1, <3>1, Zenon DEF EasyOptions
  <2>3. easy'.httpheader = easy.httpheader /\ easy'.postfields = easy.postfields
    BY <1>3, <2>1
  <2> QED BY <1>4, <2>1, <2>2, <2>3
<1>7. CASE option = "POSTFIELDSIZE"
  <2>1. NoFields \in Fields /\ ~NoFields.copied
    BY DEF NoFields, Fields, NoBody, Body, Bodies, Formats
  <2>2. PICK fields :
            /\ fields = IF easy.postfields.copied /\ easy.fieldsize < value THEN NoFields
                        ELSE easy.postfields
            /\ easy' = [easy EXCEPT !.fieldsize = value, !.postfields = fields]
    BY <1>1, <1>7 DEF WithOption, EasyOptions
  <2>3. fields \in Fields /\ (fields = easy.postfields \/ ~fields.copied)
    <3>1. easy.postfields \in Fields
      BY <1>1 DEF EasyOptions
    <3> QED BY <2>1, <2>2, <3>1
  <2>4. own' = [own EXCEPT !.body = TRUE]
    BY <1>1, <1>7
  <2>5. value \in Nat \cup {-1}
    BY <1>2, <1>7
  <2>6. easy' \in EasyOptions
    BY <1>1, <2>2, <2>3, <2>5, Zenon DEF EasyOptions
  <2>7. easy'.httpheader = easy.httpheader /\ easy'.postfields = fields
    BY <1>3, <2>2
  <2> QED BY <1>4, <2>3, <2>4, <2>6, <2>7
<1> QED BY <1>2, <1>5, <1>6, <1>7

\* Every other step preserves the types.
LEMMA QuietTypes ==
    ASSUME EHTypeOK, QuietNext
    PROVE  EHTypeOK'
<1> USE DEF EHTypeOK, contextVars, wishVars
<1>1. CASE CurlNew
  <2>1. NoBody \in Bodies
    BY DEF NoBody, Body, Bodies, Formats
  <2>2. NoFields \in Fields
    BY <2>1 DEF NoFields, Fields
  <2>3. NewEasy \in EasyOptions
    BY <2>2, DefaultTypes DEF NewEasy, EasyOptions
  <2>4. NoRequest \in [native : NativeNames, id : Nat, size : Nat]
    BY DEF NoRequest, NativeNames
  <2>5. Nothing \in [method : {"none", "GET", "POST"}, body : Bodies, headers : Seq(Lines)]
    BY <2>1 DEF Nothing
  <2>6. /\ headers' \in Seq(Lines) /\ buffer' \in Seq(Nat)
        /\ post' \in Blocks \cup {NULL} /\ postLength' \in Nat /\ curlcode' \in {-1, 0, 28}
    BY <1>1 DEF CurlNew
  <2>7. /\ easy' \in EasyOptions /\ lost' \in BOOLEAN /\ size' \in Nat /\ starts' \in Nat
        /\ asked' \in [native : NativeNames, id : Nat, size : Nat]
        /\ sent' \in [method : {"none", "GET", "POST"}, body : Bodies, headers : Seq(Lines)]
        /\ added' \subseteq HeaderLines /\ own' \in [timeout : Nat, body : BOOLEAN]
    BY <1>1, <2>3, <2>4, <2>5, DefaultTypes DEF CurlNew
  <2>8. phase' = "idle" /\ memory' = memory
    BY <1>1 DEF CurlNew
  <2> QED BY <2>6, <2>7, <2>8 DEF EasyOptions
<1>2. CASE Close
  BY <1>2 DEF Close
<1>3. CASE ProcessCurlJob
  BY <1>3 DEF ProcessCurlJob
<1>4. CASE SendRequest
  <2>1. WireBody \in Bodies
    BY WireIs, WireTypes DEF EasyOptions
  <2> QED BY <1>4, <2>1 DEF SendRequest
<1>5. CASE CurlReceiveData
  BY <1>5 DEF CurlReceiveData
<1>6. CASE OnCurlCompletedGameThread
  BY <1>6 DEF OnCurlCompletedGameThread
<1>7. ASSUME NEW line \in HeaderLines, CurlAddHeader(line) PROVE EHTypeOK'
  <2>1. headers' \in Seq(Lines) /\ lost' \in BOOLEAN
    BY <1>7, AddHeaderTypes DEF CurlAddHeader, Lines
  <2> QED BY <1>7, <2>1 DEF CurlAddHeader
<1>8. ASSUME NEW setting \in IntSettings, CurlSetInt(setting[1], setting[2]) PROVE EHTypeOK'
  <2>1. easy' \in EasyOptions /\ own' \in [timeout : Nat, body : BOOLEAN]
    BY <1>8, SetIntFacts
  <2> QED BY <1>8, <2>1 DEF CurlSetInt, EasyOptions
<1>9. CASE CleanHandles \/ Unloaded
  BY <1>9 DEF CleanHandles, Unloaded, ehVars
<1> QED BY <1>1, <1>2, <1>3, <1>4, <1>5, <1>6, <1>7, <1>8, <1>9 DEF QuietNext

\* The end of a transfer frees the block and forgets it.
LEMMA CompletedBlocks ==
    ASSUME EHTypeOK, PostBlocksAccounted, NEW code, CheckCompletedCurlJobs(code)
    PROVE  post' = NULL /\ DOMAIN memory' = {} /\ phase' = "done"
  BY DEF CheckCompletedCurlJobs, OnCurlCompleted, PostBlocksAccounted, Free, Restrict

\* Types and blocks, for every step.
LEMMA BlocksStep ==
    ASSUME EHTypeOK, PostBlocksAccounted, [EHNext]_ehVars
    PROVE  EHTypeOK' /\ PostBlocksAccounted'
<1> USE BlocksAssumption, EHBoundsAssumption
<1>1. CASE QuietNext
  <2>1. PostBlocksAccounted'
    BY <1>1 DEF PostBlocksAccounted, QuietNext, CurlNew, Close, ProcessCurlJob, SendRequest,
       CurlReceiveData, OnCurlCompletedGameThread, CurlAddHeader, CurlSetInt, CleanHandles,
       Unloaded,
       ehVars, contextVars
  <2> QED BY <1>1, <2>1, QuietTypes
<1>2. CASE StartNext
  <2>1. ASSUME NEW native, NEW n, NEW e, Started(native, n, e, OwnPost)
        PROVE  PostBlocksAccounted'
    BY <2>1, OwnStart DEF PostBlocksAccounted
  <2>2. ASSUME NEW n \in 0..MaxSize, CurlPostRawCompress(n) PROVE PostBlocksAccounted'
    <3>1. phase' = "queued" /\ n \in Nat
      BY <2>2 DEF CurlPostRawCompress, Started
    <3>2. \E a \in Blocks : DOMAIN memory' = {a} /\ post' = a
      BY <2>2, <3>1, CompressStart
    <3> QED BY <3>1, <3>2 DEF PostBlocksAccounted
  <2>3. PostBlocksAccounted'
    BY <1>2, <2>1, <2>2 DEF StartNext, CurlGet, CurlStart, CurlPost, CurlPostRaw
  <2> QED BY <1>2, <2>3, StartTypes
<1>3. ASSUME NEW code \in {0, 28}, CheckCompletedCurlJobs(code)
      PROVE  EHTypeOK' /\ PostBlocksAccounted'
  <2>1. post' = NULL /\ DOMAIN memory' = {}
    BY <1>3, CompletedBlocks
  <2>2. memory' = memory \/ memory' = Free(memory, post)
    BY <1>3 DEF CheckCompletedCurlJobs, OnCurlCompleted
  <2>3. memory' \in [DOMAIN memory' -> Bodies]
    BY <2>2 DEF EHTypeOK, Free, Restrict
  <2>4. EHTypeOK'
    BY <1>3, <2>1, <2>3 DEF EHTypeOK, CheckCompletedCurlJobs, wishVars
  <2> QED BY <2>1, <2>4 DEF PostBlocksAccounted
<1>4. CASE UNCHANGED ehVars
  BY <1>4 DEF EHTypeOK, PostBlocksAccounted, ehVars, contextVars, wishVars
<1> QED BY <1>1, <1>2, <1>3, <1>4, StepKinds

(***************************************************************************)
(* Raw posts.                                                              *)
(***************************************************************************)
\* What curl will send for a raw post, from its start until it is sent.
RawReady ==
    phase \in {"queued", "running"} /\ asked.native \in RawNatives =>
        easy.post /\ Whole(WireOf(easy, memory), asked.id, asked.size)

\* Giving curl the header list changes neither method nor body.
LEMMA ProcessWire ==
    ASSUME EHTypeOK, ProcessCurlJob
    PROVE  easy'.post = easy.post /\ WireOf(easy', memory') = WireOf(easy, memory)
  BY DEF ProcessCurlJob, EHTypeOK, WireOf, FieldsOf

\* After CurlPostRaw curl has a copy of the whole body.
LEMMA PostRawWire ==
    ASSUME EHTypeOK, PostBlocksAccounted, NEW n \in Nat, NEW str \in Nat,
           CurlPostRaw(n, str)
    PROVE  easy'.post /\ WireOf(easy', memory') = Body(starts + 1, n, "plain")
<1> DEFINE e == CopyPostFields([easy EXCEPT !.timeout = Default, !.fieldsize = n], str)
<1>1. easy' = e
  BY OwnStart DEF CurlPostRaw
<1>2. /\ e.post /\ e.postfields.copied /\ e.fieldsize = n
      /\ e.postfields.body = Body(starts + 1, n, "plain")
  BY DEF CopyPostFields, EHTypeOK
<1>3. starts + 1 \in Nat
  BY DEF EHTypeOK
<1> HIDE DEF e
<1> QED BY <1>1, <1>2, <1>3, CopiedWire

\* After CurlPostRawCompress curl is given the block that is allocated.
LEMMA PostCompressWire ==
    ASSUME EHTypeOK, PostBlocksAccounted, NEW n \in Nat, CurlPostRawCompress(n)
    PROVE  /\ easy'.post /\ Whole(WireOf(easy', memory'), starts + 1, n)
           /\ \/ WireOf(easy', memory').format = "plain" /\ UNCHANGED <<headers, lost>>
              \/ WireOf(easy', memory').format = "zlib" /\ AddHeader(Gzip)
<1> USE BlocksAssumption
<1>1. PICK a \in Blocks, m \in Nat, format \in {"plain", "zlib"} :
          /\ Whole(Body(starts + 1, m, format), starts + 1, n)
          /\ DOMAIN memory' = {a} /\ memory'[a] = Body(starts + 1, m, format)
          /\ easy' = PostEasy(a, m)
          /\ \/ format = "plain" /\ UNCHANGED <<headers, lost>>
             \/ format = "zlib" /\ AddHeader(Gzip)
  BY CompressStart
<1>2. /\ easy'.post /\ ~easy'.postfields.copied /\ easy'.postfields.block = a
      /\ easy'.fieldsize = m
  BY <1>1 DEF PostEasy, EHTypeOK
<1>3. WireOf(easy', memory') = Body(starts + 1, m, format)
  <2>1. starts + 1 \in Nat /\ format \in Formats
    BY DEF EHTypeOK, Formats
  <2> QED BY <1>1, <1>2, <2>1, BlockWire
<1>4. WireOf(easy', memory').format = format
  BY <1>3 DEF Body
<1> QED BY <1>1, <1>2, <1>3, <1>4

\* Raw posts, for every step.
LEMMA RawStep ==
    ASSUME EHTypeOK, PostBlocksAccounted, RawReady, RawPostsArriveWhole, [EHNext]_ehVars
    PROVE  RawReady' /\ RawPostsArriveWhole'
<1> USE EHBoundsAssumption DEF RawNatives
<1>1. ASSUME UNCHANGED <<sent, asked>>, phase' \notin {"queued", "running"}
             \/ UNCHANGED <<phase, easy, memory>>
      PROVE  RawReady' /\ RawPostsArriveWhole'
  BY <1>1 DEF RawReady, RawPostsArriveWhole
<1>2. CASE QuietNext
  <2>1. CASE CurlNew
    BY <2>1 DEF CurlNew, RawReady, RawPostsArriveWhole, NoRequest
  <2>2. CASE \/ Close \/ CleanHandles \/ Unloaded \/ OnCurlCompletedGameThread
             \/ CurlReceiveData
    BY <1>1, <2>2 DEF Close, CleanHandles, Unloaded, OnCurlCompletedGameThread,
       CurlReceiveData, ehVars, wishVars
  <2>3. CASE ProcessCurlJob
    <3>1. UNCHANGED <<sent, asked>> /\ phase = "queued"
      BY <2>3 DEF ProcessCurlJob, wishVars
    <3> QED BY <2>3, <3>1, ProcessWire DEF RawReady, RawPostsArriveWhole
  <2>4. CASE SendRequest
    <3>1. /\ phase = "running" /\ UNCHANGED <<phase, asked, easy, memory>>
          /\ easy.post => sent'.method = "POST" /\ sent'.body = WireOf(easy, memory)
      BY <2>4, WireIs DEF SendRequest, wishVars
    <3> QED BY <3>1 DEF RawReady, RawPostsArriveWhole
  <2>5. CASE \/ \E line \in HeaderLines : CurlAddHeader(line)
             \/ \E setting \in IntSettings : CurlSetInt(setting[1], setting[2])
    BY <1>1, <2>5 DEF CurlAddHeader, CurlSetInt
  <2> QED BY <1>2, <2>1, <2>2, <2>3, <2>4, <2>5 DEF QuietNext
<1>3. ASSUME NEW native, NEW n, NEW e, NEW b, Started(native, n, e, b)
      PROVE  /\ RawPostsArriveWhole'
             /\ asked'.native = native /\ asked'.id = starts + 1 /\ asked'.size = n
  BY <1>3 DEF Started, RawPostsArriveWhole
<1>4. CASE StartNext
  <2>1. CASE CurlGet \/ CurlStart \/ \E n \in 0..MaxSize : CurlPost(n)
    BY <1>3, <2>1 DEF CurlGet, CurlStart, CurlPost, RawReady
  <2>2. ASSUME NEW n \in 0..MaxSize, NEW str \in 0..n, CurlPostRaw(n, str)
        PROVE  RawReady' /\ RawPostsArriveWhole'
    <3>1. Whole(Body(starts + 1, n, "plain"), starts + 1, n)
      BY DEF Whole, Body
    <3>2. easy'.post /\ WireOf(easy', memory') = Body(starts + 1, n, "plain")
      BY <2>2, PostRawWire
    <3>3. RawPostsArriveWhole' /\ asked'.id = starts + 1 /\ asked'.size = n
      BY <1>3, <2>2 DEF CurlPostRaw
    <3> QED BY <3>1, <3>2, <3>3 DEF RawReady
  <2>3. ASSUME NEW n \in 0..MaxSize, CurlPostRawCompress(n)
        PROVE  RawReady' /\ RawPostsArriveWhole'
    <3>1. easy'.post /\ Whole(WireOf(easy', memory'), starts + 1, n)
      BY <2>3, PostCompressWire
    <3>2. RawPostsArriveWhole' /\ asked'.id = starts + 1 /\ asked'.size = n
      BY <1>3, <2>3 DEF CurlPostRawCompress
    <3> QED BY <3>1, <3>2 DEF RawReady
  <2> QED BY <1>4, <2>1, <2>2, <2>3 DEF StartNext
<1>5. ASSUME NEW code, CheckCompletedCurlJobs(code)
      PROVE  RawReady' /\ RawPostsArriveWhole'
  BY <1>1, <1>5 DEF CheckCompletedCurlJobs, wishVars
<1>6. CASE UNCHANGED ehVars
  BY <1>1, <1>6 DEF ehVars, wishVars
<1> QED BY <1>2, <1>4, <1>5, <1>6, StepKinds

(***************************************************************************)
(* Headers.                                                                *)
(***************************************************************************)
\* While no allocation failed, the list has what the plugin added and, if a block
\* is packed, the label; curl has the list by the time it runs.
HeadersKept ==
    /\ ~lost => added \subseteq Range(headers)
    /\ ~lost => \A a \in DOMAIN memory : memory[a].format = "zlib" => Gzip \in Range(headers)
    /\ phase = "running" /\ headers # << >> => easy.httpheader
    /\ phase = "queued" => sent = Nothing
    /\ easy.postfields.copied => easy.postfields.body.format = "plain"

\* A body on the wire is packed only if its source is.
LEMMA ZlibWire ==
    ASSUME NEW e \in EasyOptions, NEW mem, mem \in [DOMAIN mem -> Bodies],
           WireOf(e, mem).format = "zlib"
    PROVE  \/ e.postfields.copied /\ e.postfields.body.format = "zlib"
           \/ \E a \in DOMAIN mem : mem[a].format = "zlib"
<1>1. e.postfields.body \in Bodies /\ e.fieldsize \in Nat \cup {-1}
  BY DEF EasyOptions, Fields
<1>2. \A format \in {NoBody.format, Freed.format, Stdin.format} : format # "zlib"
  BY DEF NoBody, Freed, Stdin, Body
<1>3. Freed \in Bodies /\ Stdin \in Bodies
  BY DEF Freed, Stdin, Body, Bodies, Formats
<1>4. FieldsOf(e, mem) \in Bodies
  BY <1>1, <1>3 DEF FieldsOf
<1>5. FieldsOf(e, mem).format = "zlib"
  BY <1>1, <1>2, <1>4, FirstBytesFacts DEF WireOf
<1> QED BY <1>2, <1>5 DEF FieldsOf

\* Adding a header adds it and keeps the others, unless there is no memory.
LEMMA AddHeaderItems ==
    ASSUME EHTypeOK, NEW line \in Lines, AddHeader(line)
    PROVE  \/ Range(headers') = Range(headers) \cup {line} /\ lost' = lost
           \/ lost' /\ headers' = headers
<1>1. headers \in Seq(Lines)
  BY DEF EHTypeOK
<1>2. Range(Append(headers, line)) = Range(headers) \cup {line}
  BY <1>1, AppendItems
<1> QED BY <1>2 DEF AddHeader

\* An empty list has no items.
LEMMA NoItems == Range(<< >>) = {}
  BY DEF Range

\* What copying a body changes.
LEMMA CopyFacts ==
    ASSUME NEW e \in EasyOptions, NEW str
    PROVE  LET copy == CopyPostFields(e, str)
           IN  /\ copy.post /\ copy.fieldsize = e.fieldsize /\ copy.postfields.copied
               /\ copy.postfields.body =
                     Body(starts + 1, IF e.fieldsize = -1 THEN str ELSE e.fieldsize, "plain")
               /\ copy.postfields.body.format = "plain"
  BY DEF CopyPostFields, EasyOptions, Body

\* Headers, for every step.
LEMMA HeadersStep ==
    ASSUME EHTypeOK, PostBlocksAccounted, HeadersKept, HeadersArrive, [EHNext]_ehVars
    PROVE  HeadersKept' /\ HeadersArrive'
<1> USE EHBoundsAssumption, BlocksAssumption
<1>1. ASSUME UNCHANGED <<headers, lost, added, easy, memory>>,
             phase' \notin {"queued", "running"}
      PROVE  HeadersKept' /\ HeadersArrive'
  BY <1>1 DEF HeadersKept, HeadersArrive
<1>2. CASE QuietNext
  <2>1. CASE CurlNew
    <3>1. /\ phase' = "idle" /\ headers' = << >> /\ added' = {} /\ memory' = memory
          /\ easy' = NewEasy /\ DOMAIN memory = {}
      BY <2>1 DEF CurlNew, PostBlocksAccounted
    <3>2. ~NewEasy.postfields.copied
      BY DEF NewEasy, NoFields
    <3> QED BY <3>1, <3>2 DEF HeadersKept, HeadersArrive
  <2>2. CASE Close \/ CleanHandles \/ OnCurlCompletedGameThread
    BY <1>1, <2>2 DEF Close, CleanHandles, OnCurlCompletedGameThread, contextVars, wishVars
  <2>3. CASE ProcessCurlJob
    <3>1. /\ easy' = [easy EXCEPT !.httpheader = @ \/ headers # << >>]
          /\ UNCHANGED <<headers, lost, added, memory, sent>>
          /\ phase = "queued"
      BY <2>3 DEF ProcessCurlJob, contextVars, wishVars
    <3>2. easy'.postfields = easy.postfields /\ (headers # << >> => easy'.httpheader)
      BY <3>1 DEF EHTypeOK
    <3>3. HeadersKept'
      BY <3>1, <3>2 DEF HeadersKept
    <3> QED BY <3>1, <3>3 DEF HeadersKept, HeadersArrive
  <2>4. CASE SendRequest
    <3>1. /\ sent'.body = WireOf(easy, memory)
          /\ sent'.headers = IF easy.httpheader THEN headers ELSE << >>
          /\ phase = "running" /\ UNCHANGED <<phase, headers, lost, added, easy, memory>>
      BY <2>4, WireIs DEF SendRequest, contextVars, wishVars
    <3>2. Range(sent'.headers) = Range(headers)
      BY <3>1, NoItems DEF HeadersKept
    <3>3. ~lost /\ WireOf(easy, memory).format = "zlib" => Gzip \in Range(headers)
      BY ZlibWire DEF HeadersKept, EHTypeOK, EasyOptions
    <3> QED BY <3>1, <3>2, <3>3 DEF HeadersKept, HeadersArrive, Labelled
  <2>5. CASE CurlReceiveData
    BY <2>5 DEF CurlReceiveData, HeadersKept, HeadersArrive, Labelled, wishVars
  <2>6. ASSUME NEW line \in HeaderLines, CurlAddHeader(line)
        PROVE  HeadersKept' /\ HeadersArrive'
    <3>1. /\ phase' = "idle" /\ UNCHANGED <<easy, memory>> /\ added' = added \cup {line}
          /\ AddHeader(line)
      BY <2>6 DEF CurlAddHeader
    <3>2. \/ Range(headers') = Range(headers) \cup {line} /\ lost' = lost
          \/ lost' /\ headers' = headers
      BY <3>1, AddHeaderItems DEF Lines
    <3> QED BY <3>1, <3>2 DEF HeadersKept, HeadersArrive
  <2>7. ASSUME NEW setting \in IntSettings, CurlSetInt(setting[1], setting[2])
        PROVE  HeadersKept' /\ HeadersArrive'
    <3>1. phase' = "idle" /\ UNCHANGED <<headers, lost, added, memory>>
      BY <2>7 DEF CurlSetInt, contextVars
    <3>2. easy'.postfields.copied => easy'.postfields = easy.postfields
      BY <2>7, SetIntFacts
    <3> QED BY <3>1, <3>2 DEF HeadersKept, HeadersArrive
  <2>8. CASE Unloaded
    BY <2>8 DEF Unloaded, ehVars, contextVars, wishVars, HeadersKept, HeadersArrive, Labelled
  <2> QED BY <1>2, <2>1, <2>2, <2>3, <2>4, <2>5, <2>6, <2>7, <2>8 DEF QuietNext
<1>3. CASE StartNext
  <2>1. ASSUME NEW native, NEW n, NEW e, Started(native, n, e, OwnPost),
               e.postfields.copied => e.postfields.body.format = "plain"
        PROVE  HeadersKept' /\ HeadersArrive'
    <3>1. /\ DOMAIN memory = {} /\ easy' = e /\ UNCHANGED <<memory, headers, lost>>
          /\ phase' = "queued" /\ added' = added /\ sent' = Nothing
      BY <2>1, OwnStart DEF Started
    <3> QED BY <2>1, <3>1 DEF HeadersKept, HeadersArrive
  <2>2. CASE CurlGet \/ CurlStart
    BY <2>1, <2>2 DEF CurlGet, CurlStart, HeadersKept
  <2>3. ASSUME NEW n \in 0..MaxSize, CurlPost(n) PROVE HeadersKept' /\ HeadersArrive'
    BY <2>1, <2>3, CopyFacts DEF CurlPost, EHTypeOK, EasyOptions
  <2>4. ASSUME NEW n \in 0..MaxSize, NEW str \in 0..n, CurlPostRaw(n, str)
        PROVE  HeadersKept' /\ HeadersArrive'
    <3>1. n \in Nat
      OBVIOUS
    <3>2. [easy EXCEPT !.timeout = Default, !.fieldsize = n] \in EasyOptions
      BY <3>1, RawOptions, Zenon
    <3>3. PICK e \in EasyOptions : e = [easy EXCEPT !.timeout = Default, !.fieldsize = n]
      BY <3>2
    <3>4. Started("CurlPostRaw", n, CopyPostFields(e, str), OwnPost)
      BY <2>4, <3>3 DEF CurlPostRaw
    <3>5. CopyPostFields(e, str).postfields.body.format = "plain"
      BY CopyFacts
    <3> QED BY <2>1, <3>4, <3>5
  <2>5. ASSUME NEW n \in 0..MaxSize, CurlPostRawCompress(n)
        PROVE  HeadersKept' /\ HeadersArrive'
    <3>0. n \in Nat /\ NULL \notin Blocks
      OBVIOUS
    <3>1. PICK a \in Blocks, m \in Nat, format \in {"plain", "zlib"} :
              /\ DOMAIN memory' = {a} /\ memory'[a] = Body(starts + 1, m, format)
              /\ easy' = PostEasy(a, m)
              /\ \/ format = "plain" /\ UNCHANGED <<headers, lost>>
                 \/ format = "zlib" /\ AddHeader(Gzip)
      BY <2>5, <3>0, CompressStart, Zenon
    <3>2. ~easy'.postfields.copied /\ memory'[a].format = format
      BY <3>1 DEF PostEasy, EHTypeOK, Body
    <3>3. \/ format = "plain" /\ UNCHANGED <<headers, lost>>
          \/ Range(headers') = Range(headers) \cup {Gzip} /\ lost' = lost
          \/ lost'
      BY <3>1, AddHeaderItems DEF Lines
    <3>4. phase' = "queued" /\ added' = added /\ sent' = Nothing
      BY <2>5 DEF CurlPostRawCompress, Started
    <3> QED BY <3>1, <3>2, <3>3, <3>4 DEF HeadersKept, HeadersArrive
  <2> QED BY <1>3, <2>2, <2>3, <2>4, <2>5 DEF StartNext
<1>4. ASSUME NEW code, CheckCompletedCurlJobs(code) PROVE HeadersKept' /\ HeadersArrive'
  <2>1. /\ DOMAIN memory' = {} /\ phase' = "done"
        /\ UNCHANGED <<headers, lost, added, easy>>
    BY <1>4, CompletedBlocks DEF CheckCompletedCurlJobs, wishVars
  <2> QED BY <2>1 DEF HeadersKept, HeadersArrive
<1>5. CASE UNCHANGED ehVars
  BY <1>5 DEF ehVars, contextVars, wishVars, HeadersKept, HeadersArrive, Labelled
<1> QED BY <1>2, <1>3, <1>4, <1>5, StepKinds

(***************************************************************************)
(* The first request.                                                      *)
(***************************************************************************)
\* A handle that was never used is as CurlNew left it, but for headers and
\* options of the plugin; the request it is used for first is then what curl has.
Untouched ==
    starts = 0 => /\ phase \in {"none", "idle", "unloaded"} /\ sent = Nothing
                  /\ own.body \/ (~easy.post /\ easy.fieldsize = -1)
                  /\ Gzip \notin Range(headers)

FirstReady ==
    starts = 1 /\ ~own.body /\ phase \in {"queued", "running"} =>
        /\ asked.native = "CurlGet" => ~easy.post
        /\ asked.native \in {"CurlPost", "CurlPostRaw", "CurlPostRawCompress"} =>
              easy.post /\ Whole(WireOf(easy, memory), asked.id, asked.size)
        /\ Gzip \in Range(headers) =>
              easy.post /\ WireOf(easy, memory).format = "zlib"

FirstInv == Untouched /\ FirstReady /\ FirstRequestIsAsAsked

\* A request that is started has not been sent.
LEMMA StartedFirst ==
    ASSUME EHTypeOK, NEW native, NEW n, NEW e, NEW b, Started(native, n, e, b)
    PROVE  /\ Untouched' /\ FirstRequestIsAsAsked' /\ phase = "idle"
           /\ asked'.native = native /\ asked'.id = starts + 1 /\ asked'.size = n
           /\ starts' = 1 => starts = 0
           /\ own' = own
<1>1. /\ starts \in Nat /\ starts' = starts + 1 /\ phase = "idle" /\ sent' = Nothing
      /\ asked' = [native |-> native, id |-> starts + 1, size |-> n] /\ own' = own
  BY DEF EHTypeOK, Started
<1>2. starts' # 0 /\ (starts' = 1 => starts = 0)
  BY <1>1
<1> QED BY <1>1, <1>2 DEF Untouched, FirstRequestIsAsAsked, AsAsked

\* The first request, for the steps that start a request.
LEMMA FirstStart ==
    ASSUME EHTypeOK, PostBlocksAccounted, FirstInv, StartNext
    PROVE  FirstInv'
<1> USE EHBoundsAssumption
<1>1. easy \in EasyOptions
  BY DEF EHTypeOK, EasyOptions
<1>2. CASE CurlGet \/ CurlStart
  <2>1. PICK native \in {"CurlGet", "CurlStart"} : Started(native, 0, easy, OwnPost)
    BY <1>2 DEF CurlGet, CurlStart
  <2>2. easy' = easy /\ headers' = headers
    BY <2>1, OwnStart
  <2> QED BY <2>1, <2>2, StartedFirst DEF FirstInv, Untouched, FirstReady
<1>3. ASSUME NEW n \in 0..MaxSize, CurlPost(n) PROVE FirstInv'
  <2>1. Started("CurlPost", n, CopyPostFields(easy, n), OwnPost)
    BY <1>3 DEF CurlPost
  <2>2. easy' = CopyPostFields(easy, n) /\ headers' = headers
    BY <2>1, OwnStart
  <2>3. ASSUME starts = 0, ~own.body
        PROVE  easy'.post /\ WireOf(easy', memory') = Body(starts + 1, n, "plain")
    <3>1. easy.fieldsize = -1
      BY <2>3 DEF FirstInv, Untouched
    <3>2. /\ easy'.post /\ easy'.fieldsize = -1 /\ easy'.postfields.copied
          /\ easy'.postfields.body = Body(starts + 1, n, "plain")
      BY <1>1, <2>2, <3>1, CopyFacts
    <3>3. starts + 1 \in Nat /\ n \in Nat
      BY DEF EHTypeOK
    <3> QED BY <3>2, <3>3, CopiedWire
  <2>4. Whole(Body(starts + 1, n, "plain"), starts + 1, n)
    BY DEF Whole, Body
  <2> QED BY <2>1, <2>2, <2>3, <2>4, StartedFirst DEF FirstInv, Untouched, FirstReady
<1>4. ASSUME NEW n \in 0..MaxSize, NEW str \in 0..n, CurlPostRaw(n, str) PROVE FirstInv'
  <2>1. \E e : Started("CurlPostRaw", n, e, OwnPost)
    BY <1>4 DEF CurlPostRaw
  <2>2. easy'.post /\ WireOf(easy', memory') = Body(starts + 1, n, "plain")
    BY <1>4, PostRawWire
  <2>3. headers' = headers
    BY <2>1, OwnStart
  <2>4. Whole(Body(starts + 1, n, "plain"), starts + 1, n)
    BY DEF Whole, Body
  <2> QED BY <2>1, <2>2, <2>3, <2>4, StartedFirst DEF FirstInv, Untouched, FirstReady
<1>5. ASSUME NEW n \in 0..MaxSize, CurlPostRawCompress(n) PROVE FirstInv'
  <2>1. \E e, b : Started("CurlPostRawCompress", n, e, b)
    BY <1>5 DEF CurlPostRawCompress
  <2>2. /\ easy'.post /\ Whole(WireOf(easy', memory'), starts + 1, n)
        /\ WireOf(easy', memory').format = "zlib" \/ headers' = headers
    BY <1>5, PostCompressWire
  <2> QED BY <2>1, <2>2, StartedFirst DEF FirstInv, Untouched, FirstReady
<1> QED BY <1>2, <1>3, <1>4, <1>5 DEF StartNext

\* The first request, for every step.
LEMMA FirstStep ==
    ASSUME EHTypeOK, PostBlocksAccounted, FirstInv, [EHNext]_ehVars
    PROVE  FirstInv'
<1> USE EHBoundsAssumption DEF FirstInv
<1>1. ASSUME UNCHANGED <<starts, sent, asked, own>>, phase' \notin {"queued", "running"},
             starts = 0 => /\ phase' \in {"none", "idle", "unloaded"}
                           /\ UNCHANGED <<easy, headers>>
      PROVE  FirstInv'
  BY <1>1 DEF Untouched, FirstReady, FirstRequestIsAsAsked, AsAsked, Labelled
<1>2. CASE QuietNext
  <2>1. CASE CurlNew
    <3>1. /\ starts' = 0 /\ phase' = "idle" /\ sent' = Nothing /\ easy' = NewEasy
          /\ headers' = << >>
      BY <2>1 DEF CurlNew
    <3>2. ~easy'.post /\ easy'.fieldsize = -1
      BY <3>1 DEF NewEasy
    <3> QED BY <3>1, <3>2, NoItems DEF Untouched, FirstReady, FirstRequestIsAsAsked
  <2>2. CASE Close \/ CleanHandles \/ OnCurlCompletedGameThread
    BY <1>1, <2>2 DEF Close, CleanHandles, OnCurlCompletedGameThread, contextVars, wishVars
  <2>3. CASE ProcessCurlJob
    <3>1. /\ UNCHANGED <<starts, sent, asked, own, headers>>
          /\ phase = "queued" /\ phase' = "running"
      BY <2>3 DEF ProcessCurlJob, contextVars, wishVars
    <3>2. easy'.post = easy.post /\ WireOf(easy', memory') = WireOf(easy, memory)
      BY <2>3, ProcessWire
    <3> QED BY <3>1, <3>2
        DEF Untouched, FirstReady, FirstRequestIsAsAsked, AsAsked, Labelled
  <2>4. CASE SendRequest
    <3>1. /\ sent'.method = (IF easy.post THEN "POST" ELSE "GET")
          /\ sent'.body = WireOf(easy, memory)
          /\ sent'.headers = IF easy.httpheader THEN headers ELSE << >>
          /\ phase = "running"
          /\ UNCHANGED <<phase, starts, asked, own, headers, easy, memory>>
      BY <2>4, WireIs DEF SendRequest, contextVars, wishVars
    <3>2. Gzip \in Range(sent'.headers) => Gzip \in Range(headers)
      BY <3>1, NoItems
    <3>3. ~easy.post => WireOf(easy, memory) = NoBody
      BY DEF WireOf
    <3> QED BY <3>1, <3>2, <3>3
        DEF Untouched, FirstReady, FirstRequestIsAsAsked, AsAsked, Labelled
  <2>5. CASE CurlReceiveData
    BY <2>5 DEF CurlReceiveData, wishVars, Untouched, FirstReady, FirstRequestIsAsAsked,
       AsAsked, Labelled
  <2>6. ASSUME NEW line \in HeaderLines, CurlAddHeader(line) PROVE FirstInv'
    <3>1. /\ phase' = "idle" /\ UNCHANGED <<starts, sent, asked, own, easy>>
          /\ AddHeader(line)
      BY <2>6 DEF CurlAddHeader
    <3>2. \/ Range(headers') = Range(headers) \cup {line}
          \/ headers' = headers
      BY <3>1, AddHeaderItems DEF Lines
    <3>3. line # Gzip
      BY HeadersAssumption DEF Gzip
    <3> QED BY <3>1, <3>2, <3>3
        DEF Untouched, FirstReady, FirstRequestIsAsAsked, AsAsked, Labelled
  <2>7. ASSUME NEW setting \in IntSettings, CurlSetInt(setting[1], setting[2])
        PROVE  FirstInv'
    <3>1. phase = "idle" /\ phase' = "idle" /\ UNCHANGED <<starts, sent, asked, headers>>
      BY <2>7 DEF CurlSetInt, contextVars
    <3>2. \/ own'.body
          \/ easy'.post = easy.post /\ easy'.fieldsize = easy.fieldsize /\ ~own.body
      BY <2>7, SetIntFacts
    <3> QED BY <3>1, <3>2
        DEF Untouched, FirstReady, FirstRequestIsAsAsked, AsAsked, Labelled
  <2>8. CASE Unloaded
    BY <2>8 DEF Unloaded, ehVars, contextVars, wishVars, Untouched, FirstReady,
       FirstRequestIsAsAsked, AsAsked, Labelled
  <2> QED BY <1>2, <2>1, <2>2, <2>3, <2>4, <2>5, <2>6, <2>7, <2>8 DEF QuietNext
<1>3. ASSUME NEW code, CheckCompletedCurlJobs(code) PROVE FirstInv'
  <2>1. /\ phase = "running" /\ phase' = "done" /\ UNCHANGED <<starts, sent, asked, own>>
    BY <1>3 DEF CheckCompletedCurlJobs, wishVars
  <2>2. starts # 0
    BY <2>1 DEF Untouched
  <2> QED BY <1>1, <2>1, <2>2
<1>4. CASE UNCHANGED ehVars
  BY <1>4 DEF ehVars, contextVars, wishVars, Untouched, FirstReady, FirstRequestIsAsAsked,
     AsAsked, Labelled
<1> QED BY <1>2, <1>3, <1>4, FirstStart, StepKinds

(***************************************************************************)
(* Theorems.                                                               *)
(***************************************************************************)
\* The state before the first CurlNew.
LEMMA EHStart ==
    ASSUME EHInit
    PROVE  EHTypeOK /\ PostBlocksAccounted /\ RawReady /\ RawPostsArriveWhole
<1> USE BlocksAssumption
<1>1. NoBody \in Bodies
  BY DEF NoBody, Body, Bodies, Formats
<1>2. NewEasy \in EasyOptions
  <2>1. NoFields \in Fields
    BY <1>1 DEF NoFields, Fields
  <2> QED BY <2>1, DefaultTypes DEF NewEasy, EasyOptions
<1>3. /\ NoRequest \in [native : NativeNames, id : Nat, size : Nat]
      /\ Nothing \in [method : {"none", "GET", "POST"}, body : Bodies, headers : Seq(Lines)]
  BY <1>1 DEF NoRequest, NativeNames, Nothing
<1>4. EHTypeOK
  <2>1. /\ headers \in Seq(Lines) /\ buffer \in Seq(Nat) /\ post \in Blocks \cup {NULL}
        /\ postLength \in Nat /\ curlcode \in {-1, 0, 28} /\ phase = "none"
    BY DEF EHInit
  <2>2. DOMAIN memory \subseteq Blocks /\ memory \in [DOMAIN memory -> Bodies]
    BY DEF EHInit
  <2>3. /\ easy \in EasyOptions /\ lost \in BOOLEAN /\ size \in Nat /\ starts \in Nat
        /\ asked \in [native : NativeNames, id : Nat, size : Nat]
        /\ sent \in [method : {"none", "GET", "POST"}, body : Bodies, headers : Seq(Lines)]
        /\ added \subseteq HeaderLines /\ own \in [timeout : Nat, body : BOOLEAN]
    BY <1>2, <1>3, DefaultTypes DEF EHInit
  <2> QED BY <2>1, <2>2, <2>3 DEF EHTypeOK, EasyOptions
<1>5. PostBlocksAccounted /\ RawReady /\ RawPostsArriveWhole
  BY DEF EHInit, PostBlocksAccounted, RawReady, RawPostsArriveWhole, NoRequest, RawNatives
<1> QED BY <1>4, <1>5

\* Types and blocks hold at all times.
LEMMA BlocksCorrect == EHSpec => [](EHTypeOK /\ PostBlocksAccounted)
<1>1. EHInit => EHTypeOK /\ PostBlocksAccounted
  BY EHStart
<1>2. EHTypeOK /\ PostBlocksAccounted /\ [EHNext]_ehVars
      => (EHTypeOK /\ PostBlocksAccounted)'
  BY BlocksStep
<1> QED BY <1>1, <1>2, PTL DEF EHSpec

\* Type correctness of the easy handle, the header list and the post bodies.
THEOREM EasyHandleTypes == EHSpec => []EHTypeOK
  BY BlocksCorrect, PTL

\* For every series of requests on a handle, and an unload of the extension at any
\* moment: the only post body allocated is that of the last request, and it is freed,
\* once, before the request is delivered, unless the unload comes first.
THEOREM BodiesAccounted == EHSpec => []PostBlocksAccounted
  BY BlocksCorrect, PTL

\* CurlPostRaw and CurlPostRawCompress send all of the body they were given, for
\* bodies of every size, after every series of requests, whatever compress2 does.
THEOREM RawPostsWhole == EHSpec => []RawPostsArriveWhole
<1>1. EHInit => RawReady /\ RawPostsArriveWhole
  BY EHStart
<1>2. EHTypeOK /\ PostBlocksAccounted /\ RawReady /\ RawPostsArriveWhole
      /\ [EHNext]_ehVars => (RawReady /\ RawPostsArriveWhole)'
  BY RawStep
<1> QED BY <1>1, <1>2, BlocksCorrect, PTL DEF EHSpec

\* While the header list can be allocated, what a plugin added is sent and packed
\* bodies are labelled, on every use of a handle.
THEOREM HeadersArriveAlways == EHSpec => []HeadersArrive
<1>1. EHInit => HeadersKept /\ HeadersArrive
  BY NoItems DEF EHInit, HeadersKept, HeadersArrive, NewEasy, NoFields
<1>2. EHTypeOK /\ PostBlocksAccounted /\ HeadersKept /\ HeadersArrive /\ [EHNext]_ehVars
      => (HeadersKept /\ HeadersArrive)'
  BY HeadersStep
<1> QED BY <1>1, <1>2, BlocksCorrect, PTL DEF EHSpec

\* The first request on a handle has the method and the body that were asked for,
\* and is labelled only if it is packed, whatever headers and other options are set.
THEOREM FirstRequestCorrect == EHSpec => []FirstRequestIsAsAsked
<1>1. EHInit => FirstInv
  BY NoItems DEF EHInit, FirstInv, Untouched, FirstReady, FirstRequestIsAsAsked, NewEasy
<1>2. EHTypeOK /\ PostBlocksAccounted /\ FirstInv /\ [EHNext]_ehVars => FirstInv'
  BY FirstStep
<1>3. FirstInv => FirstRequestIsAsAsked
  BY DEF FirstInv
<1> QED BY <1>1, <1>2, <1>3, BlocksCorrect, PTL DEF EHSpec
=============================================================================
