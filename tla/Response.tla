------------------------------ MODULE Response ------------------------------
(***************************************************************************)
(* What a plugin reads of a response: the header lines that curl delivers, *)
(* taken apart by CurlReceiveHeaders and looked up by the header natives,  *)
(* and the data that CurlGetData copies into a plugin's buffer             *)
(* (extension.cpp, natives.cpp, the stock Async_CurlGetDataString in       *)
(* async.inc).                                                             *)
(*                                                                         *)
(* A line is a sequence of characters, with the line end that curl leaves  *)
(* on it.  The alphabet is as small as the code's tests allow: a colon, a  *)
(* space ("SP"), a letter in both cases.                                   *)
(***************************************************************************)
EXTENDS Integers, SequencesExt

CONSTANTS MaxLine,      \* bound: characters of a header line before its end
          MaxData,      \* bound: bytes of data received
          MaxReceived,  \* bound: header lines and bytes of data received together
          BufferSizes   \* sizes of the buffers a plugin copies data to

ASSUME MaxAssumption == MaxLine \in Nat /\ MaxData \in Nat /\ MaxReceived \in Nat
ASSUME SizesAssumption == BufferSizes \subseteq 0..MaxData + 1

VARIABLES
    response_headers,   \* of the context: values by name
    buffer,             \* of the context: the data
    array,              \* the plugin's memory from the start of its buffer on
    \* history: the lines received, how many of them before this response, the
    \* last call that copied data
    lines, earlier, call

rVars == <<response_headers, buffer, array, lines, earlier, call>>

Letters == {"x", "X"}
Characters == Letters \cup {":", "SP"}
LineEnd == <<"CR", "LF">>
HeaderLines == {l \o LineEnd : l \in BoundedSeq(Characters, MaxLine)}
Names == BoundedSeq(Letters, MaxLine) \ {<< >>}

\* A call that copies data: the size of the buffer and, for the stock, the size of
\* the data that the plugin gives it.
Call(native, buffer_size, size) == [native |-> native, size |-> buffer_size, given |-> size]
NoCall == Call("none", 0, 0)
Old == -1       \* what the plugin's memory held before

RInit ==
    /\ response_headers = [name \in {} |-> << >>] /\ buffer = << >>
    /\ array = [i \in 0..MaxData + 2 |-> Old]
    /\ lines = << >> /\ earlier = 0 /\ call = NoCall

(***************************************************************************)
(* Headers.                                                                *)
(***************************************************************************)
\* Mutant: the case is left as it is.
tolower_Same(name) == name

tolower(name) == [i \in DOMAIN name |-> IF name[i] = "X" THEN "x" ELSE name[i]]

trim(str) ==
    LET first == SelectInSeq(str, LAMBDA ch : ch # "SP")
        last == SelectLastInSeq(str, LAMBDA ch : ch # "SP")
    IN IF first = 0 THEN str ELSE SubSeq(str, first, last)

Delimiter(line) == SelectInSeq(line, LAMBDA ch : ch = ":")

\* Mutant: the last colon separates name and value.
HeadersWith_LastColon(headers, line) ==
    LET delimiter == SelectLastInSeq(line, LAMBDA ch : ch = ":")
        name == tolower(SubSeq(line, 1, delimiter - 1))
        value == trim(SubSeq(line, delimiter + 1, Len(line)))
    IN IF delimiter = 0 THEN headers
       ELSE [n \in DOMAIN headers \cup {name} |-> IF n = name THEN value ELSE headers[n]]

\* The map after one more line; a line without a colon is passed over.
HeadersWith(headers, line) ==
    LET delimiter == Delimiter(line)
        name == tolower(SubSeq(line, 1, delimiter - 1))
        value == trim(SubSeq(line, delimiter + 1, Len(line)))
    IN IF delimiter = 0 THEN headers
       ELSE [n \in DOMAIN headers \cup {name} |-> IF n = name THEN value ELSE headers[n]]

CurlReceiveHeaders(line) ==
    /\ Len(lines) + Len(buffer) < MaxReceived
    /\ response_headers' = HeadersWith(response_headers, line)
    /\ lines' = Append(lines, line)
    /\ UNCHANGED <<buffer, array, earlier, call>>

\* Another response begins: after a redirect, which CurlNew lets curl follow, or
\* because the handle is used again.  Nothing in the context changes.
NextResponse ==
    /\ earlier < Len(lines)
    /\ earlier' = Len(lines)
    /\ UNCHANGED <<response_headers, buffer, array, lines, call>>

CurlGetResponseHeaderSize(name) ==
    IF tolower(name) \notin DOMAIN response_headers THEN -1
    ELSE Len(response_headers[tolower(name)])

\* The result, and the text that StringToLocal leaves in an output of n characters,
\* the last of which is the terminating zero.
CurlGetResponseHeader(name, n) ==
    IF tolower(name) \notin DOMAIN response_headers THEN [result |-> -1, text |-> << >>]
    ELSE LET value == response_headers[tolower(name)]
         IN [result |-> Len(value),
             text |-> SubSeq(value, 1, IF Len(value) < n THEN Len(value) ELSE n - 1)]

(***************************************************************************)
(* Data.                                                                   *)
(***************************************************************************)
\* Data of this response or of the next one on the handle.
CurlReceiveData(byte) ==
    /\ Len(buffer) < MaxData /\ Len(lines) + Len(buffer) < MaxReceived
    /\ buffer' = Append(buffer, byte)
    /\ call' = NoCall
    /\ UNCHANGED <<response_headers, array, lines, earlier>>

\* Mutant: one byte too few is copied.
GetData_TooFew(memory, sbuffer_size) ==
    [i \in DOMAIN memory |->
        IF i + 1 < sbuffer_size /\ i < Len(buffer) THEN buffer[i + 1] ELSE memory[i]]

\* Mutant: the zero is put behind data that fill the buffer, too.
GetData_AlwaysEnds(memory, sbuffer_size) ==
    [i \in DOMAIN memory |->
        IF i < sbuffer_size /\ i < Len(buffer) THEN buffer[i + 1]
        ELSE IF i = Len(buffer) + 1 THEN 0
        ELSE memory[i]]

\* The plugin's memory after CurlGetData: the smaller of the two sizes is copied,
\* and if there is room a zero is put one place after the end of the data.
GetData(memory, sbuffer_size) ==
    [i \in DOMAIN memory |->
        IF i < sbuffer_size /\ i < Len(buffer) THEN buffer[i + 1]
        ELSE IF sbuffer_size > Len(buffer) /\ i = Len(buffer) + 1 THEN 0
        ELSE memory[i]]

\* Each call is looked at with a fresh plugin buffer.
Fresh == [i \in DOMAIN array |-> Old]

CurlGetData(buffer_size) ==
    /\ array' = GetData(Fresh, buffer_size)
    /\ call' = Call("CurlGetData", buffer_size, 0)
    /\ UNCHANGED <<response_headers, buffer, lines, earlier>>

\* Mutant: the zero is put at the end of the data, however long they are.
Terminated_Unbounded(memory, buffer_size, size) ==
    IF buffer_size = 0 THEN memory ELSE [memory EXCEPT ![size] = 0]

Terminated(memory, buffer_size, size) ==
    IF buffer_size = 0 THEN memory
    ELSE IF size < buffer_size THEN [memory EXCEPT ![size] = 0]
    ELSE [memory EXCEPT ![buffer_size - 1] = 0]

\* What the completion callback gives as size: 0 for a transfer that failed, whatever
\* it received before.
CallbackSizes == {Len(buffer), 0}

\* The stock, called with the size that the completion callback got.
CurlGetDataString(buffer_size, size) ==
    /\ array' = Terminated(GetData(Fresh, buffer_size), buffer_size, size)
    /\ call' = Call("CurlGetDataString", buffer_size, size)
    /\ UNCHANGED <<response_headers, buffer, lines, earlier>>

RNext ==
    \/ \E line \in HeaderLines : CurlReceiveHeaders(line)
    \/ NextResponse
    \/ \E byte \in {1, 2} : CurlReceiveData(byte)
    \/ \E n \in BufferSizes :
          CurlGetData(n) \/ \E size \in CallbackSizes : CurlGetDataString(n, size)

RSpec == RInit /\ [][RNext]_rVars

(***************************************************************************)
(* Properties.                                                             *)
(***************************************************************************)
\* The type of every variable of Response.
RTypeOK ==
    /\ \A name \in DOMAIN response_headers :
          /\ name \in Seq({"x", "SP"})
          /\ response_headers[name] \in Seq(Characters \cup {"CR", "LF"})
    /\ buffer \in Seq({1, 2}) /\ array \in [0..MaxData + 2 -> {Old, 0, 1, 2}]
    /\ lines \in Seq(HeaderLines) /\ earlier \in 0..Len(lines)
    /\ call \in [native : {"none", "CurlGetData", "CurlGetDataString"},
                size : Nat, given : Nat]

SameName(a, b) ==
    Len(a) = Len(b) /\ \A i \in DOMAIN a : {a[i], b[i]} \subseteq Letters \/ a[i] = b[i]

\* The line is a header of that name: it stands before the first colon.
IsHeader(line, name) ==
    \E i \in DOMAIN line : /\ line[i] = ":" /\ \A k \in 1..i - 1 : line[k] # ":"
                           /\ SameName(SubSeq(line, 1, i - 1), name)

\* value is what follows that colon and the spaces after it.
HasValue(line, value) ==
    \E i, j \in DOMAIN line :
        /\ i <= j /\ line[i] = ":" /\ \A k \in 1..i - 1 : line[k] # ":"
        /\ \A k \in i + 1..j : line[k] = "SP"
        /\ line[j + 1] # "SP" /\ value = SubSeq(line, j + 1, Len(line))

\* The lines of a name, and the last of them.
Given(name) == {k \in DOMAIN lines : IsHeader(lines[k], name)}
LastGiven(name) == lines[Max(Given(name))]

\* Every spelling of a name finds the last line received for it, no other name
\* finds anything, and an output of the announced size and one more, which
\* test-async.sp uses, takes all of the value.
HeaderIsLastGiven ==
    \A name \in Names :
        LET size == CurlGetResponseHeaderSize(name)
            header == CurlGetResponseHeader(name, size + 1)
        IN /\ header.result = size
           /\ IF Given(name) = {} THEN size = -1
              ELSE Len(header.text) = size /\ HasValue(LastGiven(name), header.text)

Smaller(a, b) == IF a < b THEN a ELSE b

\* CurlGetData gives the start of the data, as much as fits.
DataIsCopied ==
    call.native = "CurlGetData" =>
        \A i \in 0..Smaller(call.size, Len(buffer)) - 1 : array[i] = buffer[i + 1]

\* Async_CurlGetDataString leaves a string in the buffer, that is, the start of
\* the data and a zero after it, although CurlGetData writes its own zero elsewhere:
\* after a failed transfer, an empty string, whatever was received of the response.
StringIsTerminated ==
    call.native = "CurlGetDataString" /\ call.size > 0 =>
        LET length == Smaller(call.size - 1, call.given)
        IN array[length] = 0 /\ \A i \in 0..length - 1 : array[i] = buffer[i + 1]

\* CurlGetData, which ends the data one place too far, and the stock on top of it
\* write outside the buffer in one case only: one place after a buffer that is
\* larger than the data by exactly one.
OverrunIsByOne ==
    \A i \in DOMAIN array : call # NoCall /\ i >= call.size /\ array[i] # Old =>
        i = call.size /\ call.size = Len(buffer) + 1

(***************************************************************************)
(* What the documentation says and the code does not do.  TLC refutes each *)
(* of these as an INVARIANT of MCResponse.cfg.                             *)
(***************************************************************************)
\* async.inc: the native is told buffer_size: what lies after the buffer is left
\* alone.
WritesStayInBuffer ==
    \A i \in DOMAIN array : call # NoCall /\ i >= call.size => array[i] = Old

\* async.inc: Async_CurlGetResponseHeaderSize "returns the length of the header
\* value", of which the line end is no part.
SizeIsValueLength ==
    \A name \in Names : Given(name) # {} =>
        \E value \in BoundedSeq(Characters, MaxLine) :
            /\ HasValue(LastGiven(name), value \o LineEnd)
            /\ CurlGetResponseHeaderSize(name) = Len(value)

\* async.inc: "Returns -1 if header was not found" in this response.
HeaderIsOfThisResponse ==
    \A name \in Names : CurlGetResponseHeaderSize(name) # -1 =>
        \E k \in Given(name) : k > earlier
=============================================================================
