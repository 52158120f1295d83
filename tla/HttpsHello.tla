----------------------------- MODULE HttpsHello -----------------------------
(***************************************************************************)
(* HttpsHandle of https.go: it reads the first TLS record of a connection, *)
(* looks in it for the name of the server, dials the remote and passes the *)
(* record on before it copies.  The record is a sequence of bytes, so that *)
(* every offset is the code's own.  It arrives in one piece or in two, and *)
(* a Read returns what has arrived: a buffer that it does not fill keeps   *)
(* its zeros, and nobody looks at the count.                               *)
(***************************************************************************)
EXTENDS Integers, Sequences, SequencesExt

CONSTANT Hello   \* records that clients send: bytes, the server's name, where extensions are

Byte == 0 .. 255

ASSUME HelloAssumption == \A h \in Hello : h.bytes \in Seq(Byte) /\ h.name \in Seq(Byte)

VARIABLES
  hello,     \* what the client sends
  arrived,   \* bytes that have arrived
  taken,     \* bytes taken by Read
  short,     \* whether a Read did not fill its buffer, a history variable
  hpc,       \* where the handler is
  rec,       \* firstByte, versionBytes, restLengthBytes and rest
  current,   \* the offset in rest
  hostname,
  sent       \* what the remote has got

hvars == <<hello, arrived, taken, short, hpc, rec, current, hostname, sent>>
parse == <<rec, current, hostname>>
network == <<hello, arrived, taken, short>>

HelloInit ==
  /\ hello \in Hello
  /\ arrived \in 1 .. Len(hello.bytes)
  /\ taken = 0 /\ short = FALSE /\ hpc = "type"
  /\ rec = <<>> /\ current = 0 /\ hostname = <<>> /\ sent = <<>>

RestArrives ==
  /\ arrived < Len(hello.bytes)
  /\ arrived' = Len(hello.bytes)
  /\ UNCHANGED <<hello, taken, short, hpc, parse, sent>>

restLength == 256 * rec[4] + rec[5]
Rest == SubSeq(rec, 6, Len(rec))

(* The k bytes of a buffer after Read; a Read of nothing does not wait.    *)
Read(k) ==
  LET m == IF arrived - taken < k THEN arrived - taken ELSE k IN
    /\ k > 0 => m > 0
    /\ rec' = rec \o SubSeq(hello.bytes, taken + 1, taken + m) \o [i \in 1 .. k - m |-> 0]
    /\ taken' = taken + m
    /\ short' = (short \/ m < k)
    /\ UNCHANGED <<hello, arrived, hostname, sent>>

ReadsType ==
  /\ hpc = "type" /\ Read(1)
  /\ hpc' = IF rec'[1] = 22 THEN "version" ELSE "closed"
  /\ UNCHANGED current

ReadsVersion ==
  /\ hpc = "version" /\ Read(2)
  /\ hpc' = IF rec'[2] < 3 \/ (rec'[2] = 3 /\ rec'[3] < 1) THEN "closed" ELSE "length"
  /\ UNCHANGED current

ReadsLength ==
  /\ hpc = "length" /\ Read(2)
  /\ hpc' = "rest"
  /\ UNCHANGED current

ReadsRest ==
  /\ hpc = "rest" /\ Read(restLength)
  /\ hpc' = IF restLength = 0 \/ rec'[6] # 1 THEN "closed" ELSE "session"
  /\ current' = 1 + 3 + 2 + (4 + 28)

(* The client closes before the record is complete.                        *)
ReadFails ==
  /\ hpc \in {"type", "version", "length", "rest"}
  /\ hpc' = "closed"
  /\ UNCHANGED <<network, parse, sent>>

-----------------------------------------------------------------------------
(* The search for the name.  An index beyond the end panics.               *)

Num(i, width) == IF width = 1 THEN Rest[i + 1] ELSE 256 * Rest[i + 1] + Rest[i + 2]
Inside(i, width) == i + width <= Len(Rest)
parsing == <<network, rec, sent>>

(* A field whose length comes first.                                       *)
Skips(at, width, next) ==
  /\ hpc = at
  /\ IF Inside(current, width)
     THEN current' = current + width + Num(current, width) /\ hpc' = next
     ELSE hpc' = "panicked" /\ UNCHANGED current
  /\ UNCHANGED <<parsing, hostname>>

(* Mutant: the number of cipher suites is taken for their length.          *)
SkipsFields_OneByte == \/ Skips("session", 1, "suites") \/ Skips("suites", 1, "compression")
                       \/ Skips("compression", 1, "bound")

SkipsFields == \/ Skips("session", 1, "suites") \/ Skips("suites", 2, "compression")
               \/ Skips("compression", 1, "bound")

ChecksBound ==
  /\ hpc = "bound"
  /\ current' = current + 2
  /\ hpc' = IF current > restLength THEN "closed" ELSE "extension"
  /\ UNCHANGED <<parsing, hostname>>

More == current < restLength /\ hostname = <<>>

ToLower(s) == [i \in DOMAIN s |-> IF s[i] \in 65 .. 90 THEN s[i] + 32 ELSE s[i]]

SkipsExtension ==
  /\ hpc = "extension" /\ More
  /\ IF ~Inside(current, 4) THEN hpc' = "panicked" /\ UNCHANGED current
     ELSE IF Num(current, 2) = 0 THEN hpc' = "name" /\ UNCHANGED current
     ELSE current' = current + 4 + Num(current + 2, 2) /\ UNCHANGED hpc
  /\ UNCHANGED <<parsing, hostname>>

(* The name list's length, the name's type, its length and the name follow *)
(* the type and the length of the extension.                               *)
ReadsName ==
  /\ hpc = "name"
  /\ LET type == current + 6  len == type + 1  name == len + 2 IN
       CASE ~Inside(type, 1) -> hpc' = "panicked" /\ UNCHANGED <<current, hostname>>
         [] Inside(type, 1) /\ Num(type, 1) # 0 -> hpc' = "closed" /\ UNCHANGED <<current, hostname>>
         [] Inside(type, 1) /\ Num(type, 1) = 0 /\ ~(Inside(len, 2) /\ Inside(name, Num(len, 2))) ->
              hpc' = "panicked" /\ UNCHANGED <<current, hostname>>
         [] OTHER -> /\ hostname' = ToLower(SubSeq(Rest, name + 1, name + Num(len, 2)))
                     /\ current' = name + Num(current + 2, 2)
                     /\ hpc' = "extension"
  /\ UNCHANGED parsing

EndsSearch ==
  /\ hpc = "extension" /\ ~More
  /\ hpc' = IF hostname = <<>> THEN "closed" ELSE "dial"
  /\ UNCHANGED <<network, parse, sent>>

-----------------------------------------------------------------------------
(* The remote gets the record, then whatever follows it.                   *)

DialFails ==
  /\ hpc = "dial"
  /\ hpc' = "closed"
  /\ UNCHANGED <<network, parse, sent>>

DialsAndWrites_NoLength ==                                         \* mutant
  /\ hpc = "dial"
  /\ hpc' = "copy"
  /\ sent' = SubSeq(rec, 1, 3) \o Rest
  /\ UNCHANGED <<network, parse>>

DialsAndWrites ==
  /\ hpc = "dial"
  /\ hpc' = "copy"
  /\ sent' = rec
  /\ UNCHANGED <<network, parse>>

CopiesOn ==
  /\ hpc = "copy" /\ taken < arrived
  /\ sent' = sent \o SubSeq(hello.bytes, taken + 1, arrived)
  /\ taken' = arrived
  /\ UNCHANGED <<hello, arrived, short, hpc, parse>>

HelloNext ==
  \/ RestArrives \/ ReadFails
  \/ ReadsType \/ ReadsVersion \/ ReadsLength \/ ReadsRest
  \/ SkipsFields \/ ChecksBound \/ SkipsExtension \/ ReadsName \/ EndsSearch
  \/ DialFails \/ DialsAndWrites \/ CopiesOn

HelloSpec == HelloInit /\ [][HelloNext]_hvars

-----------------------------------------------------------------------------
(* Properties *)

(* A record with a ClientHello in it: the lengths of its fields add up, an *)
(* extension follows another up to the end, and one with the server's name *)
(* is there when the client names one.  exts has the offset of every       *)
(* extension and, last, the offset behind them, or where they would begin. *)
B1(h, i) == h.bytes[i + 6]
B2(h, i) == 256 * h.bytes[i + 6] + h.bytes[i + 7]
RestLen(h) == Len(h.bytes) - 5
SuitesAt(h) == 39 + B1(h, 38)
CompressionAt(h) == SuitesAt(h) + 2 + B2(h, SuitesAt(h))
FieldsEnd(h) == CompressionAt(h) + 1 + B1(h, CompressionAt(h))
Extensions(h) == 1 .. Len(h.exts) - 1
IsName(h, k) == B2(h, h.exts[k]) = 0
HoldsName(h, k) ==
  LET at == h.exts[k] IN
    /\ at + 9 + Len(h.name) <= RestLen(h)
    /\ B1(h, at + 6) = 0 /\ B2(h, at + 7) = Len(h.name)
    /\ h.name = SubSeq(h.bytes, at + 15, at + 14 + Len(h.name))
Follows(h, k) ==
  /\ h.exts[k] + 4 <= RestLen(h)
  /\ h.exts[k + 1] = h.exts[k] + 4 + B2(h, h.exts[k] + 2)
  /\ IsName(h, k) => h.name # <<>> /\ HoldsName(h, k)
WellFormed(h) ==
  /\ 38 < RestLen(h)
  /\ h.bytes[1] = 22 /\ h.bytes[2] = 3 /\ h.bytes[3] >= 1 /\ B1(h, 0) = 1
  /\ 256 * h.bytes[4] + h.bytes[5] = RestLen(h)
  /\ SuitesAt(h) + 2 <= RestLen(h) /\ CompressionAt(h) < RestLen(h)
  /\ h.exts \in Seq(Nat) \ {<<>>} /\ h.exts[1] = FieldsEnd(h) + 2
  /\ \/ h.exts[Len(h.exts)] = RestLen(h)
     \/ Len(h.exts) = 1 /\ FieldsEnd(h) = RestLen(h)
  /\ \A k \in Extensions(h) : Follows(h, k)
  /\ h.name # <<>> => \E k \in Extensions(h) : IsName(h, k)

(* In a well-formed record that every Read took whole, the search walks    *)
(* the fields to the name of the server, whatever their lengths and        *)
(* whatever extensions come before it, takes no other bytes for it, gives  *)
(* up only where there is none, and never indexes beyond the end, which    *)
(* would end the process: nobody recovers this goroutine.  A record that   *)
(* a Read split, or whose lengths point beyond its end, does make it do    *)
(* that (https.go:71-113).                                                 *)
FindsServerName ==
  WellFormed(hello) /\ ~short =>
    /\ hpc # "panicked"
    /\ Len(rec) = Len(hello.bytes) /\ hpc \in {"closed", "dial", "copy"}
         => hostname = ToLower(hello.name)

(* The remote gets the bytes of the client and no others, in their order,  *)
(* unless a Read did not fill its buffer (https.go:133-140).               *)
ForwardedIntact == ~short => IsPrefix(sent, hello.bytes)

=============================================================================
