------------------------------ MODULE Framing ------------------------------
(* One direction of a connection under ciphers and plugins: what is given  *)
(* to write() on one side against what the StreamReader of the other side  *)
(* holds, when the network cuts the bytes wherever it likes.               *)
(*                                                                         *)
(* A byte is a number below Modulus.  Encryption moves it by an amount     *)
(* that depends on where it stands, a checksum is a number computed from   *)
(* what it covers, compression is a reversal of the whole block.  A field  *)
(* of the code of two, four or ten bytes is one number here, and so is the *)
(* three-byte type of a record.                                            *)
EXTENDS Integers, Sequences, SequencesExt, FiniteSetsExt

CONSTANTS
  Stacks,        \* the configurations of a connection
  MaxData,       \* bound: bytes the application writes
  PACKET_LIMIT,  \* of an AEAD packet
  PluginLimit,   \* 8100 and 32700: of a frame of the verify plugins
  RecordLimit,   \* 2048: a longer write is cut at random into records
  NonceLimit     \* 2 ^ NONCE_LENGTH

Modulus == 199
BLANK   == 10

(* A stack has a cipher ("stream", "aead" or "rc4", which has no           *)
(* initialization vector), a plugin that frames the plain text ("none",    *)
(* "simple", "deflate"), one that opens the connection and may frame the   *)
(* cipher text ("none", "http", "ticket"), the end that writes ("client"   *)
(* or "server"), and the size of the request of a Shadowsocks client with  *)
(* one-time authentication, which is written before its chunks, or 0.      *)

StackType ==
  [cipher : {"stream", "aead", "rc4"}, plugin : {"none", "simple", "deflate"}, opening : {"none", "http", "ticket"},
   writer : {"client", "server"}, request : Nat]

(* The counters of the writer and the bytes of every frame are below       *)
(* Modulus, as they are below the width of their fields in the code.       *)
StackOK == Stacks \subseteq StackType
BoundsOK ==
  /\ MaxData \in Nat /\ MaxData < Modulus
  /\ PACKET_LIMIT \in 1..(Modulus - 1) /\ PluginLimit \in 1..(Modulus - 5)
  /\ RecordLimit \in Nat \ {0} /\ NonceLimit \in Nat \ {0}

VARIABLES
  stack,    \* the configuration of this behaviour
  written,  \* how many bytes the application wrote: they are 1, 2, 3...
  enc,      \* the counter of every layer of the writer
  wire,     \* sent and not yet arrived
  raw,      \* arrived before the adapter was attached
  stage,    \* of the reader: "opening", "attached", "patched" or "failed"
  dec,      \* the buffer and counter of every layer of the reader
  out,      \* what the reader holds for the application, from the start
  torn      \* the reader took a record of the ticket plugin before it was
            \* whole or, with rc4, anything else than one write

vars == <<stack, written, enc, wire, raw, stage, dec, out, torn>>

Kind == {"ticket", "iv", "stream", "aead", "rc4", "simple", "deflate", "ota"}

Upto(n)     == [i \in 1..n |-> i]
After(s, n) == SubSeq(s, n + 1, Len(s))
Upper(a, b) == IF a < b THEN a ELSE b
Total(s)    == LET sum[i \in 0..Len(s)] == IF i = 0 THEN 0 ELSE sum[i - 1] + s[i] IN sum[Len(s)]

---------------------------------------------------------------------------
(* The primitives.                                                         *)
Crypt(n, s)   == [i \in DOMAIN s |-> (s[i] + (7 * (n + i))) % Modulus]
Decrypt(n, s) == [i \in DOMAIN s |-> (s[i] - (7 * (n + i))) % Modulus]
Mac(n, s)     == (100 + (17 * n) + Total(s)) % Modulus
Iv            == <<90, 91>>

nonce(n)      == n % NonceLimit
Seal(n, s)    == Append([i \in DOMAIN s |-> (s[i] + (11 * nonce(n))) % Modulus], Mac(nonce(n), s))
Unseal(n, s)  == [i \in 1..(Len(s) - 1) |-> (s[i] - (11 * nonce(n))) % Modulus]
Sealed(n, s)  == Last(s) = Mac(nonce(n), Unseal(n, s))

(* The frame of one chunk, and how the counter of its layer goes on.       *)
Frame(k, n, d, pad) ==
  CASE k = "aead"    -> Seal(n, <<Len(d)>>) \o Seal(n + 1, d)
    [] k = "ota"     -> <<Len(d), Mac(n, d)>> \o d
    [] k = "simple"  -> LET b == <<Len(d) + pad + 3, pad + 1>> \o [i \in 1..pad |-> 0] \o d
                        IN Append(b, Mac(0, b))
    [] k = "deflate" -> <<Len(d) + 1>> \o Reverse(d)
    [] k = "ticket"  -> <<23, Len(d)>> \o d
Advance(k) == CASE k = "aead" -> 2 [] k = "ota" -> 1 [] OTHER -> 0

(* The chunks of one write: pieces of one size while more than the limit   *)
(* is left, then the rest, if there is any.                                *)
Split(s, limit, size) ==
  LET cuts == Min({m \in 0..Len(s) : Len(s) <= (m * size) + limit})
      rest == IF cuts * size < Len(s) THEN 1 ELSE 0
  IN [i \in 1..(cuts + rest) |-> SubSeq(s, ((i - 1) * size) + 1,
                                        IF i > cuts THEN Len(s) ELSE Upper(i * size, Len(s)))]
Chunks(k, s, size) ==
  CASE k = "aead"                  -> Split(s, PACKET_LIMIT, PACKET_LIMIT)
    [] k \in {"simple", "deflate"} -> Split(s, PluginLimit, PluginLimit)
    [] k = "ticket"                -> Split(s, RecordLimit, size)
    [] OTHER                       -> <<s>>

(* One layer of the writer: what it makes of s, and its counter then.      *)
Encode(k, n, s, size, pad) ==
  LET c == Chunks(k, s, size)
  IN CASE k \in {"stream", "rc4"} -> [data |-> Crypt(n, s), n |-> IF k = "rc4" THEN 0 ELSE n + Len(s)]
       [] k = "iv"                -> [data |-> s, n |-> 1]
       [] OTHER -> [data |-> FlattenSeq([i \in DOMAIN c |-> Frame(k, n + (Advance(k) * (i - 1)), c[i], pad)]),
                    n    |-> n + (Advance(k) * Len(c))]

---------------------------------------------------------------------------
(* The decoders: how long the first frame in the buffer is, 0 when it is   *)
(* not all there, whether it is sound and what it carries.                 *)
Whole(b, size) == IF size > Len(b) THEN 0 ELSE size
TakeTicket(b)  == IF Len(b) < 2 \/ Len(b) < b[2] THEN 0 ELSE 2 + b[2]
Size(k, n, b) ==
  IF b = <<>> THEN 0
  ELSE CASE k = "aead"    -> IF Len(b) < 2 THEN 0 ELSE Whole(b, 3 + Unseal(n, SubSeq(b, 1, 2))[1])
         [] k = "ota"     -> Whole(b, 2 + b[1])
         [] k \in {"simple", "deflate"} -> Whole(b, b[1])
         [] k = "ticket"  -> TakeTicket(b)

Sound(k, n, f) ==
  CASE k = "aead"    -> Sealed(n, SubSeq(f, 1, 2)) /\ Sealed(n + 1, After(f, 2))
    [] k = "ota"     -> f[2] = Mac(n, After(f, 2))
    [] k = "simple"  -> Last(f) = Mac(0, Front(f))
    [] k = "deflate" -> Len(f) > 1
    [] k = "ticket"  -> f[1] \in {20, 22, 23}

Carried(k, n, f) ==
  CASE k = "aead"    -> Unseal(n + 1, After(f, 2))
    [] k = "ota"     -> After(f, 2)
    [] k = "simple"  -> SubSeq(f, 2 + f[2], Len(f) - 1)
    [] k = "deflate" -> Reverse(Tail(f))
    [] k = "ticket"  -> IF f[1] = 23 THEN After(f, 2) ELSE <<>>

Step(k, s) ==
  LET size == Size(k, s.n, s.buf)
      f    == SubSeq(s.buf, 1, Upper(size, Len(s.buf)))
  IN IF ~s.ok \/ size = 0 THEN s
     ELSE IF ~Sound(k, s.n, f) THEN [s EXCEPT !.ok = FALSE]
     ELSE [buf |-> After(s.buf, Len(f)), n |-> s.n + Advance(k), out |-> s.out \o Carried(k, s.n, f), ok |-> TRUE,
           torn |-> s.torn \/ (k = "ticket" /\ Len(f) < size)]

(* One layer of the reader: d is its buffer and counter.                   *)
Read(buf, n, data) == [buf |-> buf, n |-> n, out |-> data, ok |-> TRUE, torn |-> FALSE]
Decode(k, d, data) ==
  LET all == d.buf \o data
      s   == Read(all, d.n, <<>>)
      run[i \in 0..Len(all)] == IF i = 0 THEN s ELSE Step(k, run[i - 1])
  IN CASE k \in {"stream", "rc4"} -> Read(<<>>, IF k = "rc4" THEN 0 ELSE d.n + Len(data), Decrypt(d.n, data))
       [] k = "iv" -> IF d.n = 1 THEN Read(<<>>, 1, data)
                      ELSE IF Len(all) < Len(Iv) THEN s
                      ELSE Read(<<>>, 1, After(all, Len(Iv)))
       [] OTHER    -> run[Len(all)]

(* The layers from the wire to the application.                            *)
Layers(s, ota) ==
  <<IF s.opening = "ticket" THEN "ticket" ELSE "none", IF s.cipher = "rc4" THEN "none" ELSE "iv",
    s.cipher, s.plugin, IF ota THEN "ota" ELSE "none">>

(* A write, and what arrived, on its way through one layer.                *)
Pass(k, w, size, pad) ==
  LET o == Encode(k, w.n[k], w.data, size, pad)
  IN IF k = "none" THEN w ELSE [n |-> [w.n EXCEPT ![k] = o.n], data |-> o.data]

Take(k, r) ==
  LET o == Decode(k, r.dec[k], r.data)
  IN IF k = "none" \/ ~r.ok THEN r
     ELSE [dec |-> [r.dec EXCEPT ![k] = [buf |-> o.buf, n |-> o.n]], data |-> o.out,
           ok |-> o.ok, torn |-> r.torn \/ o.torn]

(* Down through the layers of a writer, and up through those of a reader.  *)
Down(l, w, size, pad) ==
  LET at[i \in 0..Len(l)] == IF i = 0 THEN w ELSE Pass(l[(Len(l) + 1) - i], at[i - 1], size, pad) IN at[Len(l)]

Feed(data)    == [dec |-> dec, data |-> data, ok |-> TRUE, torn |-> torn]
Through(l, r) == LET at[i \in 0..Len(l)] == IF i = 0 THEN r ELSE Take(l[i], at[i - 1]) IN at[Len(l)]

---------------------------------------------------------------------------
(* What the plugin of the writer sends first, and how much of it the       *)
(* plugin of the reader takes for itself: the first record of a ticket     *)
(* client, an HTTP head.  The decoder skips the records that are left.     *)
Opening(s) ==
  CASE s.opening = "http"   -> <<71, BLANK>>
    [] s.opening = "ticket" -> IF s.writer = "client" THEN <<22, 1, 3>> \o <<20, 1, 1, 22, 2, 5, 6>>
                               ELSE <<22, 1, 2, 20, 1, 1, 22, 2, 5, 6>>
    [] OTHER                -> <<>>

Expected(s) ==
  CASE s.opening = "http"                            -> SelectInSeq(raw, LAMBDA b : b = BLANK)
    [] s.opening = "ticket" /\ s.writer = "client" -> IF Len(raw) < 2 THEN 0 ELSE Whole(raw, 2 + raw[2])
    [] OTHER                                       -> 0

Init ==
  /\ stack \in Stacks
  /\ written = 0 /\ enc = [k \in Kind |-> 0]
  /\ wire = Opening(stack) /\ raw = <<>> /\ stage = "opening"
  /\ dec = [k \in Kind |-> [buf |-> <<>>, n |-> 0]]
  /\ out = <<>> /\ torn = FALSE

(* write(): the initialization vector goes first, on its own, then the     *)
(* data through the layers, the one nearest to the application first.      *)
Written(data, size, pad) ==
  LET l     == Layers(stack, stack.request > 0 /\ written > 0)
      first == stack.cipher # "rc4" /\ enc["iv"] = 0
      iv    == IF first THEN Pass(l[1], [n |-> enc, data |-> Iv], size, pad) ELSE [n |-> enc, data |-> <<>>]
      body  == Down(l, [n |-> iv.n, data |-> data], size, pad)
  IN /\ enc' = body.n
     /\ wire' = wire \o iv.data \o body.data

(* The application writes; with one-time authentication the whole request  *)
(* first.                                                                  *)
Write ==
  \E n \in 1..(MaxData - written), size \in {1, RecordLimit + 2}, pad \in {0, 1} :
    /\ stack.request > 0 /\ written = 0 => n = stack.request
    /\ stack.opening = "ticket" \/ size = 1
    /\ (stack.plugin = "simple" /\ stack.opening # "ticket") \/ pad = 0
    /\ Written([i \in 1..n |-> written + i], size, pad)
    /\ written' = written + n
    /\ torn' = (torn \/ (stack.cipher = "rc4" /\ wire \o raw # <<>>))
    /\ UNCHANGED <<stack, raw, stage, dec, out>>

(* The reader is given what arrived, through its layers.                   *)
Given(r, before, then) ==
  /\ dec' = r.dec /\ torn' = (r.torn \/ (stack.cipher = "rc4" /\ wire' # <<>>))
  /\ out' = IF r.ok THEN before \o r.data ELSE before
  /\ stage' = IF r.ok THEN then ELSE "failed"

(* A piece of what is in flight arrives.                                   *)
Arrive ==
  \E n \in 1..Len(wire) :
    /\ stage # "failed"
    /\ wire' = After(wire, n)
    /\ IF stage = "opening"
       THEN raw' = raw \o SubSeq(wire, 1, n) /\ torn' = (torn \/ (stack.cipher = "rc4" /\ wire' # <<>>))
              /\ UNCHANGED <<stage, dec, out>>
       ELSE Given(Through(Layers(stack, stage = "patched"), Feed(SubSeq(wire, 1, n))), out, stage) /\ UNCHANGED raw
    /\ UNCHANGED <<stack, written, enc>>

(* The plugins are through with the opening, and the adapter takes over    *)
(* what the reader already holds.                                          *)
Attach ==
  /\ stage = "opening"
  /\ stack.opening = "http" \/ (stack.opening = "ticket" /\ stack.writer = "client") => Expected(stack) > 0
  /\ UNCHANGED <<stack, written, enc, wire>>
  /\ Given(Through(Layers(stack, FALSE), Feed(After(raw, Expected(stack)))), out, "attached")
  /\ raw' = <<>>

PatchDropsBuffer ==
  /\ stage = "attached" /\ stack.request > 0 /\ Len(out) >= stack.request
  /\ UNCHANGED <<stack, written, enc, wire, raw>>
  /\ Given(Take("ota", Feed(<<>>)), SubSeq(out, 1, stack.request), "patched")
(* accept() has read the request and puts the chunk decoder between the    *)
(* cipher and the reader, whose buffer it takes over.                      *)
Patch ==
  /\ stage = "attached" /\ stack.request > 0 /\ Len(out) >= stack.request
  /\ UNCHANGED <<stack, written, enc, wire, raw>>
  /\ Given(Take("ota", Feed(After(out, stack.request))), SubSeq(out, 1, stack.request), "patched")

Next == Write \/ Arrive \/ Attach \/ Patch
Spec == Init /\ [][Next]_vars

---------------------------------------------------------------------------
Ready == stage = IF stack.request > 0 THEN "patched" ELSE "attached"

StreamIsPreserved ==
  /\ stage # "failed"
  /\ stage = "patched" \/ stack.request = 0 => IsPrefix(out, Upto(written))
  /\ Ready /\ wire = <<>> => out = Upto(written)

(* Nothing is lost, added or changed on the way, however the bytes are     *)
(* cut: the reader holds the start of what was written, all of it once     *)
(* everything has arrived, and no decoder gives up.  Two of the code's     *)
(* decoders do not promise that: the ticket plugin takes a record that     *)
(* lacks no more than the size of its header, and rc4, which has no        *)
(* initialization vector, starts its key stream over with every write and  *)
(* every piece.  (cipher.py: StreamCipherAdapter, AEADCipher; plugin.py;   *)
(* socks.py: OTA)                                                          *)
PreservedUnlessTorn == torn \/ StreamIsPreserved
=============================================================================
