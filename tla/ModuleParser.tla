---------------------------- MODULE ModuleParser ----------------------------
(* The byte reader of inf-wasmparser, binary_reader.rs, and its incremental     *)
(* parser of WebAssembly modules and components, parser.rs.                     *)
(* Every read of a byte, a number or a run of bytes either returns a value and  *)
(* the position after it or an error, which carries a hint of how many bytes    *)
(* are missing when more input could help (hint 0: none).  A byte has GroupBits *)
(* value bits below its continuation bit, 7 in the code, and an integer         *)
(* WordBits bits, 32 in the code, so that small instances have the same shape:  *)
(* full groups and a shorter last one.                                          *)
(* A parser is a small record, and parse takes the bytes that are there and     *)
(* returns a payload, a request for more bytes or an error.  The function       *)
(* bodies of a code section are payloads of their own; a module nested in a     *)
(* component is handed to a parser of its own.                                  *)
EXTENDS Integers, Sequences, SequencesExt

CONSTANTS GroupBits, WordBits

ASSUME WidthAssumption ==
  GroupBits \in Nat \ {0} /\ WordBits \in Nat /\ WordBits > GroupBits

TwoTo[n \in Nat] == IF n = 0 THEN 1 ELSE 2 * TwoTo[n - 1]

Group == TwoTo[GroupBits]         \* the weight of the continuation bit
Continues(byte) == byte >= Group
Low(byte) == byte % Group

Read(v, p) == [ok |-> TRUE, v |-> v, p |-> p, hint |-> 0]
Fail == [ok |-> FALSE, v |-> 0, p |-> 0, hint |-> 0]
Eof(hint) == [ok |-> FALSE, v |-> 0, p |-> 0, hint |-> hint]

-------------------------------------------------------------------------------
(* data is a sequence of cells [byte, item]; p counts the cells read so far.   *)

\* BinaryReader::read_u8 and eof_err.
read_u8(data, p) == IF p < Len(data) THEN Read(data[p + 1].byte, p + 1) ELSE Eof(1)

\* BinaryReader::ensure_has_bytes and read_bytes.
read_bytes(data, p, size) ==
  IF p + size <= Len(data) THEN Read(SubSeq(data, p + 1, p + size), p + size)
  ELSE Eof(p + size - Len(data))

\* BinaryReader::read_u7: one byte without its top bit.
read_u7(data, p) ==
  LET r == read_u8(data, p) IN IF r.ok /\ Continues(r.v) THEN Fail ELSE r

\* read_var_u32 and read_var_u32_big: the group at shift k * GroupBits is at
\* position p + k; in the last one neither the continuation bit nor a bit beyond
\* the word may be set.
read_var_u32(data, p) ==
  LET Next[k \in 0..WordBits] ==
        LET r == read_u8(data, p + k)
            shift == k * GroupBits
            last == shift >= WordBits - GroupBits
            word == Read(r.v * TwoTo[shift], r.p)
        IN  CASE ~r.ok -> r
              [] r.ok /\ last -> IF r.v \div TwoTo[WordBits - shift] # 0 THEN Fail ELSE word
              [] r.ok /\ ~last /\ ~Continues(r.v) -> word
              [] OTHER -> LET rest == Next[k + 1]
                          IN  IF rest.ok THEN [rest EXCEPT !.v = @ + Low(r.v) * TwoTo[shift]]
                              ELSE rest
  IN  Next[0]

\* The bits of the last group that lie above the sign bit of a number of `bits'
\* bits have to repeat it: (byte << 1) as i8 >> (bits - shift) is 0 or -1.
SignRepeats(byte, bits, shift) ==
  LET above == Low(byte) \div TwoTo[bits - shift - 1]
  IN  above \in {0, TwoTo[GroupBits - (bits - shift - 1)] - 1}

\* read_var_i32 and read_var_i64 for numbers of `bits' bits; keeps is whether the
\* last group is returned with its sign as in read_var_i32, or raw as in
\* read_var_s33, where the result is wider than the number.
ReadSigned(data, p, bits, keeps) ==
  LET Signed(v, width) == IF v >= TwoTo[width - 1] THEN v - TwoTo[width] ELSE v
      Next[k \in 0..bits] ==
        LET r == read_u8(data, p + k)
            shift == k * GroupBits
        IN  CASE ~r.ok -> r
              [] r.ok /\ shift >= bits - GroupBits /\ k > 0 ->
                   IF Continues(r.v) \/ ~SignRepeats(r.v, bits, shift) THEN Fail
                   ELSE Read([v |-> Low(r.v) * TwoTo[shift], width |-> IF keeps THEN bits ELSE 0], r.p)
              [] r.ok /\ ~Continues(r.v) ->
                   Read([v |-> Low(r.v) * TwoTo[shift], width |-> shift + GroupBits], r.p)
              [] OTHER -> LET rest == Next[k + 1]
                          IN  IF rest.ok THEN [rest EXCEPT !.v.v = @ + Low(r.v) * TwoTo[shift]]
                              ELSE rest
      r == Next[0]
  IN  IF ~r.ok THEN r
      ELSE Read(IF r.v.width = 0 THEN r.v.v
                ELSE Signed(r.v.v % TwoTo[r.v.width], r.v.width), r.p)

read_var_i32(data, p) == ReadSigned(data, p, WordBits, TRUE)
read_var_s33(data, p) == ReadSigned(data, p, WordBits + 1, FALSE)
read_var_i64(data, p) == ReadSigned(data, p, 2 * WordBits, TRUE)

\* read_reader: a length and that many bytes.
read_reader(data, p) ==
  LET len == read_var_u32(data, p)
  IN  IF ~len.ok THEN len ELSE read_bytes(data, len.p, len.v)

-------------------------------------------------------------------------------
(* External: the encoding wasm-encoder writes, the shortest one.               *)

Cell(byte) == [byte |-> byte, item |-> <<>>]

leb128(n) ==
  LET Enc[m \in 0..n] == IF m < Group THEN <<Cell(m)>>
                         ELSE <<Cell(Group + (m % Group))>> \o Enc[m \div Group]
  IN  Enc[n]

-------------------------------------------------------------------------------
(* The parser.                                                                 *)

CONSTANT MaxSize       \* u64::MAX, the max_size of a parser nobody nested

ASSUME MaxSizeAssumption == MaxSize \in Nat

\* Section ids of modules and of components.
SectionId ==
  [custom |-> 0, type |-> 1, import |-> 2, func |-> 3, table |-> 4, memory |-> 5,
   global |-> 6, export |-> 7, start |-> 8, elem |-> 9, code |-> 10, data |-> 11,
   datacount |-> 12, tag |-> 13]

ComponentSectionId ==
  [custom |-> 0, module |-> 1, coreinstance |-> 2, coretype |-> 3, component |-> 4,
   instance |-> 5, alias |-> 6, ctype |-> 7, canonical |-> 8, cstart |-> 9,
   cimport |-> 10, cexport |-> 11]

\* The magic number and the version are a cell each.
Magic == 2 * Group - 2
Version == [module |-> 1, component |-> 2]

\* Parser::new.
new_parser(offset, size) ==
  [state |-> "header", remaining |-> 0, len |-> 0, offset |-> offset, max_size |-> size,
   encoding |-> "module"]

-------------------------------------------------------------------------------
(* A result holds the payload, the parser after it and the cells consumed.     *)

Payload(kind, start, count, cells) ==
  [kind |-> kind, start |-> start, count |-> count, cells |-> cells, len |-> 0]

Parsed(ps, payload, p) == [ok |-> TRUE, ps |-> ps, payload |-> payload, p |-> p, hint |-> 0]

NoPayload == Payload("none", 0, 0, <<>>)
Failed(ps, r) == [ok |-> FALSE, ps |-> ps, payload |-> NoPayload, p |-> 0, hint |-> r.hint]

\* section(): the content has to be there; what is wrong in it is final, the
\* hint is cleared.  SectionLimited::new reads the number of items.
section(ps, data, p, kind, len) ==
  LET content == read_bytes(data, p, len)
      count == read_var_u32(content.v, 0)
  IN  IF ~content.ok THEN Failed(ps, content)
      ELSE IF kind = "custom"
      THEN IF len = 0 THEN Failed(ps, Fail)
           ELSE Parsed(ps, Payload(kind, ps.offset + p, 0, content.v), content.p)
      ELSE IF ~count.ok THEN Failed(ps, Fail)
      ELSE Parsed(ps, Payload(kind, ps.offset + p, count.v,
                              SubSeq(content.v, count.p + 1, len)), content.p)

\* single_item(): a number and nothing behind it.
single_item(ps, data, p, kind, len) ==
  LET content == read_bytes(data, p, len)
      item == read_var_u32(content.v, 0)
  IN  IF ~content.ok THEN Failed(ps, content)
      ELSE IF ~item.ok \/ item.p # len THEN Failed(ps, Fail)
      ELSE Parsed(ps, Payload(kind, ps.offset + p, item.v, <<>>), content.p)

\* delimited(): what a read took has to fit in what is left of the section.
Delimited(r, p, len) == IF r.ok /\ r.p - p > len THEN Fail ELSE r

\* The start of a code section: the number of bodies.
CodeStart(ps, data, p, len) ==
  LET count == Delimited(read_var_u32(data, p), p, len)
  IN  IF ~count.ok THEN Failed(ps, count)
      ELSE Parsed([ps EXCEPT !.state = "body", !.remaining = count.v, !.len = len - (count.p - p)],
                  Payload("codestart", ps.offset + p, count.v, <<>>), count.p)

\* A module or a component inside a component: its bytes are left to a parser of
\* its own, and this one is moved behind them.
Nested(ps, p, kind, len) ==
  Parsed([ps EXCEPT !.offset = @ + len, !.max_size = @ - len],
         [Payload(kind, ps.offset + p, 0, <<>>) EXCEPT !.len = len], p)

\* The sections by encoding; an id without a section is a payload of its own.
SectionOf(encoding, id) ==
  LET ids == IF encoding = "module" THEN SectionId ELSE ComponentSectionId
      named == {k \in DOMAIN ids : ids[k] = id}
  IN  IF named = {} THEN "unknown" ELSE CHOOSE k \in named : TRUE

SectionPayload(ps, data, p, kind, len) ==
  CASE kind = "code" -> CodeStart(ps, data, p, len)
    [] kind \in {"start", "datacount"} -> single_item(ps, data, p, kind, len)
    [] kind \in {"module", "component"} -> Nested(ps, p, kind, len)
    [] kind = "unknown" ->
         LET content == read_bytes(data, p, len)
         IN  IF ~content.ok THEN Failed(ps, content)
             ELSE Parsed(ps, Payload(kind, ps.offset + p, 0, <<>>), content.p)
    [] OTHER -> section(ps, data, p, kind, len)

-------------------------------------------------------------------------------
(* parse_reader, by state.                                                     *)

\* State::Header: read_header_version.
parse_header(ps, data) ==
  LET header == read_bytes(data, 0, 2)
      magic == read_bytes(data, 0, 1)
      known == {e \in DOMAIN Version : Version[e] = header.v[2].byte}
  IN  IF ~magic.ok \/ (magic.v[1].byte = Magic /\ ~header.ok)
      THEN Failed(ps, IF magic.ok THEN header ELSE magic)
      ELSE IF magic.v[1].byte # Magic \/ known = {} THEN Failed(ps, Fail)
      ELSE LET encoding == CHOOSE e \in known : TRUE
           IN  Parsed([ps EXCEPT !.state = "section", !.encoding = encoding],
                      Payload("version", ps.offset, Version[encoding], <<>>), 2)

\* State::SectionStart: the end of the input, or a section that has to fit in
\* what the parser may read.
parse_section(ps, data, eof) ==
  LET id == read_u8(data, 0)
      len == read_var_u32(data, 1)
  IN  IF eof /\ data = <<>> THEN Parsed(ps, Payload("end", ps.offset, 0, <<>>), 0)
      ELSE IF ~id.ok THEN Failed(ps, id)
      ELSE IF Continues(id.v) THEN Failed(ps, Fail)
      ELSE IF ~len.ok THEN Failed(ps, len)
      ELSE IF len.p + len.v > ps.max_size THEN Failed(ps, Fail)
      ELSE SectionPayload(ps, data, len.p, SectionOf(ps.encoding, id.v), len.v)

\* Mutant: the body is counted before it is all there.
Mutparse_body(ps, data) ==
  LET body == Delimited(read_reader(data, 0), 0, ps.len)
      next == [ps EXCEPT !.remaining = @ - 1]
  IN  IF ~body.ok THEN Failed(next, body)
      ELSE Parsed([next EXCEPT !.len = @ - body.p],
                  Payload("body", ps.offset + body.p - Len(body.v), 0, body.v), body.p)

\* State::FunctionBody with bodies left: one body, all of it.
parse_body(ps, data) ==
  LET body == Delimited(read_reader(data, 0), 0, ps.len)
  IN  IF ~body.ok THEN Failed(ps, body)
      ELSE Parsed([ps EXCEPT !.remaining = @ - 1, !.len = @ - body.p],
                  Payload("body", ps.offset + body.p - Len(body.v), 0, body.v), body.p)

parse_reader(ps, data, eof) ==
  CASE ps.state = "header" -> parse_header(ps, data)
    [] ps.state = "section" -> parse_section(ps, data, eof)
    [] ps.state = "body" /\ ps.remaining = 0 /\ ps.len = 0 ->
         parse_section([ps EXCEPT !.state = "section"], data, eof)
    [] ps.state = "body" /\ ps.remaining = 0 /\ ps.len > 0 -> Failed(ps, Fail)
    [] OTHER -> parse_body(ps, data)

\* Mutant: an error at the end of the input keeps asking for more.
MutAdvance(r, eof) ==
  IF r.ok THEN [r EXCEPT !.ps.offset = @ + r.p, !.ps.max_size = @ - r.p] ELSE r

\* The parser moves on by what was consumed; at the end of the input an error is
\* final.
Advance(r, eof) ==
  IF r.ok THEN [r EXCEPT !.ps.offset = @ + r.p, !.ps.max_size = @ - r.p]
  ELSE IF eof THEN [r EXCEPT !.hint = 0] ELSE r

\* Parser::parse: a parser with a limit sees its own bytes only and then the end.
parse(ps, data, eof) ==
  LET limited == Len(data) > ps.max_size
  IN  Advance(parse_reader(ps, IF limited THEN SubSeq(data, 1, ps.max_size) ELSE data,
                           limited \/ eof),
              limited \/ eof)
==============================================================================
