------------------------------ MODULE WasmReader ------------------------------
(* A reader of files that arrive in chunks, the loop in the documentation of    *)
(* Parser::parse with the validator beside it as in Validator::validate_all:    *)
(* parse what is there, read more bytes when the parser asks for them, keep     *)
(* the parsers of the enclosing components on a stack as parse_all does, give   *)
(* every payload to the validator, and check the bodies after the last one.     *)
(* One validator sees several files, with reset between them.                  *)
EXTENDS ModuleValidator

VARIABLES
  input,     \* the cells of the file
  start,     \* how many were consumed
  avail,     \* how many have arrived
  eof,       \* whether the reader knows there are no more
  hint,      \* the bytes parse asked for, 0: none
  parsers,   \* those of the enclosing components and, last, the current one
  seen,      \* the number of payloads so far
  last,      \* the latest payload
  outcome,   \* "idle", "running", "done" or "error"
  plan,      \* auxiliary: what parse_all yields for the file
  stage,     \* "open", "resolved", "parse", "accepted", "rejected", "unresolved", "encoded"
  v,         \* the validator
  taken      \* how many payloads it was given

streamVars == <<input, start, avail, eof, hint, parsers, seen, last, outcome, plan>>
readerVars == <<stage, v, taken, streamVars>>

\* Which parser goes on after a payload: the one of a nested module, that of the
\* enclosing component, or none.
After(ps, r) ==
  CASE r.payload.kind \in {"module", "component"} ->
         Append(Append(Front(ps), r.ps), new_parser(r.payload.start, r.payload.len))
    [] r.payload.kind = "end" -> Front(ps)
    [] OTHER -> Append(Front(ps), r.ps)

ParserStates ==
  [state : {"header", "section", "body"}, remaining : Nat, len : Nat, offset : Nat,
   max_size : Int, encoding : DOMAIN Version]

\* Parser::parse_all: a whole file at once; an error ends the iteration.
parse_all(cells) ==
  LET From[at \in (0..Len(cells)) \X Seq(ParserStates)] ==
        LET p == at[1]
            ps == at[2]
            Yield(r) == IF ~r.ok THEN [payloads |-> <<>>, ok |-> FALSE]
                        ELSE [From[<<p + r.p, After(ps, r)>>] EXCEPT !.payloads = <<r.payload>> \o @]
        IN  IF ps = <<>> THEN [payloads |-> <<>>, ok |-> TRUE]
            ELSE Yield(parse(Last(ps), SubSeq(cells, p + 1, Len(cells)), TRUE))
  IN  From[<<0, <<new_parser(0, MaxSize)>>>>]

StreamInit ==
  /\ input = <<>> /\ start = 0 /\ avail = 0 /\ eof = FALSE /\ hint = 0
  /\ parsers = <<new_parser(0, MaxSize)>>
  /\ seen = 0 /\ last = <<>> /\ outcome = "idle" /\ plan = [payloads |-> <<>>, ok |-> TRUE]

\* A file is opened; n cells of it are there at once.
Open(cells, n) ==
  /\ input' = cells
  /\ start' = 0 /\ avail' = n /\ eof' = FALSE /\ hint' = 0
  /\ parsers' = <<new_parser(0, MaxSize)>>
  /\ seen' = 0 /\ last' = <<>> /\ outcome' = "running"
  /\ plan' = parse_all(cells)

\* One call of parse and what the loop does with its result.
ParsePayload ==
  /\ outcome = "running" /\ hint = 0
  /\ \E r \in {parse(Last(parsers), SubSeq(input, start + 1, avail), eof)} :
       IF r.ok
         THEN /\ start' = start + r.p
              /\ seen' = seen + 1 /\ last' = <<r.payload>>
              /\ parsers' = After(parsers, r)
              /\ outcome' = IF parsers' = <<>> THEN "done" ELSE "running"
              /\ UNCHANGED hint
         ELSE /\ hint' = r.hint
              /\ outcome' = IF r.hint > 0 THEN "running" ELSE "error"
              /\ parsers' = Append(Front(parsers), r.ps)
              /\ UNCHANGED <<start, seen, last>>
  /\ UNCHANGED <<input, avail, eof, plan>>

\* n more bytes arrive.
Deliver(n) ==
  /\ outcome = "running" /\ hint > 0
  /\ n \in 1..(Len(input) - avail)
  /\ avail' = avail + n /\ hint' = 0
  /\ UNCHANGED <<input, start, eof, parsers, seen, last, outcome, plan>>

\* The reader meets the end of the file (once, as the documentation asserts, if
\* parse never asks for more after that).
ReadEof ==
  /\ outcome = "running" /\ hint > 0 /\ avail = Len(input)
  /\ eof' = TRUE /\ hint' = 0
  /\ UNCHANGED <<input, start, avail, parsers, seen, last, outcome, plan>>

-------------------------------------------------------------------------------
(* The reader with its validator.                                              *)

ReaderInit == stage = "open" /\ v = new_validator /\ taken = 0 /\ StreamInit

\* A text is worked on before there is a file to read.
Prepare(s) ==
  /\ stage \in {"open", "resolved"} /\ stage' = s
  /\ UNCHANGED <<v, taken, streamVars>>

OpenFile(cells, n) ==
  /\ stage \in {"open", "resolved"} /\ stage' = "parse" /\ taken' = 0
  /\ Open(cells, n)
  /\ UNCHANGED v

\* The parser runs when the validator has dealt with its last payload.
Parse ==
  /\ stage = "parse" /\ taken = seen
  /\ ParsePayload
  /\ stage' = IF outcome' = "error" THEN "rejected" ELSE stage
  /\ UNCHANGED <<v, taken>>

Receive ==
  /\ stage = "parse"
  /\ \/ \E n \in 1..Len(input) : Deliver(n)
     \/ ReadEof
  /\ UNCHANGED <<stage, v, taken>>

\* Validator::payload of what the parser handed out.
Validate ==
  /\ stage = "parse" /\ taken < seen
  /\ v' = payload(v, last[1]) /\ taken' = seen
  /\ stage' = IF v'.error # "" THEN "rejected" ELSE stage
  /\ UNCHANGED streamVars

\* The bodies, after the last payload.
ValidateBodies ==
  /\ stage = "parse" /\ outcome = "done" /\ taken = seen
  /\ v' = validate_bodies(v)
  /\ stage' = IF v'.error # "" THEN "rejected" ELSE "accepted"
  /\ UNCHANGED <<taken, streamVars>>

\* The same validator for another file.
Reuse ==
  /\ stage = "accepted" /\ stage' = "open" /\ taken' = 0
  /\ v' = reset(v)
  /\ UNCHANGED streamVars

\* Any files, with whatever their sections hold for items.
ReaderNext(Items) ==
  \/ \E s \in {"resolved", "unresolved", "encoded"} : Prepare(s)
  \/ \E cells \in Seq([byte : Nat, item : Items]) : \E n \in 0..Len(cells) : OpenFile(cells, n)
  \/ Parse \/ Receive \/ Validate \/ ValidateBodies \/ Reuse

ReaderSpec(Items) == ReaderInit /\ [][ReaderNext(Items)]_readerVars

-------------------------------------------------------------------------------
(* Where the bytes are cut makes no difference to Parser::parse: for every file *)
(* it hands out what parse_all yields for it, in that order, and ends likewise. *)
Whole == INSTANCE PayloadStream
           WITH plan <- plan, seen <- seen, last <- last, outcome <- outcome

ChunkingIsInvisible == Whole!Spec

\* A module that was accepted is whole: every function it declares has one body
\* of its own, announced data segments are there, and what its bodies refer to
\* exists, although bodies are checked with the module as it was when they were
\* met (Validator::validate_all, ModuleState::validate_end).
AcceptedIsWhole ==
  stage = "accepted" /\ input[2].byte = Version.module =>
    LET m == v.module
    IN  /\ Len(v.bodies) = Len(m.functions) - m.imported_functions
        /\ {b.index : b \in Range(v.bodies)} = m.imported_functions..(Len(m.functions) - 1)
        /\ m.data_count \in {-1, m.segments}
        /\ \A b \in Range(v.bodies) : \A i \in Range(b.instrs) :
             OperandsInBounds([m EXCEPT !.data_count = m.segments], i[1])

\* No sequence of payloads, files and resets makes the validator panic: the
\* module is not changed once a function body shares it, and the assertion at
\* the end of a constant expression holds (core.rs, MaybeOwned::assert_mut).
ValidatorNeverPanics == v.error # "panic"
=============================================================================
