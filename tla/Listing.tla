------------------------------ MODULE Listing ------------------------------
(***************************************************************************)
(* The listing client (src/pkg/listing) and the example that chooses a     *)
(* pair with it (src/examples/listing), against a registry that changes    *)
(* between requests and a server or proxy that may answer anything.        *)
(*                                                                         *)
(* A behaviour is one run of the example, or one call of ListPairs or      *)
(* ListPair with any arguments.  One step is one HTTP request.  JSON is    *)
(* abstracted to what the decoder found; URLs, credentials and texts are   *)
(* left out.                                                               *)
(***************************************************************************)
EXTENDS Integers, Sequences, SequencesExt

CONSTANTS
  MaxChain,     \* the largest int64
  MaxPair,      \* the largest int32
  Arguments,    \* job, chain and pair: who calls with what
  Registries,   \* external: what the registry may hold, a sequence of items
  Faults,       \* external: answers other than the registry's
  NoPair        \* no record

\* object: a JSON object.  typed: every required field is there with its type.
\* tokens: distinct nonzero addresses.  sizes: positive uint128 integers.
Items ==
  [ object: BOOLEAN, typed: BOOLEAN, chain: Nat, id: Nat, tokens: BOOLEAN, sizes: BOOLEAN,
    tax: {"null", "sound", "missing", "foreign", "excessive"}, active: BOOLEAN, gray: BOOLEAN ]

\* reached: a response came.  success: as decoded.  whole: one JSON value within the limit.
Answers ==
  [ reached: BOOLEAN, status: Nat, whole: BOOLEAN, success: {"true", "false", "absent"},
    error: BOOLEAN, null: BOOLEAN, data: Seq(Items) ]

Jobs == {"example", "pairs", "pair"}

ASSUME ListingAssumption ==
  /\ MaxChain \in Nat \ {0} /\ MaxPair \in Nat \ {0}
  /\ Arguments \subseteq [ job: Jobs, chain: Nat, pair: Nat ]
  /\ Registries \subseteq Seq(Items)
  /\ Faults \subseteq Answers

VARIABLES
  args,       \* the arguments of the run
  pc,
  id,         \* local of runListing: pairID
  result,     \* how the run ended: a kind of error, or a record
  registry,   \* external
  answer      \* history: the last answer, and whether the registry gave it

listingVars == << args, pc, id, result, registry, answer >>

NoAnswer == [ honest |-> FALSE, response |-> NoPair ]

ListingInit ==
  /\ args \in Arguments
  /\ pc = "start" /\ id = args.pair
  /\ result = [ kind |-> "none", pair |-> NoPair ]
  /\ registry \in Registries
  /\ answer = NoAnswer

-----------------------------------------------------------------------------
(* The server (external) *)

Healthy(items) ==
  [ reached |-> TRUE, status |-> 200, whole |-> TRUE, success |-> "true",
    error |-> FALSE, null |-> FALSE, data |-> items ]

NotFound == [Healthy(<< >>) EXCEPT !.status = 404, !.success = "false", !.error = TRUE]

Approved(chain) == SelectSeq(registry, LAMBDA p : p.active /\ p.chain = chain)

HonestPair ==
  LET found == { p \in ToSet(registry) : p.active /\ p.chain = args.chain /\ p.id = id }
  IN  IF found = {} THEN NotFound ELSE Healthy(<< CHOOSE p \in found : TRUE >>)

ChangeRegistry ==
  /\ pc \in {"list", "detail"}
  /\ registry' \in Registries
  /\ UNCHANGED << args, pc, id, result, answer >>

\* One request: the registry's answer, or any other.
Request(honest) ==
  /\ \/ answer' = [ honest |-> TRUE, response |-> honest ]
     \/ \E a \in Faults : answer' = [ honest |-> FALSE, response |-> a ]
  /\ UNCHANGED << args, registry >>

-----------------------------------------------------------------------------
(* get and the decoders *)

Failed(a) == a.status \notin 200 .. 299 \/ a.success = "false"

Get(a) ==
  IF ~ a.reached THEN "transport"
  ELSE IF Failed(a) THEN "api"
  ELSE IF ~ a.whole THEN "response"
  ELSE IF a.success # "true" \/ a.error \/ a.null THEN "response"
  ELSE "ok"

\* decodePair with decodeTax, and the wrapping of its error.
DecodePair(item) ==
  IF ~ item.object THEN "response"
  ELSE IF /\ item.typed /\ item.chain \in 1 .. MaxChain /\ item.id <= MaxPair
          /\ item.tokens /\ item.sizes /\ item.tax \in {"null", "sound"}
  THEN "ok" ELSE "config"

\* The kind of the first record that fails, in the order of the response.
DecodePairs(items, chain) ==
  LET kind(item) == IF DecodePair(item) # "ok" THEN DecodePair(item)
                    ELSE IF item.chain # chain THEN "response" ELSE "ok"
      bad == { k \in DOMAIN items : kind(items[k]) # "ok" }
  IN  IF bad = {} THEN "ok" ELSE kind(items[Min(bad)])

\* data of /chains is read as a map from names to chain IDs.
ListChains(a) ==
  IF Get(a) # "ok" THEN Get(a)
  ELSE IF \A k \in DOMAIN a.data : a.data[k].object /\ a.data[k].chain \in 1 .. MaxChain
  THEN "ok" ELSE "response"

ListPairs(a) == IF Get(a) # "ok" THEN Get(a) ELSE DecodePairs(a.data, args.chain)

\* data of /pair is one object.
ListPair(a) ==
  IF Get(a) # "ok" THEN Get(a)
  ELSE IF Len(a.data) # 1 THEN "response"
  ELSE IF DecodePair(a.data[1]) # "ok" THEN DecodePair(a.data[1])
  ELSE IF a.data[1].chain # args.chain \/ a.data[1].id # id THEN "response"
  ELSE "ok"

\* Pair.FrameParams
FrameParams(p) == p.sizes /\ p.id # 0 /\ p.tokens

ValidChain == args.chain \in 1 .. MaxChain
ValidPair == args.pair \in 1 .. MaxPair

-----------------------------------------------------------------------------
(* runListing, and single calls *)

End(kind, pair) == pc' = "end" /\ result' = [ kind |-> kind, pair |-> pair ]

\* main and loadConfig refuse before a client exists, the methods before any request.
RefuseInput ==
  /\ pc = "start"
  /\ \/ ~ ValidChain
     \/ args.job = "pair" /\ ~ ValidPair
     \/ args.job = "example" /\ args.pair > MaxPair
  /\ End("input", NoPair)
  /\ UNCHANGED << args, id, registry, answer >>

Start ==
  /\ pc = "start" /\ ValidChain
  /\ \/ args.job = "example" /\ args.pair <= MaxPair /\ pc' = "chains"
     \/ args.job = "pairs" /\ pc' = "list"
     \/ args.job = "pair" /\ ValidPair /\ pc' = "detail"
  /\ UNCHANGED << args, id, result, registry, answer >>

ShowChains ==
  /\ pc = "chains"
  /\ Request(Healthy(registry))
  /\ IF ListChains(answer'.response) = "ok"
     THEN pc' = (IF id = 0 THEN "list" ELSE "detail") /\ UNCHANGED result
     ELSE End(ListChains(answer'.response), NoPair)
  /\ UNCHANGED id

UsablePair(p) == p.chain = args.chain /\ p.active /\ ~ p.gray /\ p.id # 0

\* listUsablePairs; the example goes on with the first, if there is one.
ListUsablePairs ==
  /\ pc = "list"
  /\ Request(Healthy(Approved(args.chain)))
  /\ LET kind == ListPairs(answer'.response)
         data == answer'.response.data
         usable == { k \in DOMAIN data : UsablePair(data[k]) }
     IN  IF kind = "ok" /\ args.job = "example" /\ usable # {}
         THEN pc' = "detail" /\ id' = data[Min(usable)].id /\ UNCHANGED result
         ELSE End(kind, NoPair) /\ UNCHANGED id

\* Fault: a pair that was listed as usable is not looked at again.
ShowPairUnchecked ==
  /\ pc = "detail"
  /\ Request(HonestPair)
  /\ LET kind == ListPair(answer'.response)
     IN  IF kind # "ok" THEN End(kind, NoPair)
         ELSE End("shown", answer'.response.data[1])
  /\ UNCHANGED id

\* The chosen pair is read again, and judged again.
ShowPair ==
  /\ pc = "detail"
  /\ Request(HonestPair)
  /\ LET kind == ListPair(answer'.response)
         pair == answer'.response.data[1]
     IN  IF kind # "ok" THEN End(kind, NoPair)
         ELSE IF args.job = "example" /\ ~ UsablePair(pair) THEN End("unusable", NoPair)
         ELSE End("shown", pair)
  /\ UNCHANGED id

ListingNext == RefuseInput \/ Start \/ ShowChains \/ ListUsablePairs \/ ShowPair \/ ChangeRegistry

ListingSpec == ListingInit /\ [][ListingNext]_listingVars

-----------------------------------------------------------------------------
(* Properties *)

\* What the example shows is usable by the last answer and not by the list it was
\* chosen from, is the pair that was asked for, can be turned into frame parameters,
\* and, when the registry itself answered, is what it holds at that moment (runListing:
\* "Refresh the chosen pair before using its configuration").
ShownIsUsable ==
  result.kind = "shown" /\ args.job = "example" =>
    /\ UsablePair(result.pair) /\ FrameParams(result.pair)
    /\ result.pair.id = id /\ (args.pair # 0 => id = args.pair)
    /\ result.pair \in ToSet(answer.response.data)
    /\ answer.honest => result.pair \in ToSet(registry)

=============================================================================
