------------------------------- MODULE Decode -------------------------------
(***************************************************************************)
(* From a transaction to the inscriptions that are executed: the decode    *)
(* functions of explorer/ and the WDOGE that executePairV1, executePairV2, *)
(* executePump and executeWdoge mint for it. A decode function asks the    *)
(* node who funded an inscription, looks at the outputs, and saves an info *)
(* row; the routers of pair-v1 and pair-v2 do so for each input in turn    *)
(* and look at the outputs last.                                           *)
(*                                                                         *)
(* One transaction, scanned again and again: what a decode function reads  *)
(* and writes is keyed by the transaction's hash. Amounts are of koinu.    *)
(***************************************************************************)
EXTENDS Integers, Sequences, SequencesExt, FiniteSetsExt

CONSTANTS
    Transactions,    \* transactions the scanner may meet
    Addresses,
    TickNames,
    WDOGE,
    PoolTicks,       \* pair id -> the ticks of its row in swap_v2_liquidity
    Ids,             \* what inscriptions refer to: pair, exchange and stake ids
    Orders,          \* ids of rows of file_exchange_collect
    None,
    Cool, FeeAddress, TipAddress, CreateFeeAddress,
    Unit,            \* 0.001 DOGE
    Exact,           \* n for which the floating-point n * 0.001 is what n units read as
    RoundedUp,       \* values that Float64ToBigInt takes for one koinu more
    FeeParts, FeeWhole, MinFee,     \* 3, 1000 and 0.5 DOGE
    CreateFee, TipFee

Routers == {"pair-v1", "pair-v2"}

\* The operations that the execute functions know.
Operations ==
    {"drc-20"} \X {"deploy", "mint", "transfer"}
    \cup {"file", "meme-20"} \X {"deploy", "transfer"}
    \cup {"box-v1"} \X {"deploy", "mint"}
    \cup {"cross"} \X {"deploy", "mint", "burn"}
    \cup {"order-v1", "order-v2"} \X {"create", "trade", "cancel"}
    \cup {"stake-v1", "consensus"} \X {"stake", "unstake"}
    \cup {"wdoge"} \X {"deposit", "withdraw"}
    \cup {<<"invite", "deploy">>}
    \cup {"pump"} \X {"deploy", "trade"}
    \cup Routers \X {"create", "add", "remove", "swap"}

Inputs ==
    [p : {None} \cup STRING, op : STRING, funder : Addresses, ref : {None} \cup Ids,
     doge : BOOLEAN, ticks : TickNames \X TickNames, amts : Nat \X Nat, bad : SUBSET STRING]

ASSUME DecodeAssumption ==
    /\ PoolTicks \in [DOMAIN PoolTicks -> TickNames \X TickNames]
    /\ Unit \in Nat \ {0} /\ Exact \subseteq Nat /\ RoundedUp \subseteq Nat
    /\ {FeeParts, FeeWhole, MinFee, CreateFee, TipFee} \subseteq Nat /\ FeeWhole # 0
    /\ \A t \in Transactions :
          /\ t.ins \in Seq(Inputs) \ {<<>>}
          /\ t.outs \in Seq([to : Addresses, value : Nat]) \ {<<>>}
          /\ <<t.ins[1].p, t.ins[1].op>> \in Operations
          \* A pump deploy gets its tick0_id here; one that inscribes WDOGE as
          \* its own tick0_id ends the process.
          /\ LET i == t.ins[1]
             IN  i.p = "pump" /\ i.op = "deploy" /\ i.doge => i.ticks[1] # WDOGE

VARIABLES
    raw,        \* the transaction: ins, inscriptions with their funder and the
                \*   fields that are no numbers (bad); outs
    saved,      \* its rows in the info table of its protocol
    stage,      \* "idle", "inputs", "execute" or "act"
    list,       \* holder_address of each inscription decoded
    minted,     \* WDOGE minted on its account
    acted       \* the lists that were carried out

decodeVars == <<raw, saved, stage, list, minted, acted>>

Protocol == raw.ins[1].p
Operation == raw.ins[1].op
Out(k) == raw.outs[k]
Receiver == Out(1).to

\* The output that the transaction before the last spent.
Funder(k) == raw.ins[k].funder

-----------------------------------------------------------------------------
(* Outputs *)

Float64ToBigInt(v) == IF v \in RoundedUp THEN v + 1 ELSE v

Pays(k, to, amt) == Float64ToBigInt(Out(k).value) >= amt /\ Out(k).to = to

DepositFee(amt) == Max({MinFee, (amt * FeeParts) \div FeeWhole})

PaysDeposit(amt) == Pays(2, Cool, amt) /\ Pays(3, FeeAddress, DepositFee(amt))

\* Of two ticks and their amounts, what is WDOGE.
OfWdoge(ticks, amts) ==
    (IF ticks[1] = WDOGE THEN amts[1] ELSE 0) + (IF ticks[2] = WDOGE THEN amts[2] ELSE 0)

\* What the two routers count for an inscription that brings DOGE.
RouterDeposit(i) ==
    CASE i.doge /\ i.op \in {"create", "add"} -> OfWdoge(i.ticks, i.amts)
      [] i.doge /\ i.op = "swap" -> IF i.ticks[1] = WDOGE THEN i.amts[1] ELSE 0
      [] OTHER                   -> 0

\* The sum over the inputs, each counting for deposits[k].
SumOver(deposits) == SumFunction(deposits)

ListDeposit == SumOver([k \in DOMAIN raw.ins |-> RouterDeposit(raw.ins[k])])

PumpDeposit(i) ==
    CASE i.doge /\ i.op = "deploy" -> IF i.ticks[2] = WDOGE THEN i.amts[2] ELSE 0
      [] i.doge /\ i.op = "trade"  -> IF i.ticks[1] = WDOGE THEN i.amts[1] ELSE 0
      [] OTHER                     -> 0

-----------------------------------------------------------------------------
(* Numbers *)

RouterNumbers(o) ==
    {"amt0", "amt1"}
    \cup (CASE o = "swap"               -> {"amt1_min"}
            [] o \in {"create", "add"}   -> {"amt0_min", "amt1_min"}
            [] o = "remove"             -> {"liquidity"}
            [] OTHER                    -> {})

PumpNumbers(o) ==
    CASE o = "deploy" -> {"amt"}
      [] o = "trade"  -> {"amt0", "amt1_min"}
      [] OTHER        -> {}

\* The fields that have to be numbers, which the conversion reads for the
\* transaction's protocol, whatever protocol the input itself names.
Numbers(o) ==
    CASE Protocol \in {"pair-v1", "pair-v2"} -> RouterNumbers(o)
      [] Protocol = "pump"       -> PumpNumbers(o)
      [] Protocol = "drc-20"     -> {"amt", "max", "lim"}
      [] Protocol = "meme-20"    -> {"amt", "max"}
      [] Protocol = "order-v1"   -> {"amt0", "amt1"}
      [] Protocol = "box-v1"     -> {"amt0", "amt1", "liqamt", "max"}
      [] Protocol \in {"file", "invite"} -> {}
      [] OTHER                         -> {"amt"}

Converts(k) == raw.ins[k].bad \cap Numbers(raw.ins[k].op) = {}

-----------------------------------------------------------------------------
(* Who acts. Most functions want the first output to go to the funder.     *)

OwnAddress(k) == Receiver = Funder(k)

\* A transfer goes to the first output and, of more than two, to all but the
\* last.
Receivers == {Receiver} \cup {Out(k).to : k \in 2..(Len(raw.outs) - 1)}

\* A mint is paid for by the value of what it sends its receiver.
Repeats(v) == \E n \in Exact : n <= 30 /\ v = n * Unit

drc20Decode ==
    CASE Operation = "deploy"   -> Out(1).value = Unit
      [] Operation = "mint"     -> Repeats(Out(1).value)
      [] Operation = "transfer" -> Funder(1) \notin Receivers

meme20Decode == Operation = "deploy" => Out(1).value = Unit /\ OwnAddress(1)

fileDecode ==
    CASE Operation = "deploy"   -> Out(1).value = Unit
      [] Operation = "transfer" -> Receiver # Funder(1)

inviteDecode == Out(1).value = Unit /\ OwnAddress(1)

wdogeDecode ==
    /\ OwnAddress(1)
    /\ Operation = "deposit" => Len(raw.outs) = 3 /\ PaysDeposit(raw.ins[1].amts[1])

exchangeDecode == OwnAddress(1)
stakeDecode == OwnAddress(1)
boxDecode == OwnAddress(1)

fileExchangeDecode ==
    /\ OwnAddress(1)
    /\ Operation \in {"trade", "cancel"} => raw.ins[1].ref \in Orders

consensusDecode ==
    /\ OwnAddress(1)
    /\ Operation = "unstake" => raw.ins[1].ref # None

crossDecode == Operation # "mint" => OwnAddress(1)

\* The fees of a pump inscription follow the outputs of its deposit.
pumpDecode ==
    LET after == IF PumpDeposit(raw.ins[1]) > 0 THEN 3 ELSE 1 IN
    /\ Operation = "deploy" =>
          /\ Len(raw.outs) >= after + 2
          /\ Pays(after + 1, CreateFeeAddress, CreateFee)
          /\ Pays(after + 2, TipAddress, TipFee)
    /\ Operation = "trade" => Len(raw.outs) >= after + 1 /\ Pays(after + 1, TipAddress, TipFee)
    /\ OwnAddress(1)

\* Mutant: a router asks for the funder of the first input only.
AcceptsFirst(k) ==
    CASE Protocol \in Routers    -> raw.ins[k].p # None /\ OwnAddress(1)
      [] Protocol = "drc-20"     -> drc20Decode
      [] OTHER          -> OwnAddress(k)

\* What is asked before the row of input k is saved.
Accepts(k) ==
    \/ Protocol \in Routers    /\ raw.ins[k].p # None /\ OwnAddress(k)
    \/ Protocol = "drc-20"     /\ drc20Decode
    \/ Protocol = "wdoge"      /\ wdogeDecode
    \/ Protocol = "file"       /\ fileDecode
    \/ Protocol = "stake-v1"   /\ stakeDecode
    \/ Protocol = "order-v1"   /\ exchangeDecode
    \/ Protocol = "order-v2"   /\ fileExchangeDecode
    \/ Protocol = "box-v1"     /\ boxDecode
    \/ Protocol = "cross"      /\ crossDecode
    \/ Protocol = "meme-20"    /\ meme20Decode
    \/ Protocol = "consensus"  /\ consensusDecode
    \/ Protocol = "pump"       /\ pumpDecode
    \/ Protocol = "invite"     /\ inviteDecode

\* Whose tokens the inscription takes, or who gets what it makes.
Holder(k) ==
    IF <<Protocol, Operation>> \in {<<"drc-20", "transfer">>, <<"file", "transfer">>,
                      <<"meme-20", "transfer">>, <<"cross", "mint">>}
    THEN Funder(k) ELSE Receiver

\* Mutant: each input of a list is checked against the same output.
PaysSeparately ==
    Protocol \in Routers =>
        \A k \in DOMAIN raw.ins :
            /\ raw.ins[k].p = Protocol
            /\ RouterDeposit(raw.ins[k]) > 0 =>
                  Len(raw.outs) = 3 /\ PaysDeposit(RouterDeposit(raw.ins[k]))

\* What is asked after the rows are saved.
PaysInTheEnd ==
    /\ Protocol \in Routers =>
          /\ ListDeposit > 0 => Len(raw.outs) = 3 /\ PaysDeposit(ListDeposit)
          /\ \A k \in DOMAIN raw.ins : raw.ins[k].p = Protocol
    /\ Protocol = "pump" /\ PumpDeposit(raw.ins[1]) > 0 =>
          Len(raw.outs) >= 3 /\ PaysDeposit(PumpDeposit(raw.ins[1]))

-----------------------------------------------------------------------------

DecodeInit ==
    /\ raw \in Transactions
    /\ saved = 0
    /\ stage = "idle"
    /\ list = <<>>
    /\ minted = 0
    /\ acted = <<>>

Leave == stage' = "idle" /\ list' = <<>>

\* The scanner meets the transaction; one that has a row "already exist"s.
Scan ==
    /\ stage = "idle"
    /\ saved = 0
    /\ stage' = "inputs"
    /\ UNCHANGED <<raw, saved, list, minted, acted>>

Wanted == IF Protocol \in Routers THEN Len(raw.ins) ELSE 1

DecodeInput ==
    /\ stage = "inputs"
    /\ Len(list) < Wanted
    /\ Converts(Len(list) + 1)
    /\ Accepts(Len(list) + 1)
    /\ saved' = saved + 1
    /\ list' = Append(list, Holder(Len(list) + 1))
    /\ UNCHANGED <<raw, stage, minted, acted>>

Decoded ==
    /\ stage = "inputs"
    /\ Len(list) = Wanted
    /\ PaysInTheEnd
    /\ stage' = "execute"
    /\ UNCHANGED <<raw, saved, list, minted, acted>>

\* An inscription is refused, the node does not answer, or the process ends.
GiveUp ==
    /\ stage # "idle"
    /\ Leave
    /\ UNCHANGED <<raw, saved, minted, acted>>

\* executePairV2 takes the ticks of the pool for those that are inscribed.
OfPool(i) ==
    IF i.op \in {"create", "add"} THEN [i EXCEPT !.ticks = PoolTicks[i.ref]] ELSE i

HasPool(i) == i.doge /\ i.op \in {"create", "add"} => i.ref \in DOMAIN PoolTicks

Due ==
    CASE Protocol = "pair-v1"    -> ListDeposit
      [] Protocol = "pair-v2"    ->
            SumOver([k \in DOMAIN raw.ins |->
                       IF raw.ins[k].doge THEN RouterDeposit(OfPool(raw.ins[k])) ELSE 0])
      [] Protocol = "pump"       -> PumpDeposit(raw.ins[1])
      [] Protocol = "wdoge"      -> IF Operation = "deposit" THEN raw.ins[1].amts[1] ELSE 0
      [] OTHER         -> 0

\* The deposit has a database transaction of its own.
MintDeposit ==
    /\ stage = "execute"
    /\ Protocol = "pair-v2" => \A k \in DOMAIN raw.ins : HasPool(raw.ins[k])
    /\ minted' = minted + Due
    /\ stage' = "act"
    /\ UNCHANGED <<raw, saved, list, acted>>

\* The rest of the execution, if nothing refuses it.
Act ==
    /\ stage = "act"
    /\ acted' = Append(acted, list)
    /\ Leave
    /\ UNCHANGED <<raw, saved, minted>>

DecodeNext == Scan \/ DecodeInput \/ Decoded \/ GiveUp \/ MintDeposit \/ Act

DecodeSpec == DecodeInit /\ [][DecodeNext]_decodeVars

-----------------------------------------------------------------------------
(* Properties *)

PaidToCool == Max({0} \cup {Out(k).value : k \in {j \in DOMAIN raw.outs : Out(j).to = Cool}})

\* Pair-v2 deposits whose inscriptions name the ticks of their pool.
NamesItsPool(i) ==
    i.op \in {"create", "add"} /\ i.ref \in DOMAIN PoolTicks => i.ticks = PoolTicks[i.ref]

\* WDOGE is minted once, for DOGE that one output pays to the cool address, but
\* for the koinu that rounding gives away: two functions count the deposit of a
\* list, one to check the outputs and one to mint, and neither a failure between
\* them nor another scan mints for a list that is not paid for.
MintedIsPaid ==
    (Protocol = "pair-v2" => \A k \in DOMAIN raw.ins : NamesItsPool(raw.ins[k])) =>
        minted <= PaidToCool + 1

\* Inscriptions that give their holder something and take nothing.
Gives ==
    <<Protocol, Operation>> \in {<<"drc-20", "deploy">>, <<"drc-20", "mint">>, <<"file", "deploy">>}

\* Nobody's tokens are moved but those of him who funded the inscription, each
\* input of a list having a funder of its own; and a list is carried out as a
\* whole or not at all, though its rows are saved one by one before the outputs
\* are looked at (swapRouterDecode, swapV2RouterDecode and the others).
ActsForFunder ==
    \A n \in DOMAIN acted :
        /\ Len(acted[n]) = Wanted
        /\ \A k \in DOMAIN acted[n] : acted[n][k] = Funder(k) \/ Gives

\* What is known of a transaction that has got as far as stage; one without an
\* info row has brought nothing.
GotTo ==
    /\ saved = 0 => minted = 0 /\ stage \in {"idle", "inputs"}
    /\ stage = "idle" => list = <<>>
    /\ stage = "inputs" => saved = Len(list) /\ minted = 0 /\ Len(list) <= Wanted
    /\ stage \in {"execute", "act"} => Len(list) = Wanted
    /\ stage = "execute" => minted = 0 /\ PaysInTheEnd
    /\ Protocol = "wdoge" /\ list # <<>> => wdogeDecode
    /\ \A k \in DOMAIN list : list[k] = Funder(k) \/ Gives

DecodeInv ==
    /\ raw \in Transactions /\ saved \in Nat
    /\ stage \in {"idle", "inputs", "execute", "act"}
    /\ list \in Seq(Addresses) /\ acted \in Seq(Seq(Addresses))
    /\ GotTo
    /\ MintedIsPaid
    /\ ActsForFunder
=============================================================================
