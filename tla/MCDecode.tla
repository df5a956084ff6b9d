------------------------------ MODULE MCDecode ------------------------------
(***************************************************************************)
(* Every protocol and operation with one input of either holder, and lists *)
(* of one or two router inputs, with and without the outputs of a deposit. *)
(* A unit is 5 koinu; 7 koinu read as 8; a fourth of a deposit is its fee. *)
(***************************************************************************)
EXTENDS Decode

CONSTANTS a, b, token, pair

MCPools == [x \in {pair} |-> <<token, WDOGE>>]

Singles == {x \in Operations : x[1] \notin Routers \cup {"pump"}}

Input(protocol, operation, funder, ref, doge, ticks, amt) ==
    [p |-> protocol, op |-> operation, funder |-> funder, ref |-> ref, doge |-> doge,
     ticks |-> ticks, amts |-> <<amt, amt>>, bad |-> {}]

Misspelt(i, field) == [i EXCEPT !.bad = {field}]

To(x, v) == [to |-> x, value |-> v]
ToSender == {<<To(a, v)>> : v \in {5, 10, 15}}
Deposits == {<<To(x, v), To(FeeAddress, w)>> : x \in {Cool, b}, v \in {7, 8, 16}, w \in {1, 2, 4}}
Fees == {<<>>, <<To(TipAddress, 1)>>, <<To(CreateFeeAddress, 4), To(TipAddress, 1)>>}

Plain ==
    {[ins |-> <<Input(x[1], x[2], f, r, FALSE, <<token, token>>, 8)>>, outs |-> first \o rest] :
        x \in Singles, f \in {a, b}, r \in {pair, None},
        first \in ToSender, rest \in {<<>>, <<To(b, 1)>>} \cup Deposits}

Sides == {<<WDOGE, token>>, <<token, WDOGE>>}

Pump ==
    {[ins |-> <<Input("pump", x[1], f, None, d, x[2], 8)>>,
      outs |-> <<To(a, 5)>> \o dep \o fee] :
        x \in {"trade"} \X Sides \cup {"deploy"} \X {<<token, WDOGE>>, <<token, token>>},
        f \in {a, b}, d \in BOOLEAN, dep \in Deposits \cup {<<>>}, fee \in Fees}

RouterInputs(q) ==
    {Input(q, o, f, r, TRUE, s, 8) :
        o \in {"create", "add", "swap"}, f \in {a, b}, r \in {pair, None},
        s \in Sides \cup {<<token, token>>}}
    \cup {Input(q, "remove", a, pair, TRUE, <<token, WDOGE>>, 8),
          Input(None, "add", a, pair, TRUE, <<token, WDOGE>>, 8),
          Input("wdoge", "add", a, pair, TRUE, <<token, WDOGE>>, 8)}
    \cup {Misspelt(Input(q, o, a, pair, TRUE, <<token, WDOGE>>, 8), "amt1_min") :
             o \in {"add", "remove"}}

Lists ==
    UNION {{[ins |-> is, outs |-> <<To(a, 5)>> \o dep] :
               is \in {<<i>> : i \in RouterInputs(q)}
                     \cup {<<i, j>> : i \in {x \in RouterInputs(q) : x.p = q /\ x.funder = a},
                                      j \in RouterInputs(q)},
               dep \in {d \in Deposits : d[1].to = Cool /\ d[2].value # 1} \cup {<<>>}} :
           q \in Routers}

Misspelts ==
    {[ins |-> <<Misspelt(Input(x[1], x[2], a, pair, FALSE, <<token, token>>, 8), field)>>,
      outs |-> <<To(a, 5)>>] : x \in Singles, field \in {"amt", "amt1", "liqamt"}}

MCTransactions == Misspelts \cup Plain \cup Pump \cup {t \in Lists : t.ins[1].p \in Routers}
=============================================================================
