-------------------------- MODULE UtxoProofs --------------------------
(***************************************************************************)
(* Theorems about the UTXO modules.  Registries: whatever chains are       *)
(* constructed, in whatever order and with whatever failures between the   *)
(* two registries, the addresses of a chain are parsed as it was built.    *)
(* UtxoTransfer: whatever is claimed of coins, what is finalized pays the  *)
(* fee it reported, and what broadcast says is final is true.  UtxoReads:  *)
(* a status is true of the chain, and its changes add up.  UtxoCoins: what *)
(* is selected pays for itself, and the branch and bound finds the best    *)
(* match there is.                                                         *)
(***************************************************************************)
EXTENDS UtxoMC, Sums

\* "none" is the model's name for the absence of a network type and "EVM" its mark of
\* a chain with no parameters: neither is a family's or a shape's.
FamiliesHaveNames ==
    /\ "none" \notin Families /\ "EVM" \notin Shapes
    /\ \A id \in DOMAIN SeedFamily : SeedFamily[id] # "none"

\* What is registered is the name of a family.
NamedInv == \A id \in DOMAIN networkTypes : networkTypes[id] # "none"

\* A chain is entered in the registries as it was built.  An EVM chain is by not
\* being entered as another, a Bitcoin-like one by both registries.
Entered(c) ==
    IF c.shape = "EVM"
    THEN G!networkTypeOf(c.id) = "EVM"
    ELSE /\ c.id \in DOMAIN networkTypes /\ networkTypes[c.id] = "BTC"
         /\ c.id \in DOMAIN btcParams /\ btcParams[c.id] = c.shape

EnteredInv == \A c \in chains : c.id \notin removed => Entered(c)

\* The inductive invariant: a chain that fails half-way leaves the entries of the
\* others alone, and no later one of the same id may move them.
RegistriesInv == NamedInv /\ EnteredInv

\* No chain is constructed at the start.
LEMMA RegistriesInit == ASSUME FamiliesHaveNames PROVE G!Init => RegistriesInv
BY DEF FamiliesHaveNames, G!Init, RegistriesInv, NamedInv, EnteredInv

\* Another network type is entered for an id only where there was none, or again.
LEMMA TypesStay ==
    ASSUME RegistriesInv, NEW id, NEW family, family # "none", G!Registers(id, family),
           networkTypes' = G!Put(networkTypes, id, family)
    PROVE  NamedInv' /\ \A x : G!networkTypeOf(x) # "none" => G!networkTypeOf(x)' = G!networkTypeOf(x)
<1>1. NamedInv'
    BY DEF G!Put, RegistriesInv, NamedInv
<1>2. ASSUME NEW x, G!networkTypeOf(x) # "none" PROVE G!networkTypeOf(x)' = G!networkTypeOf(x)
    <2>1. CASE x = id
        <3>1. G!networkTypeOf(x) = family  BY <1>2, <2>1 DEF G!Registers
        <3>2. G!networkTypeOf(x)' = family  BY <2>1 DEF G!Put, G!networkTypeOf
        <3> QED  BY <3>1, <3>2
    <2>2. CASE x # id
        <3>1. (x \in DOMAIN networkTypes') = (x \in DOMAIN networkTypes)  BY <2>2 DEF G!Put
        <3>2. x \in DOMAIN networkTypes => networkTypes'[x] = networkTypes[x]  BY <2>2 DEF G!Put
        <3> QED  BY <3>1, <3>2 DEF G!networkTypeOf
    <2> QED  BY <2>1, <2>2
<1> QED  BY <1>1, <1>2

\* A chain that is entered stays so, as long as its network type and parameters do.
LEMMA StaysEntered ==
    ASSUME RegistriesInv, NEW c, Entered(c),
           G!networkTypeOf(c.id)' = G!networkTypeOf(c.id),
           c.id \in DOMAIN networkTypes => c.id \in DOMAIN networkTypes',
           c.id \in DOMAIN btcParams => c.id \in DOMAIN btcParams' /\ btcParams'[c.id] = btcParams[c.id]
    PROVE  Entered(c)'
<1>1. CASE c.shape = "EVM"  BY <1>1 DEF Entered
<1>2. CASE c.shape # "EVM"
    <2>1. c.id \in DOMAIN networkTypes' /\ networkTypes'[c.id] = "BTC"
        BY <1>2 DEF Entered, G!networkTypeOf
    <2>2. c.id \in DOMAIN btcParams' /\ btcParams'[c.id] = c.shape
        BY <1>2 DEF Entered
    <2> QED  BY <1>2, <2>1, <2>2 DEF Entered
<1> QED  BY <1>1, <1>2

\* An entered chain has a network type.
LEMMA EnteredIsNamed == ASSUME RegistriesInv, NEW c, Entered(c) PROVE G!networkTypeOf(c.id) # "none"
BY DEF Entered, G!networkTypeOf

LEMMA RegistriesStep == ASSUME FamiliesHaveNames PROVE RegistriesInv /\ [G!Next]_G!vars => RegistriesInv'
<1> SUFFICES ASSUME RegistriesInv, [G!Next]_G!vars PROVE RegistriesInv'
    OBVIOUS
<1>1. CASE UNCHANGED G!vars
    BY <1>1 DEF G!vars, RegistriesInv, NamedInv, EnteredInv, Entered, G!networkTypeOf
<1>2. ASSUME NEW id \in ChainIds, NEW family \in Families, G!RegisterNonEvmChain(id, family) PROVE RegistriesInv'
    <2>0. family # "none"  BY <1>2 DEF FamiliesHaveNames
    <2>1. NamedInv' /\ \A x : G!networkTypeOf(x) # "none" => G!networkTypeOf(x)' = G!networkTypeOf(x)
        BY <1>2, <2>0, TypesStay DEF G!RegisterNonEvmChain
    <2>2. ASSUME NEW c \in chains, c.id \notin removed PROVE Entered(c)'
        <3>1. Entered(c)  BY <2>2 DEF RegistriesInv, EnteredInv
        <3>2. G!networkTypeOf(c.id)' = G!networkTypeOf(c.id)  BY <2>1, <3>1, EnteredIsNamed
        <3>3. c.id \in DOMAIN networkTypes => c.id \in DOMAIN networkTypes'
            BY <1>2 DEF G!Put, G!RegisterNonEvmChain
        <3> QED  BY <1>2, <3>1, <3>2, <3>3, StaysEntered DEF G!RegisterNonEvmChain
    <2> QED  BY <1>2, <2>1, <2>2 DEF RegistriesInv, EnteredInv, G!RegisterNonEvmChain
<1>3. ASSUME NEW id \in ChainIds, NEW shape \in Shapes, G!ConstructBtcChain(id, shape) PROVE RegistriesInv'
    <2>1. NamedInv' /\ \A x : G!networkTypeOf(x) # "none" => G!networkTypeOf(x)' = G!networkTypeOf(x)
        BY <1>3, TypesStay DEF G!ConstructBtcChain
    <2>2. ASSUME NEW c \in chains, c.id \notin removed PROVE Entered(c)'
        <3>1. Entered(c)  BY <2>2 DEF RegistriesInv, EnteredInv
        <3>2. G!networkTypeOf(c.id)' = G!networkTypeOf(c.id)  BY <2>1, <3>1, EnteredIsNamed
        <3>3. c.id \in DOMAIN networkTypes => c.id \in DOMAIN networkTypes'
            BY <1>3 DEF G!Put, G!ConstructBtcChain
        <3>4. c.id \in DOMAIN btcParams => c.id \in DOMAIN btcParams' /\ btcParams'[c.id] = btcParams[c.id]
            BY <1>3 DEF G!Put, G!ConstructBtcChain, G!TakesParams, G!btcParamsShapeMatches
        <3> QED  BY <3>1, <3>2, <3>3, <3>4, StaysEntered
    <2>3. ASSUME NEW c \in chains' \ chains PROVE Entered(c)'
        <3>1. c = [id |-> id, shape |-> shape] /\ btcParams' = G!Put(btcParams, id, shape)
            BY <1>3, <2>3 DEF G!ConstructBtcChain
        <3>3. shape # "EVM"  BY DEF FamiliesHaveNames
        <3>2. networkTypes' = G!Put(networkTypes, id, "BTC")  BY <1>3 DEF G!ConstructBtcChain
        <3> QED  BY <3>1, <3>2, <3>3 DEF G!Put, Entered
    <2> QED  BY <1>3, <2>1, <2>2, <2>3 DEF RegistriesInv, EnteredInv, G!ConstructBtcChain
<1>4. ASSUME NEW id \in ChainIds, G!ConstructEvmChain(id) PROVE RegistriesInv'
    <2>1. G!networkTypeOf(id) = "EVM"
        BY <1>4 DEF G!ConstructEvmChain, G!networkTypeOf, RegistriesInv, NamedInv
    <2> QED  BY <1>4, <2>1 DEF G!ConstructEvmChain, RegistriesInv, NamedInv, EnteredInv, Entered, G!networkTypeOf
<1>5. ASSUME NEW id \in ChainIds, G!UnregisterChain(id) PROVE RegistriesInv'
    <2>1. NamedInv'  BY <1>5 DEF G!Drop, G!UnregisterChain, RegistriesInv, NamedInv
    <2>2. ASSUME NEW c \in chains, c.id \notin removed, c.id # id PROVE Entered(c)'
        <3>1. Entered(c)  BY <2>2 DEF RegistriesInv, EnteredInv
        <3>2. (c.id \in DOMAIN networkTypes') = (c.id \in DOMAIN networkTypes)  BY <1>5, <2>2 DEF G!Drop, G!UnregisterChain
        <3>3. c.id \in DOMAIN networkTypes => networkTypes'[c.id] = networkTypes[c.id]  BY <1>5, <2>2 DEF G!Drop, G!UnregisterChain
        <3>4. G!networkTypeOf(c.id)' = G!networkTypeOf(c.id)  BY <3>2, <3>3 DEF G!networkTypeOf
        <3> QED  BY <1>5, <3>1, <3>2, <3>4, StaysEntered DEF G!UnregisterChain
    <2> QED  BY <1>5, <2>1, <2>2 DEF RegistriesInv, EnteredInv, G!UnregisterChain
<1>6. ASSUME NEW id \in ChainIds, G!UnregisterBtcChainParams(id) PROVE RegistriesInv'
    <2>2. ASSUME NEW c \in chains, c.id \notin removed' PROVE Entered(c)'
        <3>1. Entered(c)  BY <1>6, <2>2 DEF RegistriesInv, EnteredInv, G!UnregisterBtcChainParams
        <3>2. c.id \in DOMAIN btcParams => c.id \in DOMAIN btcParams' /\ btcParams'[c.id] = btcParams[c.id]
            BY <1>6, <2>2 DEF G!Drop, G!UnregisterBtcChainParams
        <3> QED  BY <1>6, <3>1, <3>2, StaysEntered DEF G!UnregisterBtcChainParams, G!networkTypeOf
    <2> QED  BY <1>6, <2>2 DEF RegistriesInv, NamedInv, EnteredInv, G!UnregisterBtcChainParams
<1> QED  BY <1>1, <1>2, <1>3, <1>4, <1>5, <1>6 DEF G!Next

\* Every address is parsed under the parameters its chain was constructed with, as
\* long as nobody removed an entry of the id: for any ids, shapes and number of
\* chains.
THEOREM AddressesParseAsBuilt == ASSUME FamiliesHaveNames PROVE G!Spec => []ParsesAsBuilt
<1>1. G!Init => RegistriesInv  BY RegistriesInit
<1>2. RegistriesInv /\ [G!Next]_G!vars => RegistriesInv'  BY RegistriesStep
<1>3. RegistriesInv => ParsesAsBuilt
    BY DEF RegistriesInv, EnteredInv, Entered, ParsesAsBuilt, G!ParsesAsBuilt, G!addressFor, G!btcParamsFor, G!networkTypeOf
<1> QED  BY <1>1, <1>2, <1>3, PTL DEF G!Spec

-----------------------------------------------------------------------------
(* Transfers: what is signed and what a broadcast says.                    *)

\* What the coins of a transfer are worth, where w gives the value of each.
RealOf(S, w) == MapThenSumSet(LAMBDA x : w[x.coin], S)

\* verifiedPrevouts, of a record of a transfer.
PrevoutsOf(r, w) ==
    /\ \A x \in r.ins :
          /\ x.parent = T!ParentOf(x.coin)
          /\ ScriptType = "p2wpkh" => x.value = w[x.coin] /\ x.owner = Owner[x.coin]
    /\ RealOf(r.ins, w) - r.paid = r.fee

\* Before it is built a transfer has none of the fields of a built one; then what was
\* checked holds, and what assembleTransaction built holds without a check.
SoundRecord(r, w) ==
    /\ r.step \in {"idle", "rate", "coins", "parents", "built", "final", "refused", "failed"}
    /\ r.step \in {"idle", "rate", "coins", "parents"} =>
          DOMAIN r \cap {"by", "ins", "fee", "paid", "sigs", "checked"} = {}
    /\ r.step = "built" =>
          /\ {"step", "by", "ins", "fee", "paid", "sigs", "checked"} \subseteq DOMAIN r
          /\ r.checked = FALSE \/ (r.checked = TRUE /\ PrevoutsOf(r, w))
          /\ r.by = "transfer" \/ (r.by = "assembly" /\ PrevoutsOf(r, w))
    /\ r.step = "final" => PrevoutsOf(r, w)
    /\ r.step = "refused" => r.by = "transfer"

\* The inductive invariant.
TransfersInv ==
    /\ tx = [t \in Transfers |-> tx[t]]
    /\ \A t \in Transfers : SoundRecord(tx[t], worth)

LEMMA RealTotalIs == \A S : T!RealTotal(S) = RealOf(S, worth)
BY DEF T!RealTotal, RealOf, T!MapThenSumSet, T!MapThenFoldSet, MapThenSumSet, MapThenFoldSet

\* Claims that hold add up to what the coins are worth.
LEMMA TotalIsReal ==
    ASSUME NEW S, NEW w, \A x \in S : x.value = w[x.coin]
    PROVE  T!Total(S) = RealOf(S, w)
<1> DEFINE pick(s) == CHOOSE x \in s : TRUE
           E(g) == [s \in SUBSET S |-> IF s = {} THEN 0 ELSE pick(s).value + g[s \ {pick(s)}]]
           F(g) == [s \in SUBSET S |-> IF s = {} THEN 0 ELSE w[pick(s).coin] + g[s \ {pick(s)}]]
<1>1. \A s \in SUBSET S : s # {} => pick(s) \in S  OBVIOUS
<1>2. \A g : E(g) = F(g)  BY <1>1
<1>3. (CHOOSE g : g = E(g)) = (CHOOSE g : g = F(g))
    <2> HIDE DEF E, F
    <2> QED  BY <1>2
<1>4. T!Total(S) = (CHOOSE g : g = E(g))[S]  BY DEF T!Total, T!MapThenSumSet, T!MapThenFoldSet
<1>5. RealOf(S, w) = (CHOOSE g : g = F(g))[S]  BY DEF RealOf, MapThenSumSet, MapThenFoldSet
<1> QED  BY <1>3, <1>4, <1>5

\* A built transfer has the fields that are read of it.
LEMMA BuiltHasFields ==
    ASSUME TransfersInv
    PROVE  \A t \in Transfers : tx[t].step = "built" =>
               {"step", "by", "ins", "fee", "paid", "sigs", "checked"} \subseteq DOMAIN tx[t]
BY DEF TransfersInv, SoundRecord

LEMMA TransfersInit == T!Init => TransfersInv
<1> SUFFICES ASSUME T!Init PROVE TransfersInv
    OBVIOUS
<1>1. tx = [t \in Transfers |-> [step |-> "idle"]]  BY DEF T!Init, T!NoTx
<1>2. \A t \in Transfers : SoundRecord([step |-> "idle"], worth)  BY DEF SoundRecord
<1> QED  BY <1>1, <1>2 DEF TransfersInv

\* A transfer that goes on to a sound record leaves the others as they are.
LEMMA AdvanceHolds ==
    ASSUME TransfersInv, NEW t \in Transfers, NEW r, T!Advance(t, r), UNCHANGED worth,
           SoundRecord(r, worth)
    PROVE  TransfersInv'
BY DEF TransfersInv, T!Advance

\* What fails is sound.
LEMMA FailHolds ==
    ASSUME TransfersInv, NEW t \in Transfers, T!Fail(t), UNCHANGED worth
    PROVE  TransfersInv'
<1>1. SoundRecord([step |-> "failed"], worth)  BY DEF SoundRecord
<1>2. T!Advance(t, [step |-> "failed"])  BY DEF T!Fail
<1> QED  BY <1>1, <1>2, AdvanceHolds

-----------------------------------------------------------------------------
(* One lemma for each call.                                                *)
LEMMA BuildStep ==
    ASSUME TransfersInv, NEW t \in Transfers, NEW req, T!BuildTransfer(t, req)
    PROVE  TransfersInv'
<1>1. SoundRecord([step |-> "rate", req |-> req], worth)  BY DEF SoundRecord
<1> QED  BY <1>1, AdvanceHolds, FailHolds DEF T!BuildTransfer

\* A record that is not built, with other fields, is sound.
LEMMA NotYetBuilt ==
    ASSUME NEW r, NEW w, SoundRecord(r, w), r.step \in {"rate", "coins", "parents"},
           NEW s, s.step \in {"rate", "coins", "parents"},
           DOMAIN s \cap {"by", "ins", "fee", "paid", "sigs", "checked"}
               \subseteq DOMAIN r
    PROVE  SoundRecord(s, w)
BY DEF SoundRecord

LEMMA RateStep ==
    ASSUME TransfersInv, NEW t \in Transfers, T!ResolveFeeRate(t)
    PROVE  TransfersInv'
<1>1. tx[t].step = "rate" /\ SoundRecord(tx[t], worth) /\ UNCHANGED worth
    BY DEF T!ResolveFeeRate, TransfersInv
<1>2. CASE T!Fail(t)  BY <1>1, <1>2, FailHolds
<1>3. ASSUME NEW rate, T!Advance(t, T!With(tx[t], [step |-> "coins", rate |-> rate]))
      PROVE  TransfersInv'
    <2> DEFINE s == T!With(tx[t], [step |-> "coins", rate |-> rate])
    <2>1. s.step = "coins" /\ DOMAIN s = DOMAIN tx[t] \cup {"step", "rate"}  BY DEF T!With
    <2>2. SoundRecord(s, worth)
        <3> HIDE DEF s
        <3> QED  BY <1>1, <2>1, NotYetBuilt
    <2> QED  BY <1>1, <1>3, <2>2, AdvanceHolds
<1> QED  BY <1>2, <1>3 DEF T!ResolveFeeRate

LEMMA ListStep ==
    ASSUME TransfersInv, NEW t \in Transfers, T!ListCoins(t)
    PROVE  TransfersInv'
<1>1. tx[t].step = "coins" /\ SoundRecord(tx[t], worth) /\ UNCHANGED worth
    BY DEF T!ListCoins, TransfersInv
<1>2. CASE T!Fail(t)  BY <1>1, <1>2, FailHolds
<1>3. ASSUME NEW claims, NEW selection,
             T!Advance(t, T!With(tx[t], [step |-> "parents", listed |-> claims, selection |-> selection]))
      PROVE  TransfersInv'
    <2> DEFINE s == T!With(tx[t], [step |-> "parents", listed |-> claims, selection |-> selection])
    <2>1. s.step = "parents" /\ DOMAIN s = DOMAIN tx[t] \cup {"step", "listed", "selection"}
        BY DEF T!With
    <2>2. SoundRecord(s, worth)
        <3> HIDE DEF s
        <3> QED  BY <1>1, <2>1, NotYetBuilt
    <2> QED  BY <1>1, <1>3, <2>2, AdvanceHolds
<1>4. ASSUME NEW listed, T!SelectFrom(t, listed) PROVE TransfersInv'
    BY <1>2, <1>3, <1>4 DEF T!SelectFrom
<1>5. \E listed : T!SelectFrom(t, listed)  BY ZenonT(40) DEF T!ListCoins
<1> QED  BY <1>4, <1>5

LEMMA ParentsStep ==
    ASSUME TransfersInv, NEW t \in Transfers, T!FetchParents(t)
    PROVE  TransfersInv'
<1>1. tx[t].step = "parents" /\ SoundRecord(tx[t], worth) /\ UNCHANGED worth
    BY DEF T!FetchParents, TransfersInv
<1>2. CASE T!Fail(t)  BY <1>1, <1>2, FailHolds
<1>3. ASSUME NEW ins, T!Advance(t, T!Built(t, ins)) PROVE TransfersInv'
    <2>1. /\ {"step", "by", "ins", "fee", "paid", "sigs", "checked"} \subseteq DOMAIN T!Built(t, ins)
          /\ T!Built(t, ins).step = "built" /\ T!Built(t, ins).by = "transfer"
          /\ T!Built(t, ins).checked = FALSE
        BY DEF T!Built, T!With
    <2>2. SoundRecord(T!Built(t, ins), worth)  BY <2>1 DEF SoundRecord
    <2> QED  BY <1>1, <1>3, <2>2, AdvanceHolds
<1> QED  BY <1>2, <1>3 DEF T!FetchParents

\* What assembleTransaction builds of claims that hold passes the checks to come.
LEMMA AssembleStep ==
    ASSUME TransfersInv, NEW t \in Transfers, NEW asm, T!AssembleTransaction(t, asm)
    PROVE  TransfersInv'
<1>1. UNCHANGED worth  BY DEF T!AssembleTransaction
<1>2. CASE T!Fail(t)  BY <1>1, <1>2, FailHolds
<1> DEFINE made(claims) ==
        [step |-> "built", by |-> "assembly", ins |-> claims,
         fee |-> T!Total(claims) - T!SumOf(asm.outputs),
         paid |-> T!SumOf(asm.outputs), sigs |-> {}, checked |-> FALSE]
<1>3. ASSUME NEW claims, ~T!RefusesAssembly(claims, asm), T!Advance(t, made(claims))
      PROVE  TransfersInv'
    <2>1. \A x \in claims : T!InputHolds(x)  BY <1>3 DEF T!RefusesAssembly
    <2>2. T!Total(claims) = RealOf(claims, worth)  BY <2>1, TotalIsReal DEF T!InputHolds
    <2>3. PrevoutsOf(made(claims), worth)  BY <2>1, <2>2 DEF PrevoutsOf, T!InputHolds
    <2>4. SoundRecord(made(claims), worth)  BY <2>3 DEF SoundRecord
    <2> HIDE DEF made
    <2> QED  BY <1>1, <1>3, <2>4, AdvanceHolds
<1> HIDE DEF made
<1>4. T!Fail(t) \/ \E claims : ~T!RefusesAssembly(claims, asm) /\ T!Advance(t, made(claims))
    BY DEF T!AssembleTransaction, made
<1> QED  BY <1>2, <1>3, <1>4

LEMMA CheckIs == \A t : T!PrevoutsHold(t) <=> PrevoutsOf(tx[t], worth)
BY RealTotalIs DEF T!PrevoutsHold, PrevoutsOf

\* What is checked holds, and goes on holding when it is signed and finalized.
LEMMA SignStep ==
    ASSUME TransfersInv, NEW t \in Transfers, NEW owner, T!SignWith(t, owner)
    PROVE  TransfersInv'
<1>1. /\ tx[t].step = "built" /\ UNCHANGED worth
      /\ tx[t].checked = FALSE \/ (tx[t].checked = TRUE /\ PrevoutsOf(tx[t], worth))
      /\ tx[t].by = "transfer" \/ (tx[t].by = "assembly" /\ PrevoutsOf(tx[t], worth))
    BY DEF T!SignWith, TransfersInv, SoundRecord
<1>2. CASE ~tx[t].checked /\ ~T!PrevoutsHold(t)
    <2> DEFINE s == [tx[t] EXCEPT !.step = "refused"]
    <2>1. tx[t].by = "transfer"  BY <1>1, <1>2, CheckIs
    <2>2. s.step = "refused" /\ s.by = "transfer"  BY <2>1, BuiltHasFields, <1>1
    <2>3. SoundRecord(s, worth)  BY <2>2 DEF SoundRecord
    <2> QED  BY <1>1, <1>2, <2>3, AdvanceHolds DEF T!SignWith
<1>3. CASE tx[t].checked \/ T!PrevoutsHold(t)
    <2> DEFINE s == [tx[t] EXCEPT !.sigs = @ \cup {owner}, !.checked = TRUE]
    <2>1. PrevoutsOf(tx[t], worth)  BY <1>1, <1>3, CheckIs
    <2>2. /\ s.step = "built" /\ s.checked = TRUE /\ s.by = tx[t].by
          /\ s.ins = tx[t].ins /\ s.paid = tx[t].paid /\ s.fee = tx[t].fee
        BY <1>1, BuiltHasFields
    <2>3. PrevoutsOf(s, worth)  BY <2>1, <2>2 DEF PrevoutsOf
    <2>4. DOMAIN s = DOMAIN tx[t]  OBVIOUS
    <2>5. T!Advance(t, s)  BY <1>3 DEF T!SignWith
    <2>6. SoundRecord(s, worth)
        <3> HIDE DEF s
        <3> QED  BY <1>1, <2>2, <2>3, <2>4, BuiltHasFields DEF SoundRecord
    <2> QED  BY <1>1, <2>5, <2>6, AdvanceHolds
<1> QED  BY <1>2, <1>3

LEMMA FinalizeStep ==
    ASSUME TransfersInv, NEW t \in Transfers, T!Finalize(t)
    PROVE  TransfersInv'
<1>1. /\ tx[t].step = "built" /\ UNCHANGED worth
      /\ tx[t].checked = FALSE \/ (tx[t].checked = TRUE /\ PrevoutsOf(tx[t], worth))
      /\ tx[t].by = "transfer" \/ (tx[t].by = "assembly" /\ PrevoutsOf(tx[t], worth))
    BY DEF T!Finalize, TransfersInv, SoundRecord
<1>2. CASE ~tx[t].checked /\ ~T!PrevoutsHold(t)
    <2> DEFINE s == [tx[t] EXCEPT !.step = "refused"]
    <2>1. tx[t].by = "transfer"  BY <1>1, <1>2, CheckIs
    <2>2. s.step = "refused" /\ s.by = "transfer"  BY <2>1, BuiltHasFields, <1>1
    <2>3. SoundRecord(s, worth)  BY <2>2 DEF SoundRecord
    <2> QED  BY <1>1, <1>2, <2>3, AdvanceHolds DEF T!Finalize
<1>3. CASE tx[t].checked \/ T!PrevoutsHold(t)
    <2> DEFINE s == [tx[t] EXCEPT !.step = "final", !.checked = TRUE]
    <2>1. PrevoutsOf(tx[t], worth)  BY <1>1, <1>3, CheckIs
    <2>2. /\ s.step = "final" /\ s.ins = tx[t].ins /\ s.paid = tx[t].paid /\ s.fee = tx[t].fee
        BY <1>1, BuiltHasFields
    <2>3. PrevoutsOf(s, worth)  BY <2>1, <2>2 DEF PrevoutsOf
    <2>4. SoundRecord(s, worth)  BY <2>2, <2>3 DEF SoundRecord
    <2>5. T!Advance(t, s)  BY <1>3 DEF T!Finalize
    <2> QED  BY <1>1, <2>4, <2>5, AdvanceHolds
<1> QED  BY <1>2, <1>3

LEMMA TransfersStep == TransfersInv /\ [T!Next]_T!vars => TransfersInv'
<1> SUFFICES ASSUME TransfersInv, [T!Next]_T!vars PROVE TransfersInv'
    OBVIOUS
<1>1. CASE UNCHANGED <<worth, tx>>  BY <1>1 DEF TransfersInv
<1>2. CASE UNCHANGED T!vars  BY <1>1, <1>2 DEF T!vars
<1>3. ASSUME NEW t \in Transfers, T!Broadcast(t) \/ T!Mine(t) PROVE TransfersInv'
    BY <1>1, <1>3 DEF T!Broadcast, T!Mine
<1> QED
    BY <1>2, <1>3, BuildStep, RateStep, ListStep, ParentsStep, AssembleStep, SignStep, FinalizeStep
    DEF T!Next

\* What is finalized pays the fee it reported, for any claims of the providers and any
\* parents they serve, and what assembleTransaction built is not refused: for any
\* coins, values, requests and number of transfers.
THEOREM SignedPays == T!Spec => []SignsAndPays
<1>1. T!Init => TransfersInv  BY TransfersInit
<1>2. TransfersInv /\ [T!Next]_T!vars => TransfersInv'  BY TransfersStep
<1>3. TransfersInv => SignsAndPays
    BY RealTotalIs DEF TransfersInv, SoundRecord, PrevoutsOf, SignsAndPays, T!SignsAndPays,
       T!PaysReportedFee, T!AssembledSigns
<1> QED  BY <1>1, <1>2, <1>3, PTL DEF T!Spec

\* The theorem leaves out a reply that a timeout of axios hides: broadcast reads it
\* as a refusal, which the run Utxo_timeout shows.
NoTimeout == "timeout" \notin Replies

\* What is told of a broadcast is what the node did.
ToldInv ==
    /\ outcome = [t \in Transfers |-> outcome[t]]
    /\ \A t \in Transfers :
          /\ outcome[t].said = "sent" => t \in pool \cup chain
          /\ outcome[t].said \in {"BroadcastRejected", "InsufficientFunds"} =>
                 outcome[t].node = "untaken"

\* The meaning of a reply: a transaction is had by the node, or was not taken.
LEMMA ReplyIsTrue ==
    ASSUME NoTimeout, NEW t \in Transfers, NEW event \in {"taken", "known", "untaken"},
           T!Reply(t, event), ToldInv
    PROVE  \E said :
              /\ outcome' = [outcome EXCEPT ![t] = [said |-> said, node |-> event]]
              /\ said = "sent" => event # "untaken"
              /\ said \in {"BroadcastRejected", "InsufficientFunds"} => event = "untaken"
<1>1. PICK reply \in T!RepliesWhen(event) :
          outcome' = [outcome EXCEPT ![t] = [said |-> T!ReadReply(reply), node |-> event]]
    BY DEF T!Reply
<1>2. reply # "timeout"  BY DEF NoTimeout, T!RepliesWhen
<1>3. /\ T!ReadReply(reply) = "sent" => event # "untaken"
      /\ T!ReadReply(reply) \in {"BroadcastRejected", "InsufficientFunds"} => event = "untaken"
    BY <1>2 DEF T!RepliesWhen, T!ReadReply
<1> QED  BY <1>1, <1>3

LEMMA ToldStep == ASSUME NoTimeout PROVE ToldInv /\ [T!Next]_T!vars => ToldInv'
<1> SUFFICES ASSUME ToldInv, [T!Next]_T!vars PROVE ToldInv'
    OBVIOUS
<1>1. CASE UNCHANGED <<pool, chain, outcome>>  BY <1>1 DEF ToldInv
<1>2. ASSUME NEW t \in Transfers, T!Broadcast(t) PROVE ToldInv'
    <2>1. PICK event \in {"taken", "known", "untaken"} :
              T!Reply(t, event) /\ UNCHANGED chain /\ pool \subseteq pool'
              /\ (event # "untaken" => t \in pool' \cup chain')
        BY <1>2, Zenon DEF T!Broadcast
    <2>2. PICK said :
              /\ outcome' = [outcome EXCEPT ![t] = [said |-> said, node |-> event]]
              /\ said = "sent" => event # "untaken"
              /\ said \in {"BroadcastRejected", "InsufficientFunds"} => event = "untaken"
        BY <2>1, ReplyIsTrue
    <2> QED  BY <2>1, <2>2 DEF ToldInv
<1>3. ASSUME NEW t \in Transfers, T!Mine(t) PROVE ToldInv'
    <2>1. UNCHANGED outcome /\ pool' \cup chain' = pool \cup chain  BY <1>3 DEF T!Mine
    <2> QED  BY <2>1 DEF ToldInv
<1>4. ASSUME NEW t \in Transfers,
             \/ \E req \in Requests : T!BuildTransfer(t, req)
             \/ T!ResolveFeeRate(t) \/ T!ListCoins(t) \/ T!FetchParents(t)
             \/ \E asm \in Assemblies : T!AssembleTransaction(t, asm)
             \/ \E owner \in T!Owners : T!SignWith(t, owner)
             \/ T!Finalize(t)
      PROVE  UNCHANGED <<pool, chain, outcome>>
    <2>1. T!ResolveFeeRate(t) => UNCHANGED <<pool, chain, outcome>>  BY Zenon DEF T!ResolveFeeRate
    <2>2. T!ListCoins(t) => UNCHANGED <<pool, chain, outcome>>  BY ZenonT(40) DEF T!ListCoins
    <2>3. T!FetchParents(t) => UNCHANGED <<pool, chain, outcome>>  BY Zenon DEF T!FetchParents
    <2>4. ASSUME NEW asm, T!AssembleTransaction(t, asm) PROVE UNCHANGED <<pool, chain, outcome>>
        BY <2>4, Zenon DEF T!AssembleTransaction
    <2>5. ASSUME NEW req, T!BuildTransfer(t, req) PROVE UNCHANGED <<pool, chain, outcome>>
        BY <2>5, Zenon DEF T!BuildTransfer
    <2>6. ASSUME NEW owner, T!SignWith(t, owner) PROVE UNCHANGED <<pool, chain, outcome>>
        BY <2>6, Zenon DEF T!SignWith
    <2>7. T!Finalize(t) => UNCHANGED <<pool, chain, outcome>>  BY Zenon DEF T!Finalize
    <2> QED  BY <1>4, <2>1, <2>2, <2>3, <2>4, <2>5, <2>6, <2>7, Zenon
<1>5. CASE UNCHANGED T!vars  BY <1>1, <1>5 DEF T!vars
<1> QED  BY <1>1, <1>2, <1>3, <1>4, <1>5 DEF T!Next

\* What broadcast says is true, of any number of transfers that race for coins.
THEOREM BroadcastsAreTrue == ASSUME NoTimeout PROVE T!Spec => []AnswersAreTrue
<1>1. T!Init => ToldInv  BY DEF T!Init, ToldInv
<1>2. ToldInv /\ [T!Next]_T!vars => ToldInv'  BY ToldStep
<1>3. ToldInv => AnswersAreTrue  BY DEF ToldInv, AnswersAreTrue, T!AnswersAreTrue
<1> QED  BY <1>1, <1>2, <1>3, PTL DEF T!Spec

-----------------------------------------------------------------------------
(* Reads: what a status says, and what the wallet of a node knows.         *)

\* The transaction has finitely many inputs and outputs of whole satoshis, and what
\* has no address, an OP_RETURN, carries none.
TransactionIsWhole ==
    /\ IsFiniteSet(DOMAIN Inputs) /\ IsFiniteSet(DOMAIN Outputs)
    /\ \A i \in DOMAIN Inputs :
          Inputs[i].value \in Int /\ (Inputs[i].address = "none" => Inputs[i].value = 0)
    /\ \A o \in DOMAIN Outputs :
          Outputs[o].value \in Int /\ (Outputs[o].address = "none" => Outputs[o].value = 0)

\* The values by output and by input, and the addresses.
OutValue == [o \in DOMAIN Outputs |-> Outputs[o].value]
InValue == [i \in DOMAIN Inputs |-> Inputs[i].value]
OutAddress == [o \in DOMAIN Outputs |-> Outputs[o].address]
InAddress == [i \in DOMAIN Inputs |-> Inputs[i].address]
Debits == IF Coinbase THEN {} ELSE DOMAIN Inputs
Addresses == {Inputs[i].address : i \in Debits} \cup {Outputs[o].address : o \in DOMAIN Outputs}

\* What an address gets and gives.
Credit == [a \in Addresses |-> Sum(OutValue, {o \in DOMAIN Outputs : OutAddress[o] = a})]
Debit == [a \in Addresses |-> Sum(InValue, {i \in Debits : InAddress[i] = a})]
Net == [a \in Addresses |-> Credit[a] - Debit[a]]

\* The sums of the module are sums of these functions.
LEMMA SumOfChanges == \A f : R!MapThenSumSet(LAMBDA a : f[a], DOMAIN f) = Sum(f, DOMAIN f)
BY DEF Sum, R!MapThenSumSet, R!MapThenFoldSet, MapThenSumSet, MapThenFoldSet

LEMMA SumOfOutputs ==
    ASSUME NEW S \in SUBSET DOMAIN Outputs
    PROVE  R!MapThenSumSet(LAMBDA o : Outputs[o].value, S) = Sum(OutValue, S)
<1> DEFINE pick(s) == CHOOSE x \in s : TRUE
           E(g) == [s \in SUBSET S |-> IF s = {} THEN 0 ELSE Outputs[pick(s)].value + g[s \ {pick(s)}]]
           F(g) == [s \in SUBSET S |-> IF s = {} THEN 0 ELSE OutValue[pick(s)] + g[s \ {pick(s)}]]
<1>1. \A s \in SUBSET S : s # {} => OutValue[pick(s)] = Outputs[pick(s)].value  BY DEF OutValue
<1>2. \A g : E(g) = F(g)  BY <1>1
<1>3. (CHOOSE g : g = E(g)) = (CHOOSE g : g = F(g))
    <2> HIDE DEF E, F
    <2> QED  BY <1>2
<1>4. R!MapThenSumSet(LAMBDA o : Outputs[o].value, S) = (CHOOSE g : g = E(g))[S]
    BY DEF R!MapThenSumSet, R!MapThenFoldSet
<1>5. Sum(OutValue, S) = (CHOOSE g : g = F(g))[S]  BY DEF Sum, MapThenSumSet, MapThenFoldSet
<1> QED  BY <1>3, <1>4, <1>5

LEMMA SumOfInputs ==
    ASSUME NEW S \in SUBSET DOMAIN Inputs
    PROVE  R!MapThenSumSet(LAMBDA i : Inputs[i].value, S) = Sum(InValue, S)
<1> DEFINE pick(s) == CHOOSE x \in s : TRUE
           E(g) == [s \in SUBSET S |-> IF s = {} THEN 0 ELSE Inputs[pick(s)].value + g[s \ {pick(s)}]]
           F(g) == [s \in SUBSET S |-> IF s = {} THEN 0 ELSE InValue[pick(s)] + g[s \ {pick(s)}]]
<1>1. \A s \in SUBSET S : s # {} => InValue[pick(s)] = Inputs[pick(s)].value  BY DEF InValue
<1>2. \A g : E(g) = F(g)  BY <1>1
<1>3. (CHOOSE g : g = E(g)) = (CHOOSE g : g = F(g))
    <2> HIDE DEF E, F
    <2> QED  BY <1>2
<1>4. R!MapThenSumSet(LAMBDA i : Inputs[i].value, S) = (CHOOSE g : g = E(g))[S]
    BY DEF R!MapThenSumSet, R!MapThenFoldSet
<1>5. Sum(InValue, S) = (CHOOSE g : g = F(g))[S]  BY DEF Sum, MapThenSumSet, MapThenFoldSet
<1> QED  BY <1>3, <1>4, <1>5

\* The changes are those of Net that are not zero, and not of "none".
LEMMA ChangesAreNet ==
    R!netChanges = [a \in {b \in Addresses \ {"none"} : Net[b] # 0} |-> Net[a]]
<1> DEFINE net(a) == R!MapThenSumSet(LAMBDA o : Outputs[o].value, {o \in DOMAIN Outputs : Outputs[o].address = a})
                     - R!MapThenSumSet(LAMBDA i : Inputs[i].value, {i \in Debits : Inputs[i].address = a})
<1>1. ASSUME NEW a \in Addresses PROVE net(a) = Net[a]
    <2> DEFINE outs == {o \in DOMAIN Outputs : Outputs[o].address = a}
               ins == {i \in Debits : Inputs[i].address = a}
    <2>1. outs = {o \in DOMAIN Outputs : OutAddress[o] = a} /\ outs \in SUBSET DOMAIN Outputs
        BY DEF OutAddress
    <2>2. ins = {i \in Debits : InAddress[i] = a} /\ ins \in SUBSET DOMAIN Inputs
        BY DEF InAddress, Debits
    <2>3. R!MapThenSumSet(LAMBDA o : Outputs[o].value, outs) = Sum(OutValue, outs)
        <3> HIDE DEF outs
        <3> QED  BY <2>1, SumOfOutputs
    <2>4. R!MapThenSumSet(LAMBDA i : Inputs[i].value, ins) = Sum(InValue, ins)
        <3> HIDE DEF ins
        <3> QED  BY <2>2, SumOfInputs
    <2> QED  BY <2>1, <2>2, <2>3, <2>4 DEF Net, Credit, Debit
<1>2. R!netChanges = [a \in {b \in Addresses \ {"none"} : net(b) # 0} |-> net(a)]
    BY DEF R!netChanges, Addresses, Debits
<1> HIDE DEF net
<1> QED  BY <1>1, <1>2

LEMMA AddressesAreFinite == ASSUME TransactionIsWhole PROVE IsFiniteSet(Addresses) /\ IsFiniteSet(Debits)
<1>1. IsFiniteSet(Debits)  BY FS_EmptySet DEF Debits, TransactionIsWhole
<1>2. IsFiniteSet({InAddress[i] : i \in Debits})  BY <1>1, ImageIsFinite
<1>3. IsFiniteSet({OutAddress[o] : o \in DOMAIN Outputs})  BY ImageIsFinite DEF TransactionIsWhole
<1>4. Addresses = {InAddress[i] : i \in Debits} \cup {OutAddress[o] : o \in DOMAIN Outputs}
    BY DEF Addresses, InAddress, OutAddress, Debits
<1> QED  BY <1>1, <1>2, <1>3, <1>4, FS_Union

\* The changes that are reported add up to what the outputs carry less what the inputs
\* gave: an address is counted once, and what is left out is zero.
LEMMA ChangesAddUp ==
    ASSUME TransactionIsWhole
    PROVE  Sum(R!netChanges, DOMAIN R!netChanges) = Sum(OutValue, DOMAIN Outputs) - Sum(InValue, Debits)
<1> DEFINE N == {b \in Addresses \ {"none"} : Net[b] # 0}
<1>1. IsFiniteSet(Addresses) /\ IsFiniteSet(Debits) /\ IsFiniteSet(DOMAIN Outputs)
    BY AddressesAreFinite DEF TransactionIsWhole
<1>2. (\A o \in DOMAIN Outputs : OutValue[o] \in Int /\ OutAddress[o] \in Addresses)
      /\ (\A i \in Debits : InValue[i] \in Int /\ InAddress[i] \in Addresses)
    BY DEF TransactionIsWhole, OutValue, InValue, OutAddress, InAddress, Addresses, Debits
<1>3. Sum(Credit, Addresses) = Sum(OutValue, DOMAIN Outputs)
    BY <1>1, <1>2, SumByClass DEF Credit
<1>4. Sum(Debit, Addresses) = Sum(InValue, Debits)
    BY <1>1, <1>2, SumByClass DEF Debit
<1>5. ASSUME NEW a \in Addresses PROVE Credit[a] \in Int /\ Debit[a] \in Int /\ Net[a] = Credit[a] - Debit[a]
    <2> DEFINE outs == {o \in DOMAIN Outputs : OutAddress[o] = a}
               ins == {i \in Debits : InAddress[i] = a}
    <2>1. IsFiniteSet(outs) /\ IsFiniteSet(ins)  BY <1>1, FS_Subset
    <2>2. (\A o \in outs : OutValue[o] \in Int) /\ \A i \in ins : InValue[i] \in Int  BY <1>2
    <2>3. Credit[a] = Sum(OutValue, outs) /\ Debit[a] = Sum(InValue, ins)  BY DEF Credit, Debit
    <2>4. Sum(OutValue, outs) \in Int /\ Sum(InValue, ins) \in Int
        <3> HIDE DEF outs, ins
        <3> QED  BY <2>1, <2>2, SumIsInteger
    <2> QED  BY <2>3, <2>4 DEF Net
<1>6. Sum(Net, Addresses) = Sum(Credit, Addresses) - Sum(Debit, Addresses)
    BY <1>1, <1>5, SumOfDifferences
<1>7. ASSUME "none" \in Addresses PROVE Net["none"] = 0
    <2> DEFINE outs == {o \in DOMAIN Outputs : OutAddress[o] = "none"}
               ins == {i \in Debits : InAddress[i] = "none"}
    <2>1. IsFiniteSet(outs) /\ IsFiniteSet(ins)  BY <1>1, FS_Subset
    <2>2. (\A o \in outs : OutValue[o] = 0) /\ \A i \in ins : InValue[i] = 0
        BY DEF TransactionIsWhole, OutValue, InValue, OutAddress, InAddress, Debits
    <2>3. Credit["none"] = Sum(OutValue, outs) /\ Debit["none"] = Sum(InValue, ins)
        BY <1>7 DEF Credit, Debit
    <2>4. Sum(OutValue, outs) = 0 /\ Sum(InValue, ins) = 0
        <3> HIDE DEF outs, ins
        <3>1. Sum(OutValue, {}) = Sum(OutValue, outs)  BY <2>1, <2>2, SumWithoutZeros
        <3>2. Sum(InValue, {}) = Sum(InValue, ins)  BY <2>1, <2>2, SumWithoutZeros
        <3> QED  BY <3>1, <3>2, SumOfNothing
    <2> QED  BY <1>7, <2>3, <2>4 DEF Net
<1>8. Sum(Net, N) = Sum(Net, Addresses)
    <2>1. N \in SUBSET Addresses /\ \A a \in Addresses \ N : Net[a] = 0  BY <1>7
    <2>2. \A a \in Addresses : Net[a] \in Int  BY <1>5
    <2> HIDE DEF N
    <2> QED  BY <1>1, <2>1, <2>2, SumWithoutZeros
<1>9. DOMAIN R!netChanges = N /\ \A a \in N : R!netChanges[a] = Net[a]  BY ChangesAreNet
<1>10. Sum(R!netChanges, N) = Sum(Net, N)
    <2> HIDE DEF N
    <2> QED  BY <1>9, SumsAgree
<1> QED  BY <1>3, <1>4, <1>6, <1>8, <1>9, <1>10

\* The blocks have heights up to the tip.
PlaceInv == tip \in Nat /\ place \in Int /\ -1 <= place /\ place <= tip

\* A transaction that was in a block when the call began stays in it; then the tip that
\* Esplora read is no lower, and the depth that was read is at least one.  A depth that
\* was read is one the transaction had, and it only grows.
ReadingInv ==
    \/ read = [step |-> "idle"]
    \/ /\ read \in [step : {"tip", "tx", "parents", "hex"}, tool : Tools, before : Int, tip : Int, depth : Int]
       /\ read.before > 0 => place = read.before
       /\ read.step = "tip" => read.tool = "esplora"
       /\ read.step = "tx" /\ read.tool = "esplora" =>
             read.tip <= tip /\ (read.before > 0 => place <= read.tip)
       /\ read.step \in {"parents", "hex"} =>
             /\ 0 <= read.depth
             /\ read.depth > 0 => place > 0 /\ read.depth <= tip - place + 1
             /\ read.before > 0 => read.depth > 0

\* A wallet knows an address that is remembered, or whose coins it is asked for.
WalletInv ==
    /\ wallet \in {"unknown", "scanning", "scanned"}
    /\ caller = [c \in Callers |-> caller[c]]
    /\ watched => wallet # "unknown"
    /\ \A c \in Callers :
          /\ caller[c] \in {"list", "importing"} => wallet # "unknown"
          /\ caller[c] # "empty"

\* What StatusIsTrue asks of a status that was told.
AddsUp(changes) ==
    /\ Sum(changes, DOMAIN changes) = Sum(OutValue, DOMAIN Outputs) - Sum(InValue, Debits)
    /\ \A a \in DOMAIN changes : changes[a] # 0
TrueStatus(t) ==
    /\ t.status = "NotFound" => t.now = -1
    /\ t.status = "Pending" => t.before <= 0
    /\ t.status = "Success" => t.confirmations \in 1..t.depth /\ AddsUp(t.changes)

LEMMA StatusIs == R!StatusIsTrue <=> TrueStatus(told)
<1>1. R!MapThenSumSet(LAMBDA a : told.changes[a], DOMAIN told.changes)
      = Sum(told.changes, DOMAIN told.changes)
    BY DEF Sum, R!MapThenSumSet, R!MapThenFoldSet, MapThenSumSet, MapThenFoldSet
<1>2. R!MapThenSumSet(LAMBDA o : Outputs[o].value, DOMAIN Outputs) = Sum(OutValue, DOMAIN Outputs)
    BY SumOfOutputs
<1>3. R!MapThenSumSet(LAMBDA i : Inputs[i].value, DOMAIN Inputs) = Sum(InValue, DOMAIN Inputs)
    BY SumOfInputs
<1>4. Sum(InValue, Debits) = IF Coinbase THEN 0 ELSE Sum(InValue, DOMAIN Inputs)
    BY SumOfNothing DEF Debits
<1> QED
    BY <1>1, <1>2, <1>3, <1>4 DEF R!StatusIsTrue, TrueStatus, AddsUp, R!Nowhere, R!InMempool

\* The inductive invariant.
ReadsInv == PlaceInv /\ ReadingInv /\ TrueStatus(told) /\ WalletInv

LEMMA ReadsInit == R!Init => ReadsInv
<1> SUFFICES ASSUME R!Init PROVE ReadsInv
    OBVIOUS
<1>1. PlaceInv  BY DEF R!Init, R!Nowhere, PlaceInv
<1>2. ReadingInv  BY DEF R!Init, R!Idle, ReadingInv
<1>3. TrueStatus(told)  BY DEF R!Init, TrueStatus
<1>4. WalletInv  BY DEF R!Init, WalletInv
<1> QED  BY <1>1, <1>2, <1>3, <1>4 DEF ReadsInv

\* The changes of a success add up.
LEMMA SuccessAddsUp == ASSUME TransactionIsWhole PROVE AddsUp(R!netChanges)
BY ChangesAddUp, ChangesAreNet DEF AddsUp

\* A status may be told if it is true.
LEMMA TellHolds ==
    ASSUME ReadsInv, NEW status, NEW confirmations, NEW changes,
           R!Tell(status, confirmations, changes),
           status = "NotFound" => place = -1,
           status = "Pending" => read.before <= 0,
           status = "Success" => /\ place > 0 /\ confirmations \in 1..(tip - place + 1)
                                 /\ AddsUp(changes)
    PROVE  ReadsInv'
<1>1. read' = [step |-> "idle"] /\ UNCHANGED <<tip, place, R!walletVars>>  BY DEF R!Tell, R!Idle
<1>2. PlaceInv' /\ WalletInv'  BY <1>1 DEF ReadsInv, PlaceInv, WalletInv, R!walletVars
<1>3. ReadingInv'  BY <1>1 DEF ReadingInv
<1> DEFINE t == [status |-> status, confirmations |-> confirmations, changes |-> changes,
                 before |-> read.before, now |-> place,
                 depth |-> IF R!Confirmed THEN tip - place + 1 ELSE 0]
<1>4. told' = t  BY DEF R!Tell
<1>5. TrueStatus(t)  BY DEF TrueStatus, R!Confirmed
<1> QED  BY <1>1, <1>2, <1>3, <1>4, <1>5 DEF ReadsInv

\* NotFound is told of the transaction's own error only, and only where it is nowhere.
LEMMA ErrorHolds ==
    ASSUME ReadsInv, NEW error, R!ReadError(error), R!isProviderNotFoundError(error) => place = -1
    PROVE  ReadsInv'
BY TellHolds DEF R!ReadError

\* A call that read a transaction in full tells what it read.
LEMMA ConcludeHolds ==
    ASSUME TransactionIsWhole, ReadsInv, read.step \in {"parents", "hex"}, R!Conclude
    PROVE  ReadsInv'
<1>1. /\ read.depth \in Int /\ 0 <= read.depth /\ read.before \in Int
      /\ read.depth > 0 => place > 0 /\ read.depth <= tip - place + 1
      /\ read.before > 0 => read.depth > 0
      /\ tip \in Nat /\ place \in Int
    BY DEF ReadsInv, ReadingInv, PlaceInv
<1>2. CASE read.depth = 0
    <2>1. R!Tell("Pending", 0, <<>>)  BY <1>2 DEF R!Conclude
    <2>2. read.before <= 0  BY <1>1, <1>2
    <2> QED  BY <2>1, <2>2, TellHolds
<1>3. CASE read.depth > 0
    <2>1. R!Tell("Success", read.depth, R!netChanges)  BY <1>1, <1>3 DEF R!Conclude
    <2>2. place > 0 /\ read.depth \in 1..(tip - place + 1)  BY <1>1, <1>3
    <2> QED  BY <2>1, <2>2, SuccessAddsUp, TellHolds
<1> QED  BY <1>1, <1>2, <1>3

\* A transaction that a tool with an index of its own cannot find is nowhere.
LEMMA LookupHolds ==
    ASSUME ReadsInv, NEW tool, R!ReadError(R!LookupError(tool)), ~R!Finds(tool)
    PROVE  ReadsInv'
<1>1. R!isProviderNotFoundError(R!LookupError(tool)) => tool # "bareCore"
    BY DEF R!isProviderNotFoundError, R!LookupError
<1>2. tool # "bareCore" => place = -1
    BY DEF R!Finds, R!Confirmed, R!InMempool, ReadsInv, PlaceInv
<1> QED  BY <1>1, <1>2, ErrorHolds

\* The chain goes on: a transaction in a block stays there.
LEMMA ChainStep == ReadsInv /\ (R!Block \/ R!Relay \/ R!Replace) => ReadsInv'
<1> SUFFICES ASSUME ReadsInv, R!Block \/ R!Relay \/ R!Replace PROVE ReadsInv'
    OBVIOUS
<1>1. UNCHANGED <<read, told, wallet, watched, caller>>
    BY DEF R!Block, R!Relay, R!Replace, R!walletVars
<1>2. tip \in Nat /\ place \in Int /\ -1 <= place /\ place <= tip  BY DEF ReadsInv, PlaceInv
<1>3. PlaceInv' /\ tip' >= tip /\ (place > 0 => place' = place)
    BY <1>2 DEF PlaceInv, R!Block, R!Relay, R!Replace, R!Nowhere, R!InMempool
<1>4. TrueStatus(told)' /\ WalletInv'  BY <1>1 DEF ReadsInv, WalletInv
<1>5. ReadingInv'
    <2>1. CASE read = [step |-> "idle"]  BY <1>1, <2>1 DEF ReadingInv
    <2>2. CASE read # [step |-> "idle"]
        <3>1. tip' \in Nat /\ place' \in Int  BY <1>3 DEF PlaceInv
        <3>2. ReadingInv  BY DEF ReadsInv
        <3> QED  BY <1>1, <1>2, <1>3, <2>2, <3>1, <3>2 DEF ReadingInv
    <2> QED  BY <2>1, <2>2
<1> QED  BY <1>3, <1>4, <1>5 DEF ReadsInv

\* A read that goes on.
LEMMA AskStep == ASSUME ReadsInv, NEW tool \in Tools, R!Ask(tool) PROVE ReadsInv'
<1>1. UNCHANGED <<tip, place, told, wallet, watched, caller>>  BY DEF R!Ask, R!walletVars
<1>2. PlaceInv' /\ TrueStatus(told)' /\ WalletInv'  BY <1>1 DEF ReadsInv, PlaceInv, WalletInv
<1>3. ReadingInv'  BY <1>1 DEF R!Ask, ReadingInv, ReadsInv, PlaceInv
<1> QED  BY <1>2, <1>3 DEF ReadsInv

LEMMA ReadTipStep == ReadsInv /\ R!ReadTip => ReadsInv'
<1> SUFFICES ASSUME ReadsInv, R!ReadTip PROVE ReadsInv'
    OBVIOUS
<1>1. UNCHANGED <<tip, place, told, wallet, watched, caller>>  BY DEF R!ReadTip, R!walletVars
<1>2. PlaceInv' /\ TrueStatus(told)' /\ WalletInv'  BY <1>1 DEF ReadsInv, PlaceInv, WalletInv
<1>3. ReadingInv'
    <2>1. read.step = "tip" /\ read' = [read EXCEPT !.step = "tx", !.tip = tip]  BY DEF R!ReadTip
    <2>2. /\ read \in [step : {"tip", "tx", "parents", "hex"}, tool : Tools, before : Int, tip : Int, depth : Int]
          /\ read.before > 0 => place = read.before
        BY <2>1 DEF ReadsInv, ReadingInv
    <2>3. tip \in Int /\ place <= tip  BY DEF ReadsInv, PlaceInv
    <2>4. /\ read' \in [step : {"tip", "tx", "parents", "hex"}, tool : Tools, before : Int, tip : Int, depth : Int]
          /\ read'.step = "tx" /\ read'.tip = tip /\ read'.before = read.before
        <3> DEFINE height == tip
        <3>1. height \in Int /\ read' = [read EXCEPT !.step = "tx", !.tip = height]  BY <2>1, <2>3
        <3>2. /\ read' \in [step : {"tip", "tx", "parents", "hex"}, tool : Tools, before : Int, tip : Int, depth : Int]
              /\ read'.step = "tx" /\ read'.tip = height /\ read'.before = read.before
            <4> HIDE DEF height
            <4> QED  BY <2>2, <3>1
        <3> QED  BY <3>2
    <2> QED  BY <1>1, <2>2, <2>3, <2>4 DEF ReadingInv
<1> QED  BY <1>2, <1>3 DEF ReadsInv

\* The confirmations of a transaction that is found are no more than it has, and not
\* none where it was in a block when the call began.
LEMMA DepthIsTrue ==
    ASSUME ReadsInv, read.step = "tx"
    PROVE  LET d == R!Confirmations(read.tool, read.tip)
           IN  /\ d \in Int /\ 0 <= d
               /\ d > 0 => place > 0 /\ d <= tip - place + 1
               /\ read.before > 0 => d > 0
<1>1. /\ read.tip \in Int /\ read.before \in Int
      /\ read.before > 0 => place = read.before
      /\ read.tool = "esplora" => read.tip <= tip /\ (read.before > 0 => place <= read.tip)
      /\ tip \in Nat /\ place \in Int /\ place <= tip
    BY DEF ReadsInv, ReadingInv, PlaceInv
<1>2. ASSUME NEW n \in Int PROVE R!Max({0, n}) = IF n > 0 THEN n ELSE 0
    BY DEF R!Max
<1>3. CASE ~R!Confirmed  BY <1>1, <1>3 DEF R!Confirmations, R!Confirmed
<1>4. CASE R!Confirmed /\ read.tool = "esplora"
    <2>1. R!Confirmations(read.tool, read.tip) = R!Max({0, read.tip - place + 1})
        BY <1>4 DEF R!Confirmations
    <2>2. read.tip - place + 1 \in Int  BY <1>1
    <2>3. R!Confirmations(read.tool, read.tip)
          = IF read.tip - place + 1 > 0 THEN read.tip - place + 1 ELSE 0
        BY <1>2, <2>1, <2>2
    <2> QED  BY <1>1, <1>4, <2>3 DEF R!Confirmed
<1>5. CASE R!Confirmed /\ read.tool # "esplora"
    <2>1. R!Confirmations(read.tool, read.tip) = tip - place + 1  BY <1>5 DEF R!Confirmations
    <2> QED  BY <1>1, <1>5, <2>1 DEF R!Confirmed
<1> QED  BY <1>3, <1>4, <1>5

LEMMA ReadTxStep == ReadsInv /\ R!ReadTx => ReadsInv'
<1> SUFFICES ASSUME ReadsInv, R!ReadTx PROVE ReadsInv'
    OBVIOUS
<1>1. read.step = "tx"  BY DEF R!ReadTx
<1>2. CASE ~R!Finds(read.tool) /\ R!ReadError(R!LookupError(read.tool))  BY <1>2, LookupHolds
<1>3. CASE R!ReadError(<<"getrawtransaction", "connection_reset">>)
    <2>1. ~R!isProviderNotFoundError(<<"getrawtransaction", "connection_reset">>)
        BY DEF R!isProviderNotFoundError
    <2> QED  BY <1>3, <2>1, ErrorHolds
<1> DEFINE d == R!Confirmations(read.tool, read.tip)
           step == IF read.tool = "esplora" THEN "hex" ELSE "parents"
<1>4. CASE read' = [read EXCEPT !.step = step, !.depth = d] /\ UNCHANGED <<tip, place, told, R!walletVars>>
    <2>1. UNCHANGED <<tip, place, told, wallet, watched, caller>>  BY <1>4 DEF R!walletVars
    <2>2. PlaceInv' /\ TrueStatus(told)' /\ WalletInv'  BY <2>1 DEF ReadsInv, PlaceInv, WalletInv
    <2>3. /\ read \in [step : {"tip", "tx", "parents", "hex"}, tool : Tools, before : Int, tip : Int, depth : Int]
          /\ read.before > 0 => place = read.before
        BY <1>1 DEF ReadsInv, ReadingInv
    <2>4. step \in {"parents", "hex"}  OBVIOUS
    <2>5. /\ d \in Int /\ 0 <= d
          /\ d > 0 => place > 0 /\ d <= tip - place + 1
          /\ read.before > 0 => d > 0
        BY <1>1, DepthIsTrue
    <2>6. ReadingInv'
        <3> HIDE DEF d, step
        <3> QED  BY <1>4, <2>1, <2>3, <2>4, <2>5 DEF ReadingInv
    <2> QED  BY <2>2, <2>6 DEF ReadsInv
<1> QED  BY <1>2, <1>3, <1>4 DEF R!ReadTx

LEMMA ReadOnStep == ASSUME TransactionIsWhole PROVE ReadsInv /\ (R!ReadParents \/ R!ReadHex) => ReadsInv'
<1> SUFFICES ASSUME ReadsInv, R!ReadParents \/ R!ReadHex PROVE ReadsInv'
    OBVIOUS
<1>1. read.step \in {"parents", "hex"}  BY DEF R!ReadParents, R!ReadHex
<1>2. CASE R!Conclude  BY <1>1, <1>2, ConcludeHolds
<1>3. ASSUME NEW error, R!ReadError(R!ParentError(error)) PROVE ReadsInv'
    <2>1. ~R!isProviderNotFoundError(R!ParentError(error))
        BY DEF R!isProviderNotFoundError, R!ParentError
    <2> QED  BY <1>3, <2>1, ErrorHolds
<1>4. CASE place = R!Nowhere /\ R!ReadError(R!LookupError("esplora"))
    BY <1>4, ErrorHolds DEF R!Nowhere
<1>5. CASE R!ReadError(<<"getrawtransaction", "connection_reset">>)
    <2>1. ~R!isProviderNotFoundError(<<"getrawtransaction", "connection_reset">>)
        BY DEF R!isProviderNotFoundError
    <2> QED  BY <1>5, <2>1, ErrorHolds
<1> QED  BY <1>2, <1>3, <1>4, <1>5 DEF R!ReadParents, R!ReadHex

\* The wallet: what is remembered was taken by the node.
LEMMA WalletStep ==
    ASSUME ReadsInv,
           \/ R!Scanned
           \/ \E c \in Callers : \/ R!GetUtxos(c) \/ R!ReadAddressInfo(c) \/ R!Import(c)
                                \/ R!ImportRefused(c) \/ R!Imported(c) \/ R!ListUnspent(c)
    PROVE  ReadsInv'
<1>1. UNCHANGED <<tip, place, read, told>>
    BY DEF R!Scanned, R!GetUtxos, R!ReadAddressInfo, R!Import, R!ImportRefused, R!Imported,
       R!ListUnspent, R!statusVars
<1>2. PlaceInv' /\ ReadingInv' /\ TrueStatus(told)'  BY <1>1 DEF ReadsInv, PlaceInv, ReadingInv
<1>3. WalletInv  BY DEF ReadsInv
<1>4. ASSUME R!Scanned PROVE WalletInv'
    BY <1>3, <1>4 DEF R!Scanned, WalletInv
<1>5. ASSUME NEW c \in Callers, NEW from, NEW to, R!Step(c, from, to), to # "empty",
             to \in {"list", "importing"} => wallet' # "unknown",
             wallet' \in {"unknown", "scanning", "scanned"},
             wallet # "unknown" => wallet' # "unknown", watched' => wallet' # "unknown"
      PROVE  WalletInv'
    <2>1. caller' = [d \in Callers |-> IF d = c THEN to ELSE caller[d]]
        BY <1>3, <1>5 DEF R!Step, WalletInv
    <2> QED  BY <1>3, <1>5, <2>1 DEF WalletInv
<1>6. ASSUME NEW c \in Callers, R!GetUtxos(c) PROVE WalletInv'
    <2>1. CASE watched  BY <1>3, <1>5, <1>6, <2>1 DEF R!GetUtxos, WalletInv
    <2>2. CASE ~watched  BY <1>3, <1>5, <1>6, <2>2 DEF R!GetUtxos, WalletInv
    <2> QED  BY <2>1, <2>2
<1>7. ASSUME NEW c \in Callers, R!ReadAddressInfo(c) PROVE WalletInv'
    <2>1. CASE wallet # "unknown"  BY <1>3, <1>5, <1>7, <2>1 DEF R!ReadAddressInfo, WalletInv
    <2>2. CASE wallet = "unknown"
        <3>1. ~watched'  BY <1>3, <1>7, <2>2 DEF R!ReadAddressInfo, WalletInv
        <3> QED  BY <1>5, <1>7, <2>2, <3>1 DEF R!ReadAddressInfo
    <2> QED  BY <2>1, <2>2
<1>8. ASSUME NEW c \in Callers, R!Import(c) PROVE WalletInv'
    <2>1. wallet' # "unknown" /\ wallet' \in {"unknown", "scanning", "scanned"}
        BY <1>3, <1>8 DEF R!Import, WalletInv
    <2> QED  BY <1>5, <1>8, <2>1 DEF R!Import
<1>9. ASSUME NEW c \in Callers, R!ImportRefused(c) PROVE WalletInv'
    <2>1. R!Step(c, caller[c], "failed") /\ UNCHANGED <<wallet, watched>>
        BY <1>9 DEF R!ImportRefused, R!Step
    <2> QED  BY <1>3, <1>5, <2>1 DEF WalletInv
<1>10. ASSUME NEW c \in Callers, R!Imported(c) PROVE WalletInv'
    BY <1>5, <1>10 DEF R!Imported
<1>11. ASSUME NEW c \in Callers, R!ListUnspent(c) PROVE WalletInv'
    <2> DEFINE to == IF wallet = "scanned" THEN "complete"
                     ELSE IF wallet = "scanning" THEN "partial" ELSE "empty"
    <2>1. wallet # "unknown"  BY <1>3, <1>11 DEF R!ListUnspent, WalletInv
    <2>2. R!Step(c, "list", to) /\ UNCHANGED <<wallet, watched>>  BY <1>11 DEF R!ListUnspent, R!Step
    <2> QED  BY <1>3, <1>5, <2>1, <2>2 DEF WalletInv
<1> QED
    BY <1>2, <1>4, <1>6, <1>7, <1>8, <1>9, <1>10, <1>11 DEF ReadsInv

LEMMA ReadsStep == ASSUME TransactionIsWhole PROVE ReadsInv /\ [R!Next]_R!vars => ReadsInv'
<1> SUFFICES ASSUME ReadsInv, [R!Next]_R!vars PROVE ReadsInv'
    OBVIOUS
<1>1. CASE UNCHANGED R!vars  BY <1>1 DEF R!vars, ReadsInv, PlaceInv, ReadingInv, WalletInv
<1> QED
    BY <1>1, ChainStep, AskStep, ReadTipStep, ReadTxStep, ReadOnStep, WalletStep DEF R!Next

\* What a status says is true and its changes add up, whichever requests of a read the
\* chain gets between, for any transaction; and the coins of an address are never listed
\* from a wallet that does not know it, for any number of callers.
THEOREM StatusesAreTrue == ASSUME TransactionIsWhole PROVE R!Spec => []ReadsAreTrue
<1>1. R!Init => ReadsInv  BY ReadsInit
<1>2. ReadsInv /\ [R!Next]_R!vars => ReadsInv'  BY ReadsStep
<1>3. ReadsInv => ReadsAreTrue
    BY StatusIs DEF ReadsInv, WalletInv, ReadsAreTrue, R!ReadsAreTrue, R!WatchedIsImported
<1> QED  BY <1>1, <1>2, <1>3, PTL DEF R!Spec-----------------------------------------------------------------------------
(* The selection of coins: the branch and bound.                           *)

LEMMA SumAtIs == \A w, P : T!SumAt(w, P) = Sum(w, P)
BY DEF T!SumAt, Sum, T!MapThenSumSet, T!MapThenFoldSet, MapThenSumSet, MapThenFoldSet

\* More of what is worth something is worth no less.
LEMMA PartIsWorthLess ==
    ASSUME NEW w, NEW S, IsFiniteSet(S), \A x \in S : w[x] \in Nat, NEW P \in SUBSET S
    PROVE  Sum(w, P) \in Nat /\ Sum(w, S) \in Nat /\ Sum(w, P) <= Sum(w, S)
<1> DEFINE none == [x \in S |-> 0]
           part == [x \in S |-> IF x \in P THEN w[x] ELSE 0]
<1>1. IsFiniteSet(P)  BY FS_Subset
<1>2. Sum(w, P) \in Int /\ Sum(w, S) \in Int  BY <1>1, SumIsInteger
<1>3. Sum(part, P) = Sum(w, P)
    <2>1. \A x \in P : part[x] = w[x]  OBVIOUS
    <2> HIDE DEF part
    <2> QED  BY <2>1, SumsAgree
<1>4. Sum(part, P) = Sum(part, S)
    <2>1. (\A x \in S : part[x] \in Int) /\ \A x \in S \ P : part[x] = 0  OBVIOUS
    <2> HIDE DEF part
    <2> QED  BY <2>1, SumWithoutZeros
<1>5. Sum(w, S) >= Sum(part, S) /\ Sum(part, S) >= Sum(none, S)
    <2>1. \A x \in S : w[x] \in Int /\ part[x] \in Int /\ none[x] \in Int /\ w[x] >= part[x] /\ part[x] >= none[x]
        OBVIOUS
    <2> HIDE DEF part, none
    <2> QED  BY <2>1, SumIsMore
<1>6. Sum(none, S) = 0
    <2>1. (\A x \in S : none[x] \in Int) /\ \A x \in S \ {} : none[x] = 0  OBVIOUS
    <2> HIDE DEF none
    <2>2. Sum(none, {}) = Sum(none, S)  BY <2>1, SumWithoutZeros
    <2> QED  BY <2>2, SumOfNothing
<1> QED  BY <1>2, <1>3, <1>4, <1>5, <1>6

\* What is added to a set is added to its sum.
LEMMA SumWithOneMore ==
    ASSUME NEW w, NEW S, IsFiniteSet(S), NEW x, x \notin S, \A y \in S \cup {x} : w[y] \in Int
    PROVE  Sum(w, S \cup {x}) = Sum(w, S) + w[x]
<1> DEFINE more == S \cup {x}
<1>1. IsFiniteSet(more) /\ x \in more /\ more \ {x} = S  BY FS_AddElement
<1>2. \A y \in more : w[y] \in Int  OBVIOUS
<1> HIDE DEF more
<1>3. Sum(w, more) = w[x] + Sum(w, more \ {x})  BY <1>1, <1>2, SumTakes
<1>4. Sum(w, more) = w[x] + Sum(w, S)  BY <1>1, <1>3
<1>5. Sum(w, S) \in Int /\ w[x] \in Int  BY SumIsInteger
<1>6. PICK a, b : a = Sum(w, S) /\ b = Sum(w, more)  OBVIOUS
<1>7. b = a + w[x]  BY <1>4, <1>5, <1>6
<1> QED  BY <1>6, <1>7 DEF more

Results(n) == [found : BOOLEAN, st : T!SearchState(n)]

\* A search of the calls of D.
Searches(w, target, cost, limit, D, g) ==
    g = [c \in D |-> T!Recurse(w, target, cost, limit, g, c)]

\* The calls a call makes.
Now(c) == [c.st EXCEPT !.iterations = @ + 1]
Taking(w, c) ==
    [depth |-> c.depth + 1, sum |-> c.sum + w[c.depth], current |-> c.current \cup {c.depth}, st |-> Now(c)]
Leaving(c, st) == [depth |-> c.depth + 1, sum |-> c.sum, current |-> c.current, st |-> st]

LEMMA NowIs ==
    ASSUME NEW n \in Nat, NEW c \in T!Calls(n)
    PROVE  /\ Now(c) \in T!SearchState(n)
           /\ Now(c).iterations = c.st.iterations + 1 /\ Now(c).best = c.st.best /\ Now(c).over = c.st.over
BY DEF Now, T!Calls, T!SearchState

\* The calls of a call are calls, one coin further on.
LEMMA CallsOn ==
    ASSUME NEW w \in Seq(Nat), NEW c \in T!Calls(Len(w)), c.depth <= Len(w)
    PROVE  /\ Taking(w, c) \in T!Calls(Len(w)) /\ Taking(w, c).depth = c.depth + 1
           /\ \A st \in T!SearchState(Len(w)) :
                 Leaving(c, st) \in T!Calls(Len(w)) /\ Leaving(c, st).depth = c.depth + 1
<1>1. Len(w) \in Nat  OBVIOUS
<1>2. Now(c) \in T!SearchState(Len(w))  BY <1>1, NowIs
<1>3. c.depth \in 1..Len(w) /\ c.sum \in Nat /\ c.current \in SUBSET (1..Len(w))  BY <1>1 DEF T!Calls
<1>4. w[c.depth] \in Nat  BY <1>3
<1>5. c.depth + 1 \in 1..(Len(w) + 1) /\ c.sum + w[c.depth] \in Nat /\ c.current \cup {c.depth} \in SUBSET (1..Len(w))
    <2>1. PICK n \in Nat : n = Len(w)  BY <1>1
    <2>2. PICK d \in 1..n : d = c.depth  BY <1>3, <2>1
    <2>3. d + 1 \in 1..(n + 1)  BY <2>1, <2>2
    <2>4. c.sum + w[c.depth] \in Nat  BY <1>3, <1>4
    <2>5. c.current \cup {d} \in SUBSET (1..n)  BY <1>3, <2>1, <2>2
    <2> QED  BY <2>1, <2>2, <2>3, <2>4, <2>5
<1> QED  BY <1>2, <1>3, <1>5 DEF Taking, Leaving, T!Calls

\* Two searches that agree on the calls of a call agree on it.
LEMMA SearchAgrees ==
    ASSUME NEW w \in Seq(Nat), NEW target \in Nat, NEW cost \in Nat, NEW limit \in Nat,
           NEW g, NEW h, NEW c \in T!Calls(Len(w)),
           \A d \in T!Calls(Len(w)) : d.depth = c.depth + 1 => g[d] = h[d] /\ g[d] \in Results(Len(w))
    PROVE  T!Recurse(w, target, cost, limit, g, c) = T!Recurse(w, target, cost, limit, h, c)
<1>1. Len(w) \in Nat /\ c.sum \in Nat /\ c.depth \in Nat /\ c.st.iterations + 1 \in Nat
    BY DEF T!Calls, T!SearchState
<1>2. CASE c.depth <= Len(w)
    <2>1. g[Taking(w, c)] = h[Taking(w, c)] /\ g[Taking(w, c)] \in Results(Len(w))  BY <1>2, CallsOn
    <2>2. g[Taking(w, c)].st \in T!SearchState(Len(w))  BY <2>1 DEF Results
    <2>3. g[Leaving(c, g[Taking(w, c)].st)] = h[Leaving(c, g[Taking(w, c)].st)]  BY <1>2, <2>2, CallsOn
    <2> QED  BY <2>1, <2>3 DEF T!Recurse, Taking, Leaving, Now
<1>3. CASE c.depth > Len(w)  BY <1>1, <1>3 DEF T!Recurse
<1> QED  BY <1>1, <1>2, <1>3

\* What a call comes to, where it gives up, where it has reached the target, and where it
\* goes on.
LEMMA CallGivesUp ==
    ASSUME NEW w, NEW target \in Nat, NEW cost \in Nat, NEW limit \in Nat, NEW g, NEW c \in T!Calls(Len(w)), Len(w) \in Nat,
           \/ c.st.iterations + 1 > limit
           \/ c.sum > target + cost
           \/ c.sum < target /\ (c.sum + Sum(w, c.depth..Len(w)) < target \/ c.depth > Len(w))
    PROVE  T!Recurse(w, target, cost, limit, g, c) = [found |-> FALSE, st |-> Now(c)]
<1>1. Now(c).iterations = c.st.iterations + 1  BY NowIs
<1>2. c.sum \in Nat /\ c.depth \in Nat  BY DEF T!Calls
<1>3. (c.sum > target + cost <=> c.sum - target > cost) /\ (c.sum < target <=> ~(c.sum - target >= 0))  BY <1>2
<1>4. T!SumAt(w, c.depth..Len(w)) = Sum(w, c.depth..Len(w))  BY SumAtIs
<1> QED  BY <1>1, <1>3, <1>4 DEF T!Recurse, Now

\* What is kept of a choice that reaches the target.
Reached(c, target) ==
    IF c.sum - target < c.st.over
    THEN [Now(c) EXCEPT !.over = c.sum - target, !.best = c.current] ELSE Now(c)

LEMMA CallReaches ==
    ASSUME NEW w, NEW target \in Nat, NEW cost \in Nat, NEW limit \in Nat, NEW g, NEW c \in T!Calls(Len(w)), Len(w) \in Nat,
           ~(c.st.iterations + 1 > limit), c.sum >= target, ~(c.sum > target + cost)
    PROVE  \E exact \in BOOLEAN :
              /\ T!Recurse(w, target, cost, limit, g, c) = [found |-> exact, st |-> Reached(c, target)]
              /\ exact <=> c.sum = target
<1>1. Now(c).iterations = c.st.iterations + 1 /\ Now(c).over = c.st.over  BY NowIs
<1>2. c.sum \in Nat /\ c.depth \in Nat  BY DEF T!Calls
<1>3. (c.sum > target + cost <=> c.sum - target > cost) /\ (c.sum >= target <=> c.sum - target >= 0)  BY <1>2
<1>4. c.sum - target = 0 <=> c.sum = target  BY <1>2
<1>5. T!Recurse(w, target, cost, limit, g, c) = [found |-> c.sum - target = 0, st |-> Reached(c, target)]
    BY <1>1, <1>3 DEF T!Recurse, Now, Reached
<1>6. (c.sum - target = 0) \in BOOLEAN  OBVIOUS
<1> QED  BY <1>4, <1>5, <1>6, Zenon

LEMMA CallGoesOn ==
    ASSUME NEW w, NEW target \in Nat, NEW cost \in Nat, NEW limit \in Nat, NEW g, NEW c \in T!Calls(Len(w)), Len(w) \in Nat,
           ~(c.st.iterations + 1 > limit), c.sum < target,
           ~(c.sum + Sum(w, c.depth..Len(w)) < target), ~(c.depth > Len(w))
    PROVE  T!Recurse(w, target, cost, limit, g, c) =
               IF g[Taking(w, c)].found THEN g[Taking(w, c)] ELSE g[Leaving(c, g[Taking(w, c)].st)]
<1>1. Now(c).iterations = c.st.iterations + 1  BY NowIs
<1>2. c.sum \in Nat /\ c.depth \in Nat  BY DEF T!Calls
<1>3. ~(c.sum - target > cost) /\ ~(c.sum - target >= 0)  BY <1>2
<1>4. T!SumAt(w, c.depth..Len(w)) = Sum(w, c.depth..Len(w))  BY SumAtIs
<1> QED  BY <1>1, <1>3, <1>4 DEF T!Recurse, Now, Taking, Leaving

\* A call whose calls have results has one.
LEMMA SearchHasResult ==
    ASSUME NEW w \in Seq(Nat), NEW target \in Nat, NEW cost \in Nat, NEW limit \in Nat,
           NEW g, NEW c \in T!Calls(Len(w)),
           \A d \in T!Calls(Len(w)) : d.depth = c.depth + 1 => g[d] \in Results(Len(w))
    PROVE  T!Recurse(w, target, cost, limit, g, c) \in Results(Len(w))
<1> DEFINE r == T!Recurse(w, target, cost, limit, g, c)
<1>1. Len(w) \in Nat /\ c.sum \in Nat /\ c.depth \in Nat /\ Now(c) \in T!SearchState(Len(w))
    BY NowIs DEF T!Calls
<1>2. CASE \/ c.st.iterations + 1 > limit
           \/ c.sum > target + cost
           \/ c.sum < target /\ (c.sum + Sum(w, c.depth..Len(w)) < target \/ c.depth > Len(w))
    <2>1. r = [found |-> FALSE, st |-> Now(c)]  BY <1>1, <1>2, CallGivesUp
    <2> HIDE DEF r
    <2>2. r \in Results(Len(w))  BY <1>1, <2>1 DEF Results
    <2> QED  BY <2>2 DEF r
<1>3. CASE ~(c.st.iterations + 1 > limit) /\ c.sum >= target /\ ~(c.sum > target + cost)
    <2> DEFINE st == Reached(c, target)
    <2>1. PICK exact \in BOOLEAN : r = [found |-> exact, st |-> st]  BY <1>1, <1>3, CallReaches
    <2>2. c.sum - target \in Nat /\ c.current \in SUBSET (1..Len(w))  BY <1>1, <1>3 DEF T!Calls
    <2>3. st \in T!SearchState(Len(w))  BY <1>1, <2>2 DEF T!SearchState, Reached
    <2> HIDE DEF r, st
    <2>4. r \in Results(Len(w))  BY <2>1, <2>3 DEF Results
    <2> QED  BY <2>4 DEF r
<1>4. CASE ~(c.st.iterations + 1 > limit) /\ c.sum < target /\ ~(c.sum + Sum(w, c.depth..Len(w)) < target) /\ ~(c.depth > Len(w))
    <2>1. g[Taking(w, c)] \in Results(Len(w))  BY <1>1, <1>4, CallsOn
    <2>2. g[Taking(w, c)].st \in T!SearchState(Len(w))  BY <2>1 DEF Results
    <2>3. g[Leaving(c, g[Taking(w, c)].st)] \in Results(Len(w))  BY <1>1, <1>4, <2>2, CallsOn
    <2>4. r = IF g[Taking(w, c)].found THEN g[Taking(w, c)] ELSE g[Leaving(c, g[Taking(w, c)].st)]
        BY <1>1, <1>4, CallGoesOn
    <2> QED  BY <2>1, <2>3, <2>4
<1>5. c.sum >= target \/ c.sum < target  BY <1>1
<1> HIDE DEF r
<1> QED  BY <1>2, <1>3, <1>4, <1>5 DEF r

\* There is a search of every call: of the last ones, then of those before them.
LEMMA SearchExists ==
    ASSUME NEW w \in Seq(Nat), NEW target \in Nat, NEW cost \in Nat, NEW limit \in Nat
    PROVE  \E g : Searches(w, target, cost, limit, T!Calls(Len(w)), g)
                  /\ \A c \in T!Calls(Len(w)) : g[c] \in Results(Len(w))
<1> DEFINE n == Len(w)
           D(k) == {c \in T!Calls(n) : c.depth + k >= n + 1}
           Body(g, c) == T!Recurse(w, target, cost, limit, g, c)
           Solved(k) == \E g : g = [c \in D(k) |-> Body(g, c)] /\ \A c \in D(k) : g[c] \in Results(n)
           Bad == {k \in Nat : ~Solved(k)}
<1>0. n \in Nat /\ \A c \in T!Calls(n) : c.depth \in 1..(n + 1)  BY DEF T!Calls
<1>1. ASSUME NEW g, NEW h, NEW c \in T!Calls(n),
             \A d \in T!Calls(n) : d.depth = c.depth + 1 => g[d] = h[d] /\ g[d] \in Results(n)
      PROVE  Body(g, c) = Body(h, c)
    BY <1>1, SearchAgrees
<1>2. ASSUME NEW g, NEW c \in T!Calls(n), \A d \in T!Calls(n) : d.depth = c.depth + 1 => g[d] \in Results(n)
      PROVE  Body(g, c) \in Results(n)
    BY <1>2, SearchHasResult
<1> HIDE DEF Body, n
<1>3. ASSUME NEW k \in Nat, NEW g, g = [c \in D(k) |-> Body(g, c)], \A c \in D(k) : g[c] \in Results(n)
      PROVE  Solved(k + 1)
    <2> DEFINE h == [c \in D(k + 1) |-> Body(g, c)]
    <2>1. D(k) \subseteq D(k + 1)  BY <1>0
    <2>2. \A c \in D(k) : h[c] = g[c]  BY <1>3, <2>1
    <2>3. ASSUME NEW c \in D(k + 1), NEW d \in T!Calls(n), d.depth = c.depth + 1 PROVE d \in D(k)
        <3>1. c.depth \in Nat /\ c.depth + (k + 1) >= n + 1  BY <1>0
        <3>2. d.depth + k >= n + 1  BY <1>0, <2>3, <3>1
        <3> QED  BY <3>2
    <2>4. \A c \in D(k + 1) : h[c] = Body(g, c)  OBVIOUS
    <2> HIDE DEF h
    <2>5. ASSUME NEW c \in D(k + 1) PROVE Body(g, c) = Body(h, c) /\ h[c] \in Results(n)
        <3>1. \A d \in T!Calls(n) : d.depth = c.depth + 1 => g[d] = h[d] /\ g[d] \in Results(n)
            BY <1>3, <2>2, <2>3
        <3> QED  BY <1>1, <1>2, <2>4, <3>1
    <2>6. h = [c \in D(k + 1) |-> Body(h, c)]  BY <2>5 DEF h
    <2> QED  BY <2>5, <2>6
<1>4. Solved(0)
    <2> DEFINE none == [d \in {} |-> 0]
               h == [c \in D(0) |-> Body(none, c)]
    <2>1. ASSUME NEW c \in D(0), NEW d \in T!Calls(n) PROVE d.depth # c.depth + 1
        BY <1>0
    <2>2. \A c \in D(0) : h[c] = Body(none, c)  OBVIOUS
    <2> HIDE DEF h, none
    <2>3. ASSUME NEW c \in D(0) PROVE Body(none, c) = Body(h, c) /\ h[c] \in Results(n)
        BY <1>1, <1>2, <2>1, <2>2
    <2>4. h = [c \in D(0) |-> Body(h, c)]  BY <2>3 DEF h
    <2> QED  BY <2>3, <2>4
<1> HIDE DEF Solved
<1>8. \A k \in Nat : Solved(k) => Solved(k + 1)  BY <1>3 DEF Solved
<1>5. Bad = {}
    <2> SUFFICES ASSUME Bad # {} PROVE FALSE
        OBVIOUS
    <2>1. PICK m \in Bad : \A k \in Bad : m <= k  BY LeastNatural
    <2>2. m # 0 /\ m - 1 \in Nat  BY <1>4
    <2>3. Solved(m - 1)  BY <2>1, <2>2
    <2>4. Solved((m - 1) + 1)  BY <1>8, <2>2, <2>3
    <2>5. (m - 1) + 1 = m  OBVIOUS
    <2> QED  BY <2>4, <2>5
<1>6. Solved(n + 1)  BY <1>0, <1>5
<1>7. D(n + 1) = T!Calls(n)  BY <1>0
<1> QED  BY <1>6, <1>7 DEF Searches, Body, n, Solved

\* What is kept is the best match so far.
Kept(w, target, cost, st) ==
    /\ st \in T!SearchState(Len(w))
    /\ st.best = {} => st.over = cost + 1
    /\ st.best # {} => st.over <= cost /\ Sum(w, st.best) = target + st.over

\* A call has chosen among the coins before it.
Chosen(w, c) == c.sum = Sum(w, c.current) /\ c.current \subseteq 1..(c.depth - 1)

\* The calls a search of n coins makes at most.
Visits(visits, n) ==
    visits \in [0..n -> Nat] /\ visits[0] = 1 /\ \A k \in 1..n : visits[k] = 2 * visits[k - 1] + 1

CallsLeft(w, visits, c) == visits[(Len(w) + 1) - c.depth]

\* No choice that goes on from a sum, with coins from the first of some on, matches the target
\* better than by over.
NoneBetter(w, n, target, cost, first, sum, over) ==
    \A S \in SUBSET (first..n) : \A part \in Nat :
        part = Sum(w, S) /\ target <= sum + part /\ sum + part <= target + cost => over <= (sum + part) - target

\* A call keeps what matches, and nothing that is worse; where its calls are within the
\* limit it has seen every choice that goes on from its own.
After(w, target, cost, limit, visits, c, r) ==
    /\ r \in Results(Len(w)) /\ Kept(w, target, cost, r.st)
    /\ r.st.over <= c.st.over
    /\ r.found => r.st.over = 0
    /\ c.st.iterations + CallsLeft(w, visits, c) <= limit =>
          /\ r.st.iterations <= c.st.iterations + CallsLeft(w, visits, c)
          /\ NoneBetter(w, Len(w), target, cost, c.depth, c.sum, r.st.over)

\* What n coins are worth.
Worthy(w, n) == \A i \in 1..n : w[i] \in Nat

\* What is ahead of a place.
LEMMA AheadIs ==
    ASSUME NEW n \in Nat, NEW w, Worthy(w, n), NEW p \in 1..(n + 1), NEW S \in SUBSET (p..n)
    PROVE  /\ IsFiniteSet(p..n) /\ \A i \in p..n : w[i] \in Nat
           /\ IsFiniteSet(S) /\ Sum(w, S) \in Nat /\ Sum(w, p..n) \in Nat
           /\ Sum(w, S) <= Sum(w, p..n)
<1>2. IsFiniteSet(p..n)  BY FS_Interval
<1>3. \A i \in p..n : w[i] \in Nat  BY DEF Worthy
<1> QED  BY <1>2, <1>3, PartIsWorthLess, FS_Subset

\* The sum of what is finite and whole is what one of it is and the rest.
Whole(w, S) == IsFiniteSet(S) /\ \A i \in S : w[i] \in Int

LEMMA TakesOne ==
    ASSUME NEW w, NEW S, Whole(w, S), NEW x \in S
    PROVE  Sum(w, S) = w[x] + Sum(w, S \ {x})
BY SumTakes DEF Whole

LEMMA PlacesAhead ==
    ASSUME NEW n \in Nat, NEW w, Worthy(w, n), NEW p \in 1..n, NEW S \in SUBSET (p..n), p \in S
    PROVE  Sum(w, S) = w[p] + Sum(w, S \ {p})
<1>1. p \in 1..(n + 1)  OBVIOUS
<1>2. Whole(w, S)  BY <1>1, AheadIs DEF Whole
<1> QED  BY <1>2, TakesOne

LEMMA NoneIsBetween ==
    ASSUME NEW sum \in Nat, NEW part \in Nat, NEW all \in Nat, NEW target \in Nat, NEW cost \in Nat,
           target <= sum + part, sum + part <= target + cost, part <= all
    PROVE  ~(sum > target + cost) /\ ~(sum < target /\ sum + all < target) /\ ~(sum < target /\ part = 0)
OBVIOUS

LEMMA NoFurther ==
    ASSUME NEW a \in Nat, NEW b \in Nat, NEW x \in Nat, NEW y \in Nat, NEW target \in Nat, x = y, a <= x - target, b <= a
    PROVE  b <= y - target
OBVIOUS

\* There is none where the sum is too much, or cannot come to the target.
LEMMA NoneMatches ==
    ASSUME NEW n \in Nat, NEW w, Worthy(w, n), NEW p \in 1..(n + 1), NEW target \in Nat, NEW cost \in Nat,
           NEW sum \in Nat, NEW over, NEW all \in Nat, all = Sum(w, p..n),
           sum > target + cost \/ (sum < target /\ (sum + all < target \/ p > n))
    PROVE  NoneBetter(w, n, target, cost, p, sum, over)
<1> SUFFICES ASSUME NEW S \in SUBSET (p..n), NEW part \in Nat, part = Sum(w, S),
                    target <= sum + part, sum + part <= target + cost
             PROVE  FALSE
    BY DEF NoneBetter
<1>1. part <= all  BY AheadIs
<1>3. ~(sum > target + cost) /\ ~(sum < target /\ sum + all < target) /\ ~(sum < target /\ part = 0)
    BY <1>1, NoneIsBetween
<1>4. p > n => part = 0
    <2>1. p > n => S = {}  OBVIOUS
    <2> QED  BY <2>1, SumOfNothing
<1> QED  BY <1>3, <1>4

\* What goes on from a match is no better.
LEMMA NoneBetterThanMatch ==
    ASSUME NEW n \in Nat, NEW w, NEW p, NEW target \in Nat, NEW cost \in Nat, NEW sum \in Nat,
           sum >= target, NEW over \in Nat, over <= sum - target
    PROVE  NoneBetter(w, n, target, cost, p, sum, over)
BY DEF NoneBetter

\* A choice takes the next coin or leaves it.
LEMMA NoneBetterOfBoth ==
    ASSUME NEW n \in Nat, NEW w, Worthy(w, n), NEW p \in 1..n, NEW target \in Nat, NEW cost \in Nat,
           NEW sum \in Nat, NEW next \in Nat, next = sum + w[p],
           NEW a \in Nat, NoneBetter(w, n, target, cost, p + 1, next, a),
           NEW b \in Nat, NoneBetter(w, n, target, cost, p + 1, sum, b), b <= a
    PROVE  NoneBetter(w, n, target, cost, p, sum, b)
<1> SUFFICES ASSUME NEW S \in SUBSET (p..n), NEW part \in Nat, part = Sum(w, S),
                    target <= sum + part, sum + part <= target + cost
             PROVE  b <= (sum + part) - target
    BY DEF NoneBetter
<1>1. CASE p \in S
    <2> DEFINE less == S \ {p}
    <2>1. less \in SUBSET ((p + 1)..n)  OBVIOUS
    <2>3. Sum(w, S) = w[p] + Sum(w, less)  BY <1>1, PlacesAhead
    <2>4. p + 1 \in 1..(n + 1)  OBVIOUS
    <2> HIDE DEF less
    <2>5. PICK rest \in Nat : rest = Sum(w, less)  BY <2>1, <2>4, AheadIs
    <2>6. PICK own \in Nat : own = w[p]  BY DEF Worthy
    <2>7. part = own + rest /\ next = sum + own  BY <2>3, <2>5, <2>6
    <2>8. sum + part = next + rest  BY <2>7
    <2>9. a <= (next + rest) - target  BY <2>1, <2>5, <2>8 DEF NoneBetter
    <2>10. next + rest \in Nat /\ sum + part \in Nat  BY <2>5
    <2> QED  BY <2>8, <2>9, <2>10, NoFurther
<1>2. CASE p \notin S
    <2>1. S \in SUBSET ((p + 1)..n)  BY <1>2
    <2> QED  BY <2>1 DEF NoneBetter
<1> QED  BY <1>1, <1>2

LEMMA CallsLeftAre ==
    ASSUME NEW w \in Seq(Nat), NEW visits, Visits(visits, Len(w)), NEW c \in T!Calls(Len(w))
    PROVE  /\ CallsLeft(w, visits, c) \in Nat /\ CallsLeft(w, visits, c) >= 1
           /\ \A d \in T!Calls(Len(w)) : d.depth = c.depth + 1 =>
                 CallsLeft(w, visits, c) = 2 * CallsLeft(w, visits, d) + 1
<1>1. Len(w) \in Nat /\ \A d \in T!Calls(Len(w)) : d.depth \in 1..(Len(w) + 1)  BY DEF T!Calls
<1>2. PICK k \in 0..Len(w) : k = (Len(w) + 1) - c.depth  BY <1>1
<1>3. visits[k] \in Nat  BY DEF Visits
<1>4. visits[k] >= 1
    <2>1. CASE k = 0  BY <2>1 DEF Visits
    <2>2. CASE k # 0
        <3>1. k \in 1..Len(w) /\ k - 1 \in 0..Len(w)  BY <2>2
        <3>2. PICK p \in Nat : p = visits[k - 1]  BY <3>1 DEF Visits
        <3>3. visits[k] = 2 * p + 1  BY <3>1, <3>2 DEF Visits
        <3> QED  BY <3>2, <3>3
    <2> QED  BY <2>1, <2>2
<1>5. ASSUME NEW d \in T!Calls(Len(w)), d.depth = c.depth + 1
      PROVE  CallsLeft(w, visits, c) = 2 * CallsLeft(w, visits, d) + 1
    <2>1. k \in 1..Len(w) /\ (Len(w) + 1) - d.depth = k - 1  BY <1>1, <1>2, <1>5
    <2> QED  BY <1>2, <2>1 DEF Visits, CallsLeft
<1> QED  BY <1>2, <1>3, <1>4, <1>5 DEF CallsLeft

\* A call that gives up misses nothing.
LEMMA GivingUpMissesNothing ==
    ASSUME NEW w \in Seq(Nat), NEW target \in Nat, NEW cost \in Nat, NEW limit \in Nat,
           NEW visits, Visits(visits, Len(w)), NEW c \in T!Calls(Len(w)), Kept(w, target, cost, c.st),
           \/ c.st.iterations + 1 > limit
           \/ c.sum > target + cost
           \/ c.sum < target /\ (c.sum + Sum(w, c.depth..Len(w)) < target \/ c.depth > Len(w))
    PROVE  After(w, target, cost, limit, visits, c, [found |-> FALSE, st |-> Now(c)])
<1>1. Len(w) \in Nat /\ c.sum \in Nat /\ c.depth \in Nat /\ c.st.iterations \in Nat /\ c.st.over \in Nat
    BY DEF T!Calls, T!SearchState
<1>2. /\ Now(c) \in T!SearchState(Len(w))
      /\ Now(c).iterations = c.st.iterations + 1 /\ Now(c).best = c.st.best /\ Now(c).over = c.st.over
    BY <1>1, NowIs
<1> DEFINE r == [found |-> FALSE, st |-> Now(c)]
<1>3. r \in Results(Len(w)) /\ r.st = Now(c) /\ ~r.found  BY <1>2 DEF Results
<1> HIDE DEF r
<1>4. Kept(w, target, cost, r.st)  BY <1>2, <1>3 DEF Kept
<1>5. CallsLeft(w, visits, c) \in Nat /\ CallsLeft(w, visits, c) >= 1  BY CallsLeftAre
<1>6. c.st.iterations + CallsLeft(w, visits, c) <= limit => NoneBetter(w, Len(w), target, cost, c.depth, c.sum, r.st.over)
    <2>1. c.st.iterations + CallsLeft(w, visits, c) <= limit => ~(c.st.iterations + 1 > limit)  BY <1>1, <1>5
    <2>2. PICK n \in Nat : n = Len(w)  BY <1>1
    <2>3. PICK p \in 1..(n + 1) : p = c.depth  BY <2>2 DEF T!Calls
    <2>4. PICK sum \in Nat : sum = c.sum  BY <1>1
    <2>5. Worthy(w, n)  BY <2>2 DEF Worthy
    <2>6. PICK all \in Nat : all = Sum(w, p..n)  BY <2>5, AheadIs
    <2>7. sum > target + cost \/ (sum < target /\ (sum + all < target \/ p > n))
             => NoneBetter(w, n, target, cost, p, sum, r.st.over)
        BY <2>5, <2>6, NoneMatches
    <2> QED  BY <2>1, <2>2, <2>3, <2>4, <2>6, <2>7
<1>7. r.st.over <= c.st.over /\ r.st.iterations <= c.st.iterations + CallsLeft(w, visits, c)
    BY <1>1, <1>2, <1>3, <1>5
<1>8. After(w, target, cost, limit, visits, c, r)  BY <1>3, <1>4, <1>6, <1>7 DEF After
<1> QED  BY <1>8 DEF r

\* A call that reaches the target keeps its choice if it is the best.
LEMMA ReachingKeepsTheBest ==
    ASSUME NEW w \in Seq(Nat), NEW target \in Nat \ {0}, NEW cost \in Nat, NEW limit \in Nat,
           NEW visits, Visits(visits, Len(w)), NEW c \in T!Calls(Len(w)), Kept(w, target, cost, c.st), Chosen(w, c),
           c.sum >= target, ~(c.sum > target + cost), NEW exact \in BOOLEAN, exact <=> c.sum = target
    PROVE  After(w, target, cost, limit, visits, c, [found |-> exact, st |-> Reached(c, target)])
<1>1. Len(w) \in Nat /\ c.sum \in Nat /\ c.depth \in Nat /\ c.st.iterations \in Nat /\ c.st.over \in Nat
      /\ c.current \in SUBSET (1..Len(w))
    BY DEF T!Calls, T!SearchState
<1>2. /\ Now(c) \in T!SearchState(Len(w))
      /\ Now(c).iterations = c.st.iterations + 1 /\ Now(c).best = c.st.best /\ Now(c).over = c.st.over
    BY <1>1, NowIs
<1>3. PICK over \in Nat : over = c.sum - target  BY <1>1
<1>4. over <= cost /\ c.sum = target + over /\ (exact <=> over = 0)  BY <1>1, <1>3
<1> DEFINE st == Reached(c, target)
           r == [found |-> exact, st |-> st]
<1>5. /\ st \in T!SearchState(Len(w)) /\ st.iterations = c.st.iterations + 1
      /\ st.over = (IF over < c.st.over THEN over ELSE c.st.over)
      /\ st.best = (IF over < c.st.over THEN c.current ELSE c.st.best)
    <2>1. CASE over < c.st.over
        <3>1. st = [Now(c) EXCEPT !.over = over, !.best = c.current]  BY <1>3, <2>1 DEF Reached
        <3> HIDE DEF st
        <3> QED  BY <1>1, <1>2, <1>3, <2>1, <3>1 DEF T!SearchState
    <2>2. CASE ~(over < c.st.over)
        <3>1. st = Now(c)  BY <1>3, <2>2 DEF Reached
        <3> HIDE DEF st
        <3> QED  BY <1>2, <2>2, <3>1
    <2> QED  BY <2>1, <2>2
<1> HIDE DEF st
<1>6. r \in Results(Len(w)) /\ r.st = st /\ (r.found <=> over = 0)
    <2>1. r \in Results(Len(w))  BY <1>5 DEF Results
    <2>2. CASE exact = TRUE  BY <1>4, <2>1, <2>2
    <2>3. CASE exact = FALSE  BY <1>4, <2>1, <2>3
    <2> QED  BY <2>2, <2>3
<1> HIDE DEF r
<1>7. c.current # {}
    <2>1. c.current = {} => c.sum = 0  BY SumOfNothing DEF Chosen
    <2> QED  BY <1>1, <2>1
<1>8. Kept(w, target, cost, st)
    <2>1. CASE over < c.st.over  BY <1>3, <1>4, <1>5, <1>7, <2>1 DEF Kept, Chosen
    <2>2. CASE ~(over < c.st.over)  BY <1>5, <2>2 DEF Kept
    <2> QED  BY <2>1, <2>2
<1>9. st.over <= c.st.over /\ st.over <= over  BY <1>1, <1>3, <1>5
<1>10. CallsLeft(w, visits, c) \in Nat /\ CallsLeft(w, visits, c) >= 1  BY CallsLeftAre
<1>11. NoneBetter(w, Len(w), target, cost, c.depth, c.sum, st.over)
    <2>1. PICK sum \in Nat : sum = c.sum  BY <1>1
    <2>2. PICK o \in Nat : o = st.over  BY <1>5 DEF T!SearchState
    <2>3. sum >= target /\ o <= sum - target  BY <1>3, <1>9, <2>1, <2>2
    <2>4. NoneBetter(w, Len(w), target, cost, c.depth, sum, o)  BY <1>1, <2>3, NoneBetterThanMatch
    <2> QED  BY <2>1, <2>2, <2>4
<1>12. st.over \in Nat /\ (over = 0 => st.over = 0)  BY <1>5, <1>9 DEF T!SearchState
<1>13. st.iterations <= c.st.iterations + CallsLeft(w, visits, c)  BY <1>1, <1>5, <1>10
<1>14. After(w, target, cost, limit, visits, c, r)
    BY <1>6, <1>8, <1>9, <1>11, <1>12, <1>13 DEF After
<1> QED  BY <1>14 DEF r, st

\* What two calls after one another use of the limit.
LEMMA CallsAddUp ==
    ASSUME NEW k \in Nat, NEW limit \in Nat, NEW ic \in Nat, NEW ia \in Nat, NEW ib \in Nat,
           (ic + 1) + k <= limit => ia <= (ic + 1) + k, ia + k <= limit => ib <= ia + k
    PROVE  ic + (2 * k + 1) <= limit =>
               (ic + 1) + k <= limit /\ ia + k <= limit /\ ia <= ic + (2 * k + 1) /\ ib <= ic + (2 * k + 1)
OBVIOUS

\* What a call comes to, in numbers: over and iterations before and after it.
Came(w, target, cost, limit, first, sum, left, ic, oc, r, over, iterations) ==
    /\ r \in Results(Len(w)) /\ Kept(w, target, cost, r.st)
    /\ over = r.st.over /\ iterations = r.st.iterations
    /\ over <= oc
    /\ r.found => over = 0
    /\ ic + left <= limit =>
          iterations <= ic + left /\ NoneBetter(w, Len(w), target, cost, first, sum, over)

\* The two calls of a call, with the next coin and without it: what they keep is what
\* the call keeps.
LEMMA TwoCallsKeepTheBest ==
    ASSUME NEW w, Len(w) \in Nat, Worthy(w, Len(w)), NEW target \in Nat, NEW cost \in Nat, NEW limit \in Nat,
           NEW p \in 1..Len(w), NEW sum \in Nat, NEW next \in Nat, next = sum + w[p], NEW k \in Nat, NEW ic \in Nat, NEW oc \in Nat,
           NEW ra, NEW ia \in Nat, NEW oa \in Nat,
           Came(w, target, cost, limit, p + 1, next, k, ic + 1, oc, ra, oa, ia),
           NEW rb, NEW ib \in Nat, NEW ob \in Nat,
           Came(w, target, cost, limit, p + 1, sum, k, ia, oa, rb, ob, ib)
    PROVE  IF ra.found
           THEN Came(w, target, cost, limit, p, sum, 2 * k + 1, ic, oc, ra, oa, ia)
           ELSE Came(w, target, cost, limit, p, sum, 2 * k + 1, ic, oc, rb, ob, ib)
<1>1. /\ oa <= oc /\ (ra.found => oa = 0)
      /\ (ic + 1) + k <= limit => ia <= (ic + 1) + k /\ NoneBetter(w, Len(w), target, cost, p + 1, next, oa)
    BY DEF Came
<1>2. /\ ob <= oa
      /\ ia + k <= limit => ib <= ia + k /\ NoneBetter(w, Len(w), target, cost, p + 1, sum, ob)
    BY DEF Came
<1>3. ic + (2 * k + 1) <= limit =>
          (ic + 1) + k <= limit /\ ia + k <= limit /\ ia <= ic + (2 * k + 1) /\ ib <= ic + (2 * k + 1)
    BY <1>1, <1>2, CallsAddUp
<1>4. CASE ra.found
    <2>1. oa = 0  BY <1>1, <1>4
    <2>2. NoneBetter(w, Len(w), target, cost, p, sum, oa)
        <3>1. ASSUME NEW part \in Nat, target <= sum + part PROVE oa <= (sum + part) - target
            BY <2>1, <3>1
        <3> QED  BY <3>1 DEF NoneBetter
    <2> QED  BY <1>1, <1>3, <1>4, <2>2 DEF Came
<1>5. CASE ~ra.found
    <2>1. ic + (2 * k + 1) <= limit => NoneBetter(w, Len(w), target, cost, p, sum, ob)
        BY <1>1, <1>2, <1>3, NoneBetterOfBoth
    <2>2. ob <= oc  BY <1>1, <1>2
    <2> QED  BY <1>2, <1>3, <1>5, <2>1, <2>2 DEF Came
<1> QED  BY <1>4, <1>5

\* A call that goes on makes two calls.
LEMMA GoingOnKeepsTheBest ==
    ASSUME NEW w \in Seq(Nat), NEW target \in Nat \ {0}, NEW cost \in Nat, NEW limit \in Nat,
           NEW visits, Visits(visits, Len(w)), NEW g, NEW c \in T!Calls(Len(w)),
           Kept(w, target, cost, c.st), Chosen(w, c), c.depth <= Len(w),
           \A d \in T!Calls(Len(w)) :
              d.depth = c.depth + 1 /\ Chosen(w, d) /\ Kept(w, target, cost, d.st)
                 => After(w, target, cost, limit, visits, d, g[d])
    PROVE  After(w, target, cost, limit, visits, c,
                 IF g[Taking(w, c)].found THEN g[Taking(w, c)] ELSE g[Leaving(c, g[Taking(w, c)].st)])
<1>1. Len(w) \in Nat /\ c.sum \in Nat /\ c.depth \in 1..Len(w)
      /\ c.current \in SUBSET (1..Len(w)) /\ w[c.depth] \in Nat
    <2>1. Len(w) \in Nat /\ c.sum \in Nat /\ c.depth \in 1..(Len(w) + 1) /\ c.current \in SUBSET (1..Len(w))
        BY DEF T!Calls
    <2>2. c.depth \in 1..Len(w)  BY <2>1
    <2> QED  BY <2>1, <2>2
<1>2. /\ Now(c) \in T!SearchState(Len(w))
      /\ Now(c).iterations = c.st.iterations + 1 /\ Now(c).best = c.st.best /\ Now(c).over = c.st.over
    BY <1>1, NowIs
<1>3. PICK a : a = Taking(w, c)  OBVIOUS
<1>4. /\ a \in T!Calls(Len(w)) /\ a.depth = c.depth + 1 /\ a.sum = c.sum + w[c.depth]
      /\ a.current = c.current \cup {c.depth} /\ a.st = Now(c)
    BY <1>3, CallsOn DEF Taking
<1>5. Kept(w, target, cost, Now(c))  BY <1>2 DEF Kept
<1>6. Chosen(w, a)
    <2>1. PICK cur \in SUBSET (1..Len(w)) : cur = c.current  BY <1>1
    <2>2. PICK p \in 1..Len(w) : p = c.depth  BY <1>1
    <2>3. cur \subseteq 1..(p - 1) /\ c.sum = Sum(w, cur)  BY <2>1, <2>2 DEF Chosen
    <2>4. p \notin cur  BY <2>2, <2>3
    <2>5. \A y \in cur \cup {p} : w[y] \in Int  BY <2>1, <2>2
    <2>6. IsFiniteSet(cur)  BY <1>1, PlacesAreFinite, FS_Subset
    <2>7. Sum(w, cur \cup {p}) = Sum(w, cur) + w[p]  BY <2>4, <2>5, <2>6, SumWithOneMore
    <2>8. cur \cup {p} \subseteq 1..((p + 1) - 1)  BY <2>2, <2>3
    <2> QED  BY <1>4, <2>1, <2>2, <2>3, <2>7, <2>8 DEF Chosen
<1>7. PICK ra : ra = g[a]  OBVIOUS
<1>8. After(w, target, cost, limit, visits, a, ra)  BY <1>4, <1>5, <1>6, <1>7
<1>9. ra.st \in T!SearchState(Len(w)) /\ Kept(w, target, cost, ra.st)  BY <1>8 DEF After, Results
<1>10. PICK b : b = Leaving(c, ra.st)  OBVIOUS
<1>11. /\ b \in T!Calls(Len(w)) /\ b.depth = c.depth + 1 /\ b.sum = c.sum /\ b.current = c.current /\ b.st = ra.st
    BY <1>9, <1>10, CallsOn DEF Leaving
<1>12. Chosen(w, b)
    <2>1. PICK p \in 1..Len(w) : p = c.depth  BY <1>1
    <2>2. c.current \subseteq 1..(p - 1)  BY <2>1 DEF Chosen
    <2>3. 1..(p - 1) \subseteq 1..((p + 1) - 1)  BY <2>1
    <2> QED  BY <1>11, <2>1, <2>2, <2>3 DEF Chosen
<1>13. PICK rb : rb = g[b]  OBVIOUS
<1>14. After(w, target, cost, limit, visits, b, rb)  BY <1>9, <1>11, <1>12, <1>13
<1>15. PICK k \in Nat : k = CallsLeft(w, visits, a)  BY <1>4, CallsLeftAre
<1>16. CallsLeft(w, visits, b) = k  BY <1>4, <1>11, <1>15 DEF CallsLeft
<1>17. CallsLeft(w, visits, c) = 2 * k + 1  BY <1>4, <1>15, CallsLeftAre
<1>18. c.st \in T!SearchState(Len(w)) /\ rb.st \in T!SearchState(Len(w))  BY <1>14 DEF T!Calls, After, Results
<1>19. PICK ic \in Nat : ic = c.st.iterations  BY <1>18 DEF T!SearchState
<1>20. PICK ia \in Nat : ia = ra.st.iterations  BY <1>9 DEF T!SearchState
<1>21. PICK ib \in Nat : ib = rb.st.iterations  BY <1>18 DEF T!SearchState
<1>22. PICK oc \in Nat : oc = c.st.over  BY <1>18 DEF T!SearchState
<1>23. PICK oa \in Nat : oa = ra.st.over  BY <1>9 DEF T!SearchState
<1>24. PICK ob \in Nat : ob = rb.st.over  BY <1>18 DEF T!SearchState
<1>25. PICK p \in 1..Len(w) : p = c.depth  BY <1>1
<1>26. PICK sum \in Nat : sum = c.sum  BY <1>1
<1>27. PICK next \in Nat : next = sum + w[p] /\ next = a.sum  BY <1>1, <1>4, <1>25, <1>26
<1>28. Came(w, target, cost, limit, p + 1, next, k, ic + 1, oc, ra, oa, ia)
    <2>1. a.depth = p + 1 /\ a.sum = next /\ a.st.iterations = ic + 1 /\ a.st.over = oc
        BY <1>2, <1>4, <1>19, <1>22, <1>25, <1>27
    <2> QED  BY <1>8, <1>15, <1>20, <1>23, <2>1 DEF After, Came
<1>29. Came(w, target, cost, limit, p + 1, sum, k, ia, oa, rb, ob, ib)
    <2>1. b.depth = p + 1 /\ b.sum = sum /\ b.st.iterations = ia /\ b.st.over = oa
        BY <1>11, <1>20, <1>23, <1>25, <1>26
    <2> QED  BY <1>14, <1>16, <1>21, <1>24, <2>1 DEF After, Came
<1>30. Worthy(w, Len(w))  BY DEF Worthy
<1>31. IF ra.found
       THEN Came(w, target, cost, limit, p, sum, 2 * k + 1, ic, oc, ra, oa, ia)
       ELSE Came(w, target, cost, limit, p, sum, 2 * k + 1, ic, oc, rb, ob, ib)
    BY <1>1, <1>27, <1>28, <1>29, <1>30, TwoCallsKeepTheBest
<1>32. After(w, target, cost, limit, visits, c, IF ra.found THEN ra ELSE rb)
    <2>1. CASE ra.found
        <3>1. Came(w, target, cost, limit, p, sum, 2 * k + 1, ic, oc, ra, oa, ia)  BY <1>31, <2>1
        <3>2. After(w, target, cost, limit, visits, c, ra)
            BY <1>17, <1>19, <1>20, <1>22, <1>23, <1>25, <1>26, <3>1 DEF After, Came
        <3> QED  BY <2>1, <3>2
    <2>2. CASE ~ra.found
        <3>1. Came(w, target, cost, limit, p, sum, 2 * k + 1, ic, oc, rb, ob, ib)  BY <1>31, <2>2
        <3>2. After(w, target, cost, limit, visits, c, rb)
            BY <1>17, <1>19, <1>21, <1>22, <1>24, <1>25, <1>26, <3>1 DEF After, Came
        <3> QED  BY <2>2, <3>2
    <2> QED  BY <2>1, <2>2
<1> QED  BY <1>3, <1>7, <1>10, <1>13, <1>32

LEMMA CallKeepsTheBest ==
    ASSUME NEW w \in Seq(Nat), NEW target \in Nat \ {0}, NEW cost \in Nat, NEW limit \in Nat,
           NEW visits, Visits(visits, Len(w)), NEW g, NEW c \in T!Calls(Len(w)),
           Kept(w, target, cost, c.st), Chosen(w, c),
           \A d \in T!Calls(Len(w)) :
              d.depth = c.depth + 1 /\ Chosen(w, d) /\ Kept(w, target, cost, d.st)
                 => After(w, target, cost, limit, visits, d, g[d])
    PROVE  After(w, target, cost, limit, visits, c, T!Recurse(w, target, cost, limit, g, c))
<1> DEFINE r == T!Recurse(w, target, cost, limit, g, c)
           n == Len(w)
           GivesUp == \/ c.st.iterations + 1 > limit
                      \/ c.sum > target + cost
                      \/ c.sum < target /\ (c.sum + Sum(w, c.depth..Len(w)) < target \/ c.depth > Len(w))
<1>1. n \in Nat /\ c.sum \in Nat /\ c.depth \in Nat  BY DEF T!Calls
<1>2. CASE GivesUp
    <2>1. r = [found |-> FALSE, st |-> Now(c)]  BY <1>1, <1>2, CallGivesUp
    <2>2. After(w, target, cost, limit, visits, c, [found |-> FALSE, st |-> Now(c)])
        BY <1>2, GivingUpMissesNothing
    <2> QED  BY <2>1, <2>2
<1>3. CASE ~GivesUp /\ c.sum >= target
    <2>0. ~(c.st.iterations + 1 > limit) /\ c.sum >= target /\ ~(c.sum > target + cost)  BY <1>3
    <2>1. PICK exact \in BOOLEAN : r = [found |-> exact, st |-> Reached(c, target)] /\ (exact <=> c.sum = target)
        BY <1>1, <2>0, CallReaches
    <2>2. After(w, target, cost, limit, visits, c, [found |-> exact, st |-> Reached(c, target)])
        <3>1. CASE exact = TRUE
            <4>1. c.sum = target  BY <2>1, <3>1
            <4>2. After(w, target, cost, limit, visits, c, [found |-> TRUE, st |-> Reached(c, target)])
                BY <1>3, <4>1, ReachingKeepsTheBest
            <4> QED  BY <3>1, <4>2
        <3>2. CASE exact = FALSE
            <4>1. c.sum # target  BY <2>1, <3>2
            <4>2. After(w, target, cost, limit, visits, c, [found |-> FALSE, st |-> Reached(c, target)])
                BY <1>3, <4>1, ReachingKeepsTheBest
            <4> QED  BY <3>2, <4>2
        <3> QED  BY <3>1, <3>2
    <2> QED  BY <2>1, <2>2
<1>4. CASE ~GivesUp /\ c.sum < target
    <2>1. c.depth <= Len(w)  BY <1>1, <1>4
    <2>2. r = IF g[Taking(w, c)].found THEN g[Taking(w, c)] ELSE g[Leaving(c, g[Taking(w, c)].st)]
        BY <1>1, <1>4, CallGoesOn
    <2>3. After(w, target, cost, limit, visits, c,
                IF g[Taking(w, c)].found THEN g[Taking(w, c)] ELSE g[Leaving(c, g[Taking(w, c)].st)])
        BY <2>1, GoingOnKeepsTheBest
    <2> QED  BY <2>2, <2>3
<1> QED  BY <1>1, <1>2, <1>3, <1>4

\* The whole search: of the last coins, then with those before them.
LEMMA SearchKeepsTheBest ==
    ASSUME NEW w \in Seq(Nat), NEW target \in Nat \ {0}, NEW cost \in Nat, NEW limit \in Nat,
           NEW visits, Visits(visits, Len(w)), NEW g, Searches(w, target, cost, limit, T!Calls(Len(w)), g)
    PROVE  \A c \in T!Calls(Len(w)) :
              Kept(w, target, cost, c.st) /\ Chosen(w, c) => After(w, target, cost, limit, visits, c, g[c])
<1> DEFINE n == Len(w)
           Right(c) == Kept(w, target, cost, c.st) /\ Chosen(w, c) => After(w, target, cost, limit, visits, c, g[c])
           Wrong == {k \in Nat : \E c \in T!Calls(n) : c.depth + k = n + 1 /\ ~Right(c)}
<1>1. n \in Nat /\ \A c \in T!Calls(n) : c.depth \in 1..(n + 1)  BY DEF T!Calls
<1>2. ASSUME NEW c \in T!Calls(n), \A d \in T!Calls(n) : d.depth = c.depth + 1 => Right(d)
      PROVE  Right(c)
    <2>1. g[c] = T!Recurse(w, target, cost, limit, g, c)  BY DEF Searches
    <2> QED  BY <1>2, <2>1, CallKeepsTheBest
<1> HIDE DEF Right, n
<1>3. Wrong = {}
    <2> SUFFICES ASSUME Wrong # {} PROVE FALSE
        OBVIOUS
    <2>1. PICK m \in Wrong : \A k \in Wrong : m <= k  BY LeastNatural
    <2>2. PICK c \in T!Calls(n) : c.depth + m = n + 1 /\ ~Right(c)  BY <2>1
    <2>3. ASSUME NEW d \in T!Calls(n), d.depth = c.depth + 1 PROVE Right(d)
        <3>3. PICK p \in 1..(n + 1) : p = c.depth  BY <1>1
        <3>4. p + 1 \in 1..(n + 1) /\ p + m = n + 1 /\ n \in Nat /\ m \in Nat  BY <1>1, <2>2, <2>3, <3>3
        <3>5. m - 1 \in Nat /\ (p + 1) + (m - 1) = n + 1 /\ ~(m <= m - 1)  BY <3>4
        <3>1. m - 1 \in Nat /\ d.depth + (m - 1) = n + 1 /\ ~(m <= m - 1)  BY <2>3, <3>3, <3>5
        <3>2. m - 1 \notin Wrong  BY <2>1, <3>1
        <3> QED  BY <3>1, <3>2
    <2> QED  BY <1>2, <2>2, <2>3
<1>4. ASSUME NEW c \in T!Calls(n) PROVE Right(c)
    <2>1. (n + 1) - c.depth \in Nat /\ c.depth + ((n + 1) - c.depth) = n + 1  BY <1>1
    <2> QED  BY <1>3, <2>1
<1> QED  BY <1>4 DEF Right, n

\* What branchAndBound finds matches; where the calls it makes are within the limit it
\* finds a match if there is one, and none is nearer to the target.
LEMMA BestIsFound ==
    ASSUME NEW w \in Seq(Nat), NEW target \in Nat \ {0}, NEW cost \in Nat, NEW limit \in Nat,
           NEW visits, Visits(visits, Len(w)), NEW best, best = T!branchAndBound(w, target, cost, limit)
    PROVE  /\ best \in SUBSET (1..Len(w))
           /\ best # {} => target <= Sum(w, best) /\ Sum(w, best) <= target + cost
           /\ visits[Len(w)] <= limit =>
                 \A S \in SUBSET (1..Len(w)) :
                    target <= Sum(w, S) /\ Sum(w, S) <= target + cost => best # {} /\ Sum(w, best) <= Sum(w, S)
<1> DEFINE first == [iterations |-> 0, best |-> {}, over |-> cost + 1]
           c == [depth |-> 1, sum |-> 0, current |-> {}, st |-> first]
           g == CHOOSE h : h = [call \in T!Calls(Len(w)) |-> T!Recurse(w, target, cost, limit, h, call)]
<1>1. best = g[c].st.best  BY DEF T!branchAndBound
<1>2. Searches(w, target, cost, limit, T!Calls(Len(w)), g)
    <2>1. \E h : h = [call \in T!Calls(Len(w)) |-> T!Recurse(w, target, cost, limit, h, call)]
        BY SearchExists DEF Searches
    <2> QED  BY <2>1 DEF Searches
<1> HIDE DEF g
<1>3. Len(w) \in Nat  OBVIOUS
<1>4. first \in T!SearchState(Len(w)) /\ first.over = cost + 1 /\ first.iterations = 0 /\ first.best = {}
    BY DEF T!SearchState
<1> HIDE DEF first
<1>5. c \in T!Calls(Len(w)) /\ c.depth = 1 /\ c.sum = 0 /\ c.current = {} /\ c.st = first
    BY <1>3, <1>4 DEF T!Calls
<1> HIDE DEF c
<1>6. Kept(w, target, cost, c.st)  BY <1>4, <1>5 DEF Kept
<1>7. Chosen(w, c)  BY <1>5, SumOfNothing DEF Chosen
<1>8. PICK r : r = g[c]  OBVIOUS
<1>9. After(w, target, cost, limit, visits, c, r)  BY <1>2, <1>5, <1>6, <1>7, <1>8, SearchKeepsTheBest
<1>10. best = r.st.best  BY <1>1, <1>8
<1>11. Kept(w, target, cost, r.st) /\ r.st \in T!SearchState(Len(w))  BY <1>9 DEF After, Kept
<1>12. PICK over \in Nat : over = r.st.over  BY <1>11 DEF T!SearchState
<1>13. best \in SUBSET (1..Len(w))  BY <1>10, <1>11 DEF T!SearchState
<1>14. IF best = {} THEN over = cost + 1 ELSE over <= cost /\ Sum(w, best) = target + over
    BY <1>10, <1>11, <1>12 DEF Kept
<1>15. best # {} => target <= Sum(w, best) /\ Sum(w, best) <= target + cost
    <2>1. best # {} => target <= target + over /\ target + over <= target + cost  BY <1>14
    <2> QED  BY <1>14, <2>1
<1>16. ASSUME visits[Len(w)] <= limit, NEW S \in SUBSET (1..Len(w)),
              target <= Sum(w, S), Sum(w, S) <= target + cost
       PROVE  best # {} /\ Sum(w, best) <= Sum(w, S)
    <2>1. Worthy(w, Len(w))  BY DEF Worthy
    <2>2. 1 \in 1..(Len(w) + 1)  BY <1>3
    <2>3. PICK part \in Nat : part = Sum(w, S)  BY <1>3, <2>1, <2>2, AheadIs
    <2>4. target <= 0 + part /\ 0 + part <= target + cost  BY <1>16, <2>3
    <2>5. c.st.iterations + CallsLeft(w, visits, c) <= limit
        <3>1. CallsLeft(w, visits, c) = visits[Len(w)]
            <4>1. (Len(w) + 1) - 1 = Len(w)  BY <1>3
            <4> QED  BY <1>5, <4>1 DEF CallsLeft
        <3>3. Len(w) \in 0..Len(w)  BY <1>3
        <3>2. PICK v \in Nat : v = visits[Len(w)]  BY <3>3 DEF Visits
        <3> QED  BY <1>4, <1>5, <1>16, <3>1, <3>2
    <2>6. NoneBetter(w, Len(w), target, cost, 1, 0, over)  BY <1>5, <1>9, <1>12, <2>5 DEF After
    <2>7. over <= (0 + part) - target  BY <2>3, <2>4, <2>6 DEF NoneBetter
    <2>8. over <= cost /\ target + over <= part  BY <2>4, <2>7
    <2>9. best # {}  BY <1>14, <2>8
    <2> QED  BY <1>14, <2>3, <2>8, <2>9
<1> QED  BY <1>13, <1>15, <1>16

-----------------------------------------------------------------------------
(* The selection of coins: their order, and the sums of positions in it.   *)

\* What v counts for the members of S.
CountsOf(v, S) == \A x \in S : v[x] \in Nat

\* k places for the members of S, each in one place, the greater ones first.
InOrder(sorted, k, S, v) ==
    /\ sorted \in [1..k -> S]
    /\ \A i, j \in 1..k : sorted[i] = sorted[j] => i = j
    /\ \A i, j \in 1..k : i < j => v[sorted[i]] >= v[sorted[j]]

\* The least of them comes last.
LEMMA LeastLast ==
    ASSUME NEW k \in Nat, NEW S, NEW v, \A x \in S : v[x] \in Nat, NEW x \in S, \A y \in S : v[x] <= v[y],
           NEW sorted, InOrder(sorted, k, S \ {x}, v)
    PROVE  \E longer : InOrder(longer, k + 1, S, v)
<1> DEFINE longer == [i \in 1..(k + 1) |-> IF i = k + 1 THEN x ELSE sorted[i]]
<1>1. \A i \in 1..k : sorted[i] \in S /\ sorted[i] # x  BY DEF InOrder
<1>2. ASSUME NEW i \in 1..(k + 1) PROVE i = k + 1 \/ i \in 1..k  OBVIOUS
<1>3. longer[k + 1] = x /\ \A i \in 1..k : longer[i] = sorted[i]  OBVIOUS
<1>4. longer \in [1..(k + 1) -> S]  BY <1>1, <1>2
<1> HIDE DEF longer
<1>5. ASSUME NEW i \in 1..(k + 1), NEW j \in 1..(k + 1), longer[i] = longer[j] PROVE i = j
    <2>1. CASE i \in 1..k /\ j \in 1..k  BY <1>3, <1>5, <2>1 DEF InOrder
    <2>2. CASE i \in 1..k /\ j = k + 1  BY <1>1, <1>3, <1>5, <2>2
    <2>3. CASE i = k + 1 /\ j \in 1..k  BY <1>1, <1>3, <1>5, <2>3
    <2> QED  BY <1>2, <2>1, <2>2, <2>3
<1>6. ASSUME NEW i \in 1..(k + 1), NEW j \in 1..(k + 1), i < j PROVE v[longer[i]] >= v[longer[j]]
    <2>1. i \in 1..k  BY <1>6
    <2>2. CASE j \in 1..k  BY <1>3, <1>6, <2>1, <2>2 DEF InOrder
    <2>3. CASE j = k + 1
        <3>1. v[longer[i]] \in Nat /\ v[x] \in Nat /\ v[x] <= v[longer[i]]  BY <1>1, <1>3, <2>1
        <3> QED  BY <1>3, <2>3, <3>1
    <2> QED  BY <1>2, <2>2, <2>3
<1> QED  BY <1>4, <1>5, <1>6 DEF InOrder

\* A finite set with a value for each member has a least member.
LEMMA LeastMember ==
    ASSUME NEW S, S # {}, NEW v, \A x \in S : v[x] \in Nat
    PROVE  \E x \in S : \A y \in S : v[x] <= v[y]
<1> DEFINE N == {n \in Nat : \E x \in S : n = v[x]}
<1>1. N # {} /\ N \in SUBSET Nat  OBVIOUS
<1>2. PICK n \in N : \A k \in N : n <= k  BY <1>1, LeastNatural
<1> QED  BY <1>2

LEMMA OrderExists ==
    ASSUME NEW S, IsFiniteSet(S), NEW v, \A x \in S : v[x] \in Nat
    PROVE  \E sorted : InOrder(sorted, Cardinality(S), S, v)
<1> DEFINE Ordered(s) == \E sorted : InOrder(sorted, Cardinality(s), s, v)
           B == {s \in SUBSET S : ~Ordered(s)}
<1>1. SUFFICES ASSUME B # {} PROVE FALSE  OBVIOUS
<1>2. \A s \in SUBSET S : IsFiniteSet(s) /\ Cardinality(s) \in Nat  BY FS_Subset, FS_CardinalityType
<1>3. PICK m \in B : \A s \in B : Cardinality(m) <= Cardinality(s)  BY <1>1, <1>2, SmallestSet
<1>4. m # {}
    <2>1. Cardinality({}) = 0  BY FS_EmptySet
    <2>2. InOrder([i \in 1..0 |-> 0], 0, {}, v)  BY DEF InOrder
    <2>3. Ordered({})  BY <2>1, <2>2
    <2> HIDE DEF Ordered
    <2> QED  BY <1>3, <2>3
<1>5. PICK x \in m : \A y \in m : v[x] <= v[y]  BY <1>4, LeastMember
<1>6. Cardinality(m \ {x}) + 1 = Cardinality(m) /\ ~(Cardinality(m) <= Cardinality(m \ {x}))
    BY <1>2, SmallerByOne
<1>7. m \ {x} \in SUBSET S /\ m \ {x} \notin B  BY <1>3, <1>6
<1>8. PICK sorted : InOrder(sorted, Cardinality(m \ {x}), m \ {x}, v)  BY <1>7
<1>9. Cardinality(m \ {x}) \in Nat  BY <1>2, <1>7
<1>10. \E longer : InOrder(longer, Cardinality(m \ {x}) + 1, m, v)  BY <1>5, <1>8, <1>9, LeastLast
<1> QED  BY <1>3, <1>6, <1>10

\* Every member has its place.
LEMMA EachHasItsPlace ==
    ASSUME NEW S, IsFiniteSet(S), NEW v, NEW sorted, InOrder(sorted, Cardinality(S), S, v)
    PROVE  \A x \in S : \E i \in 1..Cardinality(S) : sorted[i] = x
<1> DEFINE D == 1..Cardinality(S)
<1>1. IsFiniteSet(D) /\ Cardinality(D) = Cardinality(S)  BY FS_CardinalityType, PlacesAreFinite
<1>2. sorted \in Injection(D, S)  BY DEF InOrder, Injection, IsInjective
<1> HIDE DEF D
<1>3. sorted \in Surjection(D, S)  BY <1>1, <1>2, FS_Injection
<1> QED  BY <1>3 DEF Surjection, D

\* Each member of S has a name of its own in Z, and what it counts for there.
Renames(b, S, Z) ==
    (\A x \in S : b[x] \in Z) /\ (\A x, y \in S : b[x] = b[y] => x = y) /\ \A z \in Z : \E x \in S : b[x] = z
CountAlike(b, S, f, g) == \A x \in S : g[b[x]] = f[x] /\ f[x] \in Int

LEMMA SumRenamed ==
    ASSUME NEW S, NEW Z, IsFiniteSet(S), IsFiniteSet(Z), NEW b, Renames(b, S, Z),
           NEW f, NEW g, CountAlike(b, S, f, g)
    PROVE  Sum(f, S) = Sum(g, Z)
BY SumReindexed DEF Renames, CountAlike

\* What is at some places comes to what those who are there come to.
At(sorted, P) == {sorted[i] : i \in P}

\* w counts for a place what v counts for who is there.
Ranks(w, sorted, k, v) == \A i \in 1..k : w[i] = v[sorted[i]]

LEMMA SumOfPlaces ==
    ASSUME NEW S, IsFiniteSet(S), NEW v, CountsOf(v, S),
           NEW sorted, InOrder(sorted, Cardinality(S), S, v),
           NEW w, Ranks(w, sorted, Cardinality(S), v)
    PROVE  \A P \in SUBSET (1..Cardinality(S)) :
              At(sorted, P) \in SUBSET S /\ Sum(w, P) = Sum(v, At(sorted, P))
<1> SUFFICES ASSUME NEW P \in SUBSET (1..Cardinality(S))
             PROVE  At(sorted, P) \in SUBSET S /\ Sum(w, P) = Sum(v, At(sorted, P))
    OBVIOUS
<1> DEFINE D == 1..Cardinality(S)
           C == At(sorted, P)
<1>1. IsFiniteSet(D)  BY FS_CardinalityType, PlacesAreFinite
<1>2. (\A i \in D : sorted[i] \in S) /\ (\A i, j \in D : sorted[i] = sorted[j] => i = j)  BY DEF InOrder
<1>3. P \in SUBSET D /\ (\A i \in D : w[i] = v[sorted[i]]) /\ \A x \in S : v[x] \in Int  BY DEF Ranks, CountsOf
<1> HIDE DEF D
<1>4. C \in SUBSET S /\ (\A i \in P : sorted[i] \in C) /\ (\A z \in C : \E i \in P : sorted[i] = z)
    BY <1>2, <1>3 DEF At
<1>5. IsFiniteSet(P) /\ IsFiniteSet(C)  BY <1>1, <1>3, <1>4, FS_Subset
<1> HIDE DEF C
<1>6. \A i \in P : sorted[i] \in C /\ v[sorted[i]] = w[i] /\ w[i] \in Int  BY <1>2, <1>3, <1>4
<1>7. \A i, j \in P : sorted[i] = sorted[j] => i = j  BY <1>2, <1>3
<1>9. Renames(sorted, P, C) /\ CountAlike(sorted, P, w, v)  BY <1>4, <1>6, <1>7 DEF Renames, CountAlike
<1>8. Sum(w, P) = Sum(v, C)  BY <1>5, <1>9, SumRenamed
<1> QED  BY <1>4, <1>8 DEF C

\* Some of them are at some places.
LEMMA PlacesOf ==
    ASSUME NEW S, IsFiniteSet(S), NEW v, NEW sorted, InOrder(sorted, Cardinality(S), S, v), NEW C \in SUBSET S
    PROVE  \E P \in SUBSET (1..Cardinality(S)) : At(sorted, P) = C
<1> DEFINE P == {i \in 1..Cardinality(S) : sorted[i] \in C}
<1>1. \A x \in C : \E i \in P : sorted[i] = x  BY EachHasItsPlace
<1>2. At(sorted, P) = C  BY <1>1 DEF At
<1> QED  BY <1>2

\* The sum of what is the same for all.
LEMMA SumOfEqual ==
    ASSUME NEW f, NEW S, IsFiniteSet(S), NEW k \in Int, \A x \in S : f[x] = k
    PROVE  Sum(f, S) = Cardinality(S) * k
<1> DEFINE B == {s \in SUBSET S : Sum(f, s) # Cardinality(s) * k}
<1>1. SUFFICES ASSUME B # {} PROVE FALSE  OBVIOUS
<1>2. \A s \in SUBSET S : IsFiniteSet(s) /\ Cardinality(s) \in Nat  BY FS_Subset, FS_CardinalityType
<1>3. PICK m \in B : \A s \in B : Cardinality(m) <= Cardinality(s)  BY <1>1, <1>2, SmallestSet
<1>4. m # {}
    <2>1. Sum(f, {}) = 0 /\ Cardinality({}) = 0 /\ 0 * k = 0  BY SumOfNothing, FS_EmptySet
    <2> QED  BY <1>3, <2>1
<1>5. PICK x \in m : TRUE  BY <1>4
<1>6. Cardinality(m \ {x}) + 1 = Cardinality(m) /\ ~(Cardinality(m) <= Cardinality(m \ {x}))
    BY <1>2, SmallerByOne
<1>7. m \ {x} \in SUBSET S /\ m \ {x} \notin B  BY <1>3, <1>6
<1>8. PICK n \in Nat : n = Cardinality(m \ {x})  BY <1>2, <1>7
<1>9. Sum(f, m \ {x}) = n * k  BY <1>7, <1>8
<1>10. IsFiniteSet(m) /\ x \in m /\ \A y \in m : f[y] \in Int  BY <1>2
<1>11. Sum(f, m) = f[x] + Sum(f, m \ {x})  BY <1>10, SumTakes
<1>12. Sum(f, m) = k + n * k  BY <1>9, <1>11
<1>13. k + n * k = (n + 1) * k  OBVIOUS
<1>14. Cardinality(m) = n + 1  BY <1>6, <1>8
<1> QED  BY <1>3, <1>12, <1>13, <1>14

-----------------------------------------------------------------------------
(* What the coins of a list come to: their values, their sizes and what    *)
(* they are worth at a rate.                                               *)

\* Coins of the wallet, as a provider lists them.
Listed(S) == IsFiniteSet(S) /\ \A x \in S : x.value \in Nat /\ x.type = ScriptType

\* The vbytes of an input of the wallet.
InputBytes == IF ScriptType = "p2wpkh" THEN 68 ELSE 148

Values(S) == [x \in S |-> x.value]
Sizes(S) == [x \in S |-> T!INPUT_SIZE[x.type]]
Effective(S, rate) == [x \in S |-> T!effectiveValueSats(x, rate)]

LEMMA SizesAre ==
    /\ T!INPUT_SIZE[ScriptType] = 2 * InputBytes /\ InputBytes \in Nat \ {0}
    /\ T!OUTPUT_SIZE[ScriptType] \in Nat \ {0}
BY SingleKey DEF T!INPUT_SIZE, T!OUTPUT_SIZE, InputBytes

LEMMA HalfOf ==
    /\ \A n \in Nat : T!CeilHalf(n) \in Nat /\ n <= 2 * T!CeilHalf(n) /\ 2 * T!CeilHalf(n) <= n + 1
    /\ \A n, m \in Nat : T!CeilHalf(n + 2 * m) = T!CeilHalf(n) + m
BY DEF T!CeilHalf

\* Every input costs the same at a rate.
LEMMA InputCosts ==
    ASSUME NEW rate \in Nat
    PROVE  InputBytes * rate \in Nat /\ T!INPUT_SIZE[ScriptType] * rate = 2 * (InputBytes * rate)
<1>1. CASE ScriptType = "p2wpkh"  BY <1>1 DEF InputBytes, T!INPUT_SIZE
<1>2. CASE ScriptType = "p2pkh"  BY <1>2 DEF InputBytes, T!INPUT_SIZE
<1> QED  BY <1>1, <1>2, SingleKey

LEMMA EffectiveIs ==
    ASSUME NEW S, Listed(S), NEW rate \in Nat
    PROVE  \A x \in S : T!effectiveValueSats(x, rate) = x.value - InputBytes * rate
                        /\ T!effectiveValueSats(x, rate) \in Int
<1> SUFFICES ASSUME NEW x \in S PROVE T!effectiveValueSats(x, rate) = x.value - InputBytes * rate
                                      /\ T!effectiveValueSats(x, rate) \in Int
    OBVIOUS
<1>1. x.value \in Nat /\ x.type = ScriptType  BY DEF Listed
<1>2. PICK q \in Nat : q = InputBytes * rate  BY InputCosts
<1>3. T!INPUT_SIZE[x.type] * rate = 0 + 2 * q  BY <1>1, <1>2, InputCosts
<1>4. T!CeilHalf(0 + 2 * q) = T!CeilHalf(0) + q /\ T!CeilHalf(0) = 0  BY HalfOf
<1>5. T!CeilHalf(T!INPUT_SIZE[x.type] * rate) = q  BY <1>3, <1>4
<1>6. T!effectiveValueSats(x, rate) = x.value - q  BY <1>5 DEF T!effectiveValueSats
<1> QED  BY <1>1, <1>2, <1>6

LEMMA SumOfValues ==
    ASSUME NEW S, NEW C \in SUBSET S
    PROVE  T!MapThenSumSet(LAMBDA x : x.value, C) = Sum(Values(S), C)
<1> DEFINE pick(s) == CHOOSE x \in s : TRUE
           E(g) == [s \in SUBSET C |-> IF s = {} THEN 0 ELSE pick(s).value + g[s \ {pick(s)}]]
           F(g) == [s \in SUBSET C |-> IF s = {} THEN 0 ELSE Values(S)[pick(s)] + g[s \ {pick(s)}]]
<1>1. \A s \in SUBSET C : s # {} => Values(S)[pick(s)] = pick(s).value  BY DEF Values
<1>2. \A g : E(g) = F(g)  BY <1>1
<1>3. (CHOOSE g : g = E(g)) = (CHOOSE g : g = F(g))
    <2> HIDE DEF E, F
    <2> QED  BY <1>2
<1>4. T!MapThenSumSet(LAMBDA x : x.value, C) = (CHOOSE g : g = E(g))[C]
    BY DEF T!MapThenSumSet, T!MapThenFoldSet
<1>5. Sum(Values(S), C) = (CHOOSE g : g = F(g))[C]  BY DEF Sum, MapThenSumSet, MapThenFoldSet
<1> QED  BY <1>3, <1>4, <1>5

LEMMA SumOfSizes ==
    ASSUME NEW S, NEW C \in SUBSET S
    PROVE  T!MapThenSumSet(LAMBDA x : T!INPUT_SIZE[x.type], C) = Sum(Sizes(S), C)
<1> DEFINE pick(s) == CHOOSE x \in s : TRUE
           E(g) == [s \in SUBSET C |-> IF s = {} THEN 0 ELSE T!INPUT_SIZE[pick(s).type] + g[s \ {pick(s)}]]
           F(g) == [s \in SUBSET C |-> IF s = {} THEN 0 ELSE Sizes(S)[pick(s)] + g[s \ {pick(s)}]]
<1>1. \A s \in SUBSET C : s # {} => Sizes(S)[pick(s)] = T!INPUT_SIZE[pick(s).type]  BY DEF Sizes
<1>2. \A g : E(g) = F(g)  BY <1>1
<1>3. (CHOOSE g : g = E(g)) = (CHOOSE g : g = F(g))
    <2> HIDE DEF E, F
    <2> QED  BY <1>2
<1>4. T!MapThenSumSet(LAMBDA x : T!INPUT_SIZE[x.type], C) = (CHOOSE g : g = E(g))[C]
    BY DEF T!MapThenSumSet, T!MapThenFoldSet
<1>5. Sum(Sizes(S), C) = (CHOOSE g : g = F(g))[C]  BY DEF Sum, MapThenSumSet, MapThenFoldSet
<1> QED  BY <1>3, <1>4, <1>5

LEMMA SumOfEffective ==
    ASSUME NEW S, NEW C \in SUBSET S, NEW rate
    PROVE  T!MapThenSumSet(LAMBDA x : T!effectiveValueSats(x, rate), C) = Sum(Effective(S, rate), C)
<1> DEFINE pick(s) == CHOOSE x \in s : TRUE
           E(g) == [s \in SUBSET C |-> IF s = {} THEN 0
                                       ELSE T!effectiveValueSats(pick(s), rate) + g[s \ {pick(s)}]]
           F(g) == [s \in SUBSET C |-> IF s = {} THEN 0 ELSE Effective(S, rate)[pick(s)] + g[s \ {pick(s)}]]
<1>1. \A s \in SUBSET C : s # {} => Effective(S, rate)[pick(s)] = T!effectiveValueSats(pick(s), rate)
    BY DEF Effective
<1>2. \A g : E(g) = F(g)  BY <1>1
<1>3. (CHOOSE g : g = E(g)) = (CHOOSE g : g = F(g))
    <2> HIDE DEF E, F
    <2> QED  BY <1>2
<1>4. T!MapThenSumSet(LAMBDA x : T!effectiveValueSats(x, rate), C) = (CHOOSE g : g = E(g))[C]
    BY DEF T!MapThenSumSet, T!MapThenFoldSet
<1>5. Sum(Effective(S, rate), C) = (CHOOSE g : g = F(g))[C]  BY DEF Sum, MapThenSumSet, MapThenFoldSet
<1> QED  BY <1>3, <1>4, <1>5

\* What some of the coins come to.
LEMMA SumsOfCoins ==
    ASSUME NEW S, Listed(S), NEW C \in SUBSET S, NEW rate \in Nat
    PROVE  /\ IsFiniteSet(C) /\ Cardinality(C) \in Nat
           /\ Sum(Values(S), C) \in Nat
           /\ Sum(Effective(S, rate), C) = Sum(Values(S), C) - Cardinality(C) * (InputBytes * rate)
           /\ Sum(Sizes(S), C) = Cardinality(C) * (2 * InputBytes)
<1>1. IsFiniteSet(S) /\ IsFiniteSet(C) /\ Cardinality(C) \in Nat  BY FS_Subset, FS_CardinalityType DEF Listed
<1>2. PICK q \in Nat : q = InputBytes * rate  BY InputCosts
<1> DEFINE v == Values(S)
           e == Effective(S, rate)
           z == Sizes(S)
           cost == [x \in S |-> q]
<1>3. \A x \in C : v[x] \in Nat /\ e[x] = v[x] - q /\ cost[x] = q /\ z[x] = 2 * InputBytes
    BY <1>2, EffectiveIs, SizesAre DEF Listed, Values, Effective, Sizes
<1> HIDE DEF v, e, z, cost
<1>4. Sum(v, C) \in Nat  BY <1>1, <1>3, PartIsWorthLess
<1>5. Sum(cost, C) = Cardinality(C) * q  BY <1>1, <1>3, SumOfEqual
<1>6. Sum(z, C) = Cardinality(C) * (2 * InputBytes)
    <2>1. 2 * InputBytes \in Int  BY SizesAre
    <2> QED  BY <1>1, <1>3, <2>1, SumOfEqual
<1>7. \A x \in C : v[x] \in Int /\ cost[x] \in Int /\ e[x] = v[x] - cost[x]  BY <1>3
<1>8. Sum(e, C) = Sum(v, C) - Sum(cost, C)  BY <1>1, <1>7, SumOfDifferences
<1> QED  BY <1>1, <1>2, <1>4, <1>5, <1>6, <1>8 DEF v, e, z

-----------------------------------------------------------------------------
(* finalize: the fee and the change of what is selected.                   *)

LEMMA SumOfAmounts == \A a : T!SumOf(a) = Sum(a, DOMAIN a)
BY DEF T!SumOf, T!FoldSeq, T!FoldFunction, T!FoldFunctionOnSet, T!MapThenFoldSet, Sum, MapThenSumSet,
   MapThenFoldSet

LEMMA AmountsAddUp ==
    ASSUME NEW a \in Seq(Nat)
    PROVE  T!SumOf(a) \in Nat /\ Len(a) \in Nat
<1>1. Len(a) \in Nat /\ DOMAIN a = 1..Len(a) /\ \A i \in 1..Len(a) : a[i] \in Nat  OBVIOUS
<1>2. IsFiniteSet(DOMAIN a)  BY <1>1, FS_Interval
<1>3. Sum(a, DOMAIN a) \in Nat  BY <1>1, <1>2, PartIsWorthLess
<1> QED  BY <1>1, <1>3, SumOfAmounts

LEMMA SizeOfInputs ==
    ASSUME NEW fixed \in Nat, NEW k \in Nat, NEW b \in Nat, NEW rate \in Nat
    PROVE  /\ k * (b * rate) \in Nat /\ fixed * rate \in Nat
           /\ (fixed + k * (2 * b)) * rate = fixed * rate + 2 * (k * (b * rate))
<1>1. PICK q \in Nat : q = b * rate  OBVIOUS
<1>2. k * (2 * b) = 2 * (k * b) /\ k * b \in Nat  OBVIOUS
<1>3. (k * b) * rate = k * q  BY <1>1
<1>4. (fixed + 2 * (k * b)) * rate = fixed * rate + 2 * ((k * b) * rate)  BY <1>2
<1>5. k * q \in Nat  OBVIOUS
<1> QED  BY <1>1, <1>2, <1>3, <1>4, <1>5

\* The surplus is given out as change, where that is worth it, or as fee.
LEMMA SurplusAsChange ==
    ASSUME NEW total \in Nat, NEW target \in Nat, NEW half \in Nat, NEW p \in Nat,
           NEW base \in Nat, base = half + p, NEW changeCost \in Nat \ {0}, NEW cost \in Nat \ {0},
           NEW surplus \in Int, surplus = total - target - base, surplus - changeCost >= cost
    PROVE  /\ total = target + (surplus - changeCost) + (base + changeCost)
           /\ surplus - changeCost > 0 /\ base + changeCost \in Nat
           /\ ~(total - p <= target + cost)
OBVIOUS

LEMMA SurplusAsFee ==
    ASSUME NEW total \in Nat, NEW target \in Nat, NEW base \in Nat,
           NEW surplus \in Int, surplus = total - target - base, ~(surplus < 0)
    PROVE  total = target + 0 + (base + surplus) /\ base + surplus >= base /\ base + surplus \in Nat
OBVIOUS

LEMMA HalvesCover ==
    ASSUME NEW n \in Nat, NEW m \in Nat, NEW given \in BOOLEAN, NEW fee \in Nat,
           fee >= T!CeilHalf(n) + (IF given THEN T!CeilHalf(m) ELSE 0)
    PROVE  2 * fee >= n + (IF given THEN m ELSE 0)
<1>1. T!CeilHalf(n) \in Nat /\ n <= 2 * T!CeilHalf(n) /\ T!CeilHalf(m) \in Nat /\ m <= 2 * T!CeilHalf(m)
    BY HalfOf
<1> QED  BY <1>1

LEMMA FinalizeIsSound ==
    ASSUME NEW S, Listed(S), NEW C \in SUBSET S, NEW target \in Nat, NEW rate \in Nat \ {0},
           NEW fixed \in Nat, NEW cost \in Nat \ {0}, NEW algorithm,
           NEW s, s = T!finalize(C, target, rate, ScriptType, fixed, cost, algorithm), s.outcome = "success"
    PROVE  /\ s.selected = C /\ s.algorithm = algorithm
           /\ Sum(Values(S), C) = target + s.change + s.fee
           /\ 2 * s.fee >= (fixed + Sum(Sizes(S), C) + (IF s.hasChange THEN T!OUTPUT_SIZE[ScriptType] ELSE 0)) * rate
           /\ s.hasChange <=> s.change > 0
           /\ Sum(Effective(S, rate), C) <= target + cost => ~s.hasChange
<1>1. /\ Cardinality(C) \in Nat /\ Sum(Values(S), C) \in Nat
      /\ Sum(Effective(S, rate), C) = Sum(Values(S), C) - Cardinality(C) * (InputBytes * rate)
      /\ Sum(Sizes(S), C) = Cardinality(C) * (2 * InputBytes)
    BY SumsOfCoins
<1>2. PICK total \in Nat : total = Sum(Values(S), C)  BY <1>1
<1>3. PICK k \in Nat : k = Cardinality(C)  BY <1>1
<1>4. PICK b \in Nat : b = InputBytes  BY SizesAre
<1>5. PICK out \in Nat \ {0} : out = T!OUTPUT_SIZE[ScriptType]  BY SizesAre
<1>6. PICK p \in Nat : p = k * (b * rate)  BY SizeOfInputs
<1>7. PICK f \in Nat : f = fixed * rate  OBVIOUS
<1>8. PICK o \in Nat \ {0} : o = out * rate  OBVIOUS
<1>9. (fixed + Sum(Sizes(S), C)) * rate = f + 2 * p  BY <1>1, <1>3, <1>4, <1>6, <1>7, SizeOfInputs
<1>10. PICK base \in Nat : base = T!CeilHalf(f + 2 * p) /\ base = T!CeilHalf(f) + p
    <2>1. T!CeilHalf(f) \in Nat /\ T!CeilHalf(f + 2 * p) = T!CeilHalf(f) + p  BY HalfOf
    <2>2. T!CeilHalf(f) + p \in Nat  BY <2>1
    <2> QED  BY <2>1, <2>2
<1>11. PICK half \in Nat : half = T!CeilHalf(f)  BY HalfOf
<1>12. PICK changeCost \in Nat \ {0} : changeCost = T!CeilHalf(o)
    <2>1. T!CeilHalf(o) \in Nat /\ o <= 2 * T!CeilHalf(o)  BY HalfOf
    <2> QED  BY <2>1
<1>13. PICK surplus \in Int : surplus = total - target - base  OBVIOUS
<1>14. PICK given \in BOOLEAN : given = (surplus - changeCost >= cost)
    <2> DEFINE enough == surplus - changeCost >= cost
    <2>1. enough \in BOOLEAN  OBVIOUS
    <2> HIDE DEF enough
    <2>2. \E given \in BOOLEAN : given = enough  BY <2>1, Zenon
    <2> QED  BY <2>2, Zenon DEF enough
<1> DEFINE made == [outcome |-> "success", selected |-> C, total |-> total,
                    fee |-> base + (IF given THEN changeCost ELSE surplus),
                    change |-> IF given THEN surplus - changeCost ELSE 0,
                    hasChange |-> given, algorithm |-> algorithm]
<1>15. s = IF surplus < 0 THEN T!NoSelection("insufficient_funds") ELSE made
    <2>1. T!MapThenSumSet(LAMBDA x : x.value, C) = total  BY <1>2, SumOfValues
    <2>2. T!MapThenSumSet(LAMBDA x : T!INPUT_SIZE[x.type], C) = Sum(Sizes(S), C)  BY SumOfSizes
    <2>3. T!CeilHalf((fixed + T!MapThenSumSet(LAMBDA x : T!INPUT_SIZE[x.type], C)) * rate) = base
        BY <2>2, <1>9, <1>10
    <2>4. T!CeilHalf(T!OUTPUT_SIZE[ScriptType] * rate) = changeCost  BY <1>5, <1>8, <1>12
    <2> QED  BY <2>1, <2>3, <2>4, <1>13, <1>14 DEF T!finalize
<1>16. ~(surplus < 0) /\ s = made
    <2>1. T!NoSelection("insufficient_funds").outcome # "success"  BY DEF T!NoSelection
    <2> QED  BY <2>1, <1>15
<1>17. PICK fee : fee = s.fee /\ fee = base + (IF given THEN changeCost ELSE surplus)  BY <1>16
<1>18. PICK change : change = s.change /\ change = IF given THEN surplus - changeCost ELSE 0  BY <1>16
<1>19. s.selected = C /\ s.algorithm = algorithm /\ s.hasChange = given  BY <1>16
<1> HIDE DEF made
<1>20. /\ total = target + change + fee /\ fee \in Nat
       /\ fee >= base + (IF given THEN changeCost ELSE 0)
       /\ given <=> change > 0
       /\ total - p <= target + cost => ~given
    <2>1. CASE given
        <3>1. change = surplus - changeCost /\ fee = base + changeCost /\ surplus - changeCost >= cost
            BY <1>14, <1>17, <1>18, <2>1
        <3> QED  BY <1>10, <1>11, <1>13, <2>1, <3>1, SurplusAsChange
    <2>2. CASE ~given
        <3>1. change = 0 /\ fee = base + surplus  BY <1>17, <1>18, <2>2
        <3>2. total = target + 0 + fee /\ fee >= base /\ fee \in Nat  BY <1>13, <1>16, <3>1, SurplusAsFee
        <3> QED  BY <2>2, <3>1, <3>2
    <2> QED  BY <2>1, <2>2
<1>21. 2 * fee >= (f + 2 * p) + (IF given THEN o ELSE 0)  BY <1>10, <1>12, <1>20, HalvesCover
<1>22. (fixed + Sum(Sizes(S), C) + (IF given THEN out ELSE 0)) * rate = (f + 2 * p) + (IF given THEN o ELSE 0)
    <2>1. PICK m \in Nat : m = fixed + Sum(Sizes(S), C)
        <3>1. Cardinality(C) * (2 * InputBytes) \in Nat  BY <1>1, SizesAre
        <3> QED  BY <1>1, <3>1
    <2>2. m * rate = f + 2 * p  BY <1>9, <2>1
    <2>3. (m + out) * rate = m * rate + out * rate /\ (m + 0) * rate = m * rate  OBVIOUS
    <2>4. CASE given  BY <1>8, <2>1, <2>2, <2>3, <2>4
    <2>5. CASE ~given  BY <2>1, <2>2, <2>3, <2>5
    <2> QED  BY <2>4, <2>5
<1>23. total - p = Sum(Effective(S, rate), C)  BY <1>1, <1>2, <1>3, <1>4, <1>6
<1> QED  BY <1>2, <1>5, <1>17, <1>18, <1>19, <1>20, <1>21, <1>22, <1>23

-----------------------------------------------------------------------------
(* selectCoins: which coins it gives to finalize.                          *)

\* The coins that are worth more than they cost.
Useful(S, rate) == {x \in S : T!effectiveValueSats(x, rate) > 0}

\* What some of them are worth matches the target.
Matching(S, rate, target, cost, C) ==
    target <= Sum(Effective(S, rate), C) /\ Sum(Effective(S, rate), C) <= target + cost

LEMMA UsefulAre ==
    ASSUME NEW S, Listed(S), NEW rate \in Nat
    PROVE  /\ Useful(S, rate) \in SUBSET S
           /\ IsFiniteSet(Useful(S, rate)) /\ Cardinality(Useful(S, rate)) \in Nat
           /\ \A x \in Useful(S, rate) : Effective(S, rate)[x] \in Nat
           /\ \A x \in Useful(S, rate) : Effective(S, rate)[x] = T!effectiveValueSats(x, rate)
<1>1. Useful(S, rate) \in SUBSET S /\ IsFiniteSet(S)  BY DEF Useful, Listed
<1>2. \A x \in Useful(S, rate) : T!effectiveValueSats(x, rate) \in Int /\ T!effectiveValueSats(x, rate) > 0
    BY EffectiveIs DEF Useful
<1>3. \A x \in Useful(S, rate) : Effective(S, rate)[x] = T!effectiveValueSats(x, rate)  BY <1>1 DEF Effective
<1>4. IsFiniteSet(Useful(S, rate)) /\ Cardinality(Useful(S, rate)) \in Nat
    BY <1>1, FS_Subset, FS_CardinalityType
<1>5. \A x \in Useful(S, rate) : Effective(S, rate)[x] \in Nat  BY <1>2, <1>3
<1> QED  BY <1>1, <1>3, <1>4, <1>5

LEMMA CountIs == \A S : T!Cardinality(S) = Cardinality(S)
BY DEF T!Cardinality, Cardinality

\* LargestFirst puts them in order.
LEMMA LargestComeFirst ==
    ASSUME NEW S, Listed(S), NEW rate \in Nat, NEW U, U = Useful(S, rate), NEW k \in Nat, k = Cardinality(U)
    PROVE  InOrder(T!LargestFirst(U, rate), k, U, Effective(S, rate))
<1> DEFINE v == Effective(S, rate)
           Sorted(f) == f \in [1..k -> U] /\ T!IsInjective(f)
                        /\ \A i, j \in DOMAIN f :
                             i < j => T!effectiveValueSats(f[i], rate) >= T!effectiveValueSats(f[j], rate)
<1>1. IsFiniteSet(U) /\ \A x \in U : v[x] \in Nat /\ v[x] = T!effectiveValueSats(x, rate)  BY UsefulAre
<1> HIDE DEF v
<1>2. ASSUME NEW f PROVE Sorted(f) <=> InOrder(f, k, U, v)
    <2>1. ASSUME f \in [1..k -> U] PROVE Sorted(f) <=> InOrder(f, k, U, v)
        <3>1. DOMAIN f = 1..k /\ \A i \in 1..k : f[i] \in U  BY <2>1
        <3>2. \A i \in 1..k : v[f[i]] = T!effectiveValueSats(f[i], rate)  BY <1>1, <3>1
        <3> QED  BY <2>1, <3>1, <3>2 DEF InOrder, T!IsInjective
    <2> QED  BY <2>1 DEF InOrder
<1>3. \E f : InOrder(f, k, U, v)  BY <1>1, OrderExists
<1>4. PICK f : Sorted(f)  BY <1>2, <1>3
<1>5. T!LargestFirst(U, rate) = CHOOSE g \in [1..k -> U] :
          /\ T!IsInjective(g)
          /\ \A i, j \in DOMAIN g :
                i < j => T!effectiveValueSats(g[i], rate) >= T!effectiveValueSats(g[j], rate)
    BY CountIs DEF T!LargestFirst
<1>6. Sorted(T!LargestFirst(U, rate))  BY <1>4, <1>5
<1> HIDE DEF Sorted
<1> QED  BY <1>2, <1>6 DEF v

\* The prefix of the accumulator is some of the places.
LEMMA PrefixIsPlaces ==
    ASSUME NEW w \in Seq(Nat), NEW target \in Nat
    PROVE  T!accumulatorFallback(w, target) \in SUBSET (1..Len(w))
<1> DEFINE enough == {k \in 1..Len(w) : T!SumAt(w, 1..k) >= target}
<1>1. CASE enough = {}  BY <1>1 DEF T!accumulatorFallback
<1>2. CASE enough # {}
    <2>1. enough \in SUBSET Nat  OBVIOUS
    <2> HIDE DEF enough
    <2>2. PICK m \in enough : \A n \in enough : m <= n  BY <1>2, <2>1, LeastNatural
    <2>3. T!Min(enough) \in enough  BY <2>2 DEF T!Min
    <2>4. T!Min(enough) \in 1..Len(w)  BY <2>3 DEF enough
    <2>5. T!accumulatorFallback(w, target) = 1..T!Min(enough)  BY <1>2 DEF T!accumulatorFallback, enough
    <2> QED  BY <2>4, <2>5
<1> QED  BY <1>1, <1>2

\* What a choice of places is worth.
LEMMA ChoiceIsWorth ==
    ASSUME NEW S, Listed(S), NEW rate \in Nat, NEW U, U = Useful(S, rate), NEW k \in Nat, k = Cardinality(U),
           NEW sorted, InOrder(sorted, k, U, Effective(S, rate)),
           NEW e, Ranks(e, sorted, k, Effective(S, rate))
    PROVE  /\ \A P \in SUBSET (1..k) : /\ At(sorted, P) \in SUBSET U
                                       /\ Sum(e, P) = Sum(Effective(S, rate), At(sorted, P))
           /\ \A C \in SUBSET U : \E P \in SUBSET (1..k) : At(sorted, P) = C
<1> DEFINE v == Effective(S, rate)
<1>1. IsFiniteSet(U) /\ CountsOf(v, U)  BY UsefulAre DEF CountsOf
<1> HIDE DEF v
<1>2. InOrder(sorted, Cardinality(U), U, v)  BY DEF v
<1>3. Ranks(e, sorted, Cardinality(U), v)  BY DEF v
<1>5. \A P \in SUBSET (1..Cardinality(U)) : At(sorted, P) \in SUBSET U /\ Sum(e, P) = Sum(v, At(sorted, P))
    BY <1>1, <1>2, <1>3, SumOfPlaces
<1>6. \A C \in SUBSET U : \E P \in SUBSET (1..Cardinality(U)) : At(sorted, P) = C  BY <1>1, <1>2, PlacesOf
<1> QED  BY <1>5, <1>6 DEF v

\* What is given to finalize: the nearest match, or a prefix where nothing matches.
Nearest(S, rate, target, cost, C, algorithm) ==
    \/ /\ algorithm = "bnb" /\ Matching(S, rate, target, cost, C)
       /\ \A D \in SUBSET Useful(S, rate) :
             Matching(S, rate, target, cost, D) => Sum(Effective(S, rate), C) <= Sum(Effective(S, rate), D)
    \/ algorithm = "accumulator" /\ \A D \in SUBSET Useful(S, rate) : ~Matching(S, rate, target, cost, D)

LEMMA SelectionIsNearest ==
    ASSUME NEW S, Listed(S), NEW rate \in Nat, NEW target \in Nat, NEW fixed, NEW cost \in Nat, NEW limit \in Nat,
           NEW visits, Visits(visits, Cardinality(Useful(S, rate))),
           visits[Cardinality(Useful(S, rate))] <= limit,
           NEW s, s = T!selectCoins(S, target, rate, ScriptType, fixed, cost, limit), s.outcome = "success"
    PROVE  \E C \in SUBSET Useful(S, rate), algorithm \in {"bnb", "accumulator"} :
              /\ s = T!finalize(C, target, rate, ScriptType, fixed, cost, algorithm)
              /\ Nearest(S, rate, target, cost, C, algorithm)
<1> DEFINE U == Useful(S, rate)
           v == Effective(S, rate)
           k == T!Cardinality(U)
           sorted == T!LargestFirst(U, rate)
           e == [i \in 1..k |-> T!effectiveValueSats(sorted[i], rate)]
           exact == T!branchAndBound(e, target, cost, limit)
           prefix == T!accumulatorFallback(e, target)
           made(P, algorithm) == T!finalize(At(sorted, P), target, rate, ScriptType, fixed, cost, algorithm)
<1>0. s = IF target <= 0 THEN T!NoSelection("no_solution")
          ELSE IF T!SumAt(e, DOMAIN e) < target THEN T!NoSelection("insufficient_funds")
          ELSE IF exact # {} THEN made(exact, "bnb")
          ELSE IF prefix # {} THEN made(prefix, "accumulator")
          ELSE T!NoSelection("no_solution")
    BY DEF T!selectCoins, At, Useful
<1> HIDE DEF made, exact, prefix, e
<1>1. \/ s = made(exact, "bnb") /\ exact # {}
      \/ s = made(prefix, "accumulator") /\ exact = {}
    <2>1. \A o \in {"no_solution", "insufficient_funds"} : T!NoSelection(o).outcome # "success"
        BY DEF T!NoSelection
    <2> QED  BY <1>0, <2>1
<1>2. target \in Nat \ {0}
    <2>1. T!NoSelection("no_solution").outcome # "success"  BY DEF T!NoSelection
    <2>2. CASE target <= 0  BY <1>0, <2>1, <2>2
    <2> QED  BY <2>2
<1>3. /\ k = Cardinality(U) /\ k \in Nat /\ CountsOf(v, U)
      /\ \A x \in U : v[x] = T!effectiveValueSats(x, rate)
    BY CountIs, UsefulAre DEF CountsOf
<1>4. InOrder(sorted, k, U, v)  BY <1>3, LargestComeFirst
<1>5. Visits(visits, k) /\ visits[k] <= limit  BY <1>3
<1> HIDE DEF sorted, v, U, k
<1>6. \A i \in 1..k : sorted[i] \in U  BY <1>4 DEF InOrder
<1>7. e \in Seq(Nat) /\ Len(e) = k /\ Ranks(e, sorted, k, v)
    <2>1. e = [i \in 1..k |-> v[sorted[i]]]  BY <1>3, <1>6 DEF e
    <2>2. e \in [1..k -> Nat]  BY <1>3, <1>6, <2>1 DEF CountsOf
    <2>3. Ranks(e, sorted, k, v)  BY <2>1 DEF Ranks
    <2> HIDE DEF k
    <2> QED  BY <1>3, <2>2, <2>3
<1>8. /\ \A P \in SUBSET (1..k) : At(sorted, P) \in SUBSET U /\ Sum(e, P) = Sum(v, At(sorted, P))
      /\ \A C \in SUBSET U : \E P \in SUBSET (1..k) : At(sorted, P) = C
    <2>1. U = Useful(S, rate) /\ v = Effective(S, rate)  BY DEF U, v
    <2>2. InOrder(sorted, k, U, Effective(S, rate)) /\ Ranks(e, sorted, k, Effective(S, rate))
        BY <1>4, <1>7, <2>1
    <2> HIDE DEF sorted, e, k, U, v
    <2> QED  BY <1>3, <2>1, <2>2, ChoiceIsWorth
<1>9. /\ exact \in SUBSET (1..k)
      /\ exact # {} => target <= Sum(e, exact) /\ Sum(e, exact) <= target + cost
      /\ \A P \in SUBSET (1..k) :
            target <= Sum(e, P) /\ Sum(e, P) <= target + cost => exact # {} /\ Sum(e, exact) <= Sum(e, P)
    <2>1. Visits(visits, Len(e)) /\ visits[Len(e)] <= limit  BY <1>5, <1>7
    <2> QED  BY <1>2, <1>7, <2>1, BestIsFound DEF exact
<1>10. \A D \in SUBSET U : Matching(S, rate, target, cost, D) => exact # {} /\ Sum(e, exact) <= Sum(v, D)
    <2> SUFFICES ASSUME NEW D \in SUBSET U, Matching(S, rate, target, cost, D)
                 PROVE  exact # {} /\ Sum(e, exact) <= Sum(v, D)
        OBVIOUS
    <2>1. PICK P \in SUBSET (1..k) : At(sorted, P) = D  BY <1>8
    <2>2. Sum(e, P) = Sum(v, D)  BY <1>8, <2>1
    <2> QED  BY <1>9, <2>2 DEF Matching, v
<1>11. CASE exact # {}
    <2> DEFINE C == At(sorted, exact)
    <2>1. C \in SUBSET U /\ Sum(e, exact) = Sum(v, C)  BY <1>8, <1>9
    <2>2. Matching(S, rate, target, cost, C)  BY <1>9, <1>11, <2>1 DEF Matching, v
    <2>3. Nearest(S, rate, target, cost, C, "bnb")
        BY <1>10, <2>1, <2>2 DEF Nearest, U, v
    <2>4. s = T!finalize(C, target, rate, ScriptType, fixed, cost, "bnb")  BY <1>1, <1>11 DEF made
    <2> HIDE DEF C
    <2> QED  BY <2>1, <2>3, <2>4 DEF U
<1>12. CASE exact = {}
    <2> DEFINE C == At(sorted, prefix)
    <2>1. prefix \in SUBSET (1..k)  BY <1>7, PrefixIsPlaces DEF prefix
    <2>2. C \in SUBSET U  BY <1>8, <2>1
    <2>3. Nearest(S, rate, target, cost, C, "accumulator")  BY <1>10, <1>12 DEF Nearest, U
    <2>4. s = T!finalize(C, target, rate, ScriptType, fixed, cost, "accumulator")  BY <1>1, <1>12 DEF made
    <2> HIDE DEF C
    <2> QED  BY <2>2, <2>3, <2>4 DEF U
<1> QED  BY <1>11, <1>12

-----------------------------------------------------------------------------
(* The selection of a transfer, from its request on.                       *)

\* The tools round a rate up to at least 1; resolveFeeRate refuses a caller's below it.
CoinsAreCounted ==
    /\ IsFiniteSet(Coins) /\ \A w \in Worths : \A c \in Coins : w[c] \in Nat
    /\ \A rate \in Rates : rate \in Nat \ {0}
    /\ LongTermRate \in Nat /\ MaxIterations \in Nat
    /\ \A req \in Requests : req.amounts \in Seq(Nat) /\ req.memo \in Nat /\ req.rate \in Int

\* The calls of a search of n of the coins, 2^(n+1) - 1, are within the limit.
SearchesFit ==
    \E visits : /\ Visits(visits, Cardinality(Coins))
                /\ \A n \in 0..Cardinality(Coins) : visits[n] <= MaxIterations

\* Coins as they are listed of a wallet.
Wallet(S) == Listed(S) /\ Cardinality(S) <= Cardinality(Coins)

\* What SelectionSound says of a selection s, of what was listed for a request at a rate.
SoundSelection(s, listed, req, rate) ==
    LET target == T!SumOf(req.amounts)
        size == T!FixedSize(req)
                + T!MapThenSumSet(LAMBDA x : T!INPUT_SIZE[x.type], s.selected)
                + (IF s.hasChange THEN T!OUTPUT_SIZE[ScriptType] ELSE 0)
        sum(S) == T!MapThenSumSet(LAMBDA x : T!effectiveValueSats(x, rate), S)
        useful == {x \in listed : T!effectiveValueSats(x, rate) > 0}
        matches == {S \in SUBSET useful : sum(S) \in
                      target..(target + T!costOfChangeSats(ScriptType, rate, LongTermRate))}
    IN  /\ T!Total(s.selected) = target + s.change + s.fee
        /\ 2 * s.fee >= size * rate
        /\ s.hasChange <=> s.change > 0
        /\ s.algorithm = "bnb" <=> matches # {}
        /\ s.algorithm = "bnb" => ~s.hasChange /\ \A S \in matches : sum(s.selected) <= sum(S)

LEMMA SearchOfUsefulFits ==
    ASSUME CoinsAreCounted, SearchesFit, NEW n \in Nat, n <= Cardinality(Coins)
    PROVE  \E visits : Visits(visits, n) /\ visits[n] <= MaxIterations
<1>1. PICK all : /\ Visits(all, Cardinality(Coins))
                 /\ \A m \in 0..Cardinality(Coins) : all[m] <= MaxIterations
    BY DEF SearchesFit
<1>2. Cardinality(Coins) \in Nat  BY FS_CardinalityType DEF CoinsAreCounted
<1> DEFINE visits == [m \in 0..n |-> all[m]]
<1>3. \A m \in 0..n : visits[m] = all[m] /\ m \in 0..Cardinality(Coins)  BY <1>2
<1>4. \A m \in 0..n : all[m] \in Nat  BY <1>1, <1>3 DEF Visits
<1>5. visits \in [0..n -> Nat]  BY <1>4
<1>6. 0 \in 0..n /\ n \in 0..n /\ \A m \in 1..n : m \in 0..n /\ m - 1 \in 0..n /\ m \in 1..Cardinality(Coins)
    BY <1>2
<1>7. visits[0] = 1 /\ \A m \in 1..n : visits[m] = 2 * visits[m - 1] + 1
    <2> HIDE DEF visits
    <2> QED  BY <1>1, <1>3, <1>6 DEF Visits
<1>8. visits[n] <= MaxIterations  BY <1>1, <1>3, <1>6
<1> QED  BY <1>5, <1>7, <1>8 DEF Visits

LEMMA CostsAre ==
    ASSUME CoinsAreCounted, NEW rate \in Nat \ {0}, NEW req \in Requests
    PROVE  /\ T!costOfChangeSats(ScriptType, rate, LongTermRate) \in Nat \ {0}
           /\ T!FixedSize(req) \in Nat /\ T!SumOf(req.amounts) \in Nat
<1>1. PICK out \in Nat \ {0} : out = T!OUTPUT_SIZE[ScriptType]  BY SizesAre
<1>2. PICK in \in Nat : in = T!INPUT_SIZE[ScriptType]  BY SizesAre
<1>3. LongTermRate \in Nat /\ req.amounts \in Seq(Nat) /\ req.memo \in Nat  BY DEF CoinsAreCounted
<1>4. out * rate \in Nat \ {0} /\ in * LongTermRate \in Nat  BY <1>3
<1>5. PICK n \in Nat \ {0} : n = out * rate + in * LongTermRate  BY <1>4
<1>6. T!CeilHalf(n) \in Nat /\ n <= 2 * T!CeilHalf(n)  BY HalfOf
<1>7. T!costOfChangeSats(ScriptType, rate, LongTermRate) = T!CeilHalf(n)
    BY <1>1, <1>2, <1>5 DEF T!costOfChangeSats
<1>8. T!CeilHalf(n) \in Nat \ {0}  BY <1>6
<1>9. PICK count \in Nat : count = Len(req.amounts)  BY <1>3, AmountsAddUp
<1>10. PICK memo \in Nat : memo = IF req.memo > 0 THEN 2 * (req.memo + 11) ELSE 0
    <2>1. 2 * (req.memo + 11) \in Nat  BY <1>3
    <2> QED  BY <2>1
<1>11. T!FixedSize(req) = count * out + memo /\ count * out \in Nat  BY <1>1, <1>9, <1>10 DEF T!FixedSize
<1>12. T!FixedSize(req) \in Nat  BY <1>11
<1> QED  BY <1>3, <1>7, <1>8, <1>12, AmountsAddUp

LEMMA SelectionIsSound ==
    ASSUME CoinsAreCounted, SearchesFit, NEW S, Wallet(S), NEW req \in Requests, NEW rate \in Nat \ {0},
           NEW s, s = T!SelectionFor(S, req, rate), s.outcome = "success"
    PROVE  SoundSelection(s, S, req, rate)
<1>1. PICK target \in Nat : target = T!SumOf(req.amounts)  BY CostsAre
<1>2. PICK fixed \in Nat : fixed = T!FixedSize(req)  BY CostsAre
<1>3. PICK cost \in Nat \ {0} : cost = T!costOfChangeSats(ScriptType, rate, LongTermRate)  BY CostsAre
<1>4. Listed(S) /\ Cardinality(S) <= Cardinality(Coins) /\ MaxIterations \in Nat
    BY DEF Wallet, CoinsAreCounted
<1> DEFINE U == Useful(S, rate)
           v == Effective(S, rate)
<1>5. U \in SUBSET S /\ Cardinality(U) \in Nat /\ Cardinality(U) <= Cardinality(S)
    BY <1>4, UsefulAre, FS_Subset DEF Listed
<1>6. Cardinality(U) <= Cardinality(Coins)
    <2>1. Cardinality(S) \in Nat /\ Cardinality(Coins) \in Nat
        BY <1>4, FS_CardinalityType DEF Listed, CoinsAreCounted
    <2> QED  BY <1>4, <1>5, <2>1
<1>7. PICK visits : Visits(visits, Cardinality(U)) /\ visits[Cardinality(U)] <= MaxIterations
    BY <1>5, <1>6, SearchOfUsefulFits
<1>8. s = T!selectCoins(S, target, rate, ScriptType, fixed, cost, MaxIterations)
    BY <1>1, <1>2, <1>3 DEF T!SelectionFor
<1>9. PICK C \in SUBSET U, algorithm \in {"bnb", "accumulator"} :
          /\ s = T!finalize(C, target, rate, ScriptType, fixed, cost, algorithm)
          /\ Nearest(S, rate, target, cost, C, algorithm)
    BY <1>4, <1>7, <1>8, SelectionIsNearest
<1>10. C \in SUBSET S  BY <1>5, <1>9
<1> DEFINE out == IF s.hasChange THEN T!OUTPUT_SIZE[ScriptType] ELSE 0
<1>11. /\ s.selected = C /\ s.algorithm = algorithm
       /\ Sum(Values(S), C) = target + s.change + s.fee
       /\ 2 * s.fee >= (fixed + Sum(Sizes(S), C) + out) * rate
       /\ s.hasChange <=> s.change > 0
       /\ Sum(v, C) <= target + cost => ~s.hasChange
    <2>1. Listed(S) /\ C \in SUBSET S /\ s = T!finalize(C, target, rate, ScriptType, fixed, cost, algorithm)
        BY <1>4, <1>9, <1>10
    <2> QED  BY <2>1, FinalizeIsSound
<1> DEFINE sum(D) == T!MapThenSumSet(LAMBDA x : T!effectiveValueSats(x, rate), D)
           matches == {D \in SUBSET U : sum(D) \in target..(target + cost)}
<1>12. T!Total(C) = Sum(Values(S), C)  BY <1>10, SumOfValues DEF T!Total
<1>13. T!MapThenSumSet(LAMBDA x : T!INPUT_SIZE[x.type], C) = Sum(Sizes(S), C)  BY <1>10, SumOfSizes
<1>14. \A D \in SUBSET U : sum(D) = Sum(v, D) /\ Sum(v, D) \in Int
    <2> SUFFICES ASSUME NEW D \in SUBSET U PROVE sum(D) = Sum(v, D) /\ Sum(v, D) \in Int
        OBVIOUS
    <2>1. D \in SUBSET S  BY <1>5
    <2>2. sum(D) = Sum(v, D)  BY <2>1, SumOfEffective
    <2>3. IsFiniteSet(D) /\ \A x \in D : v[x] \in Int
        <3>1. \A x \in D : v[x] \in Nat  BY <1>4, UsefulAre
        <3>2. IsFiniteSet(D)  BY <1>4, <2>1, FS_Subset DEF Listed
        <3> QED  BY <3>1, <3>2
    <2> QED  BY <2>2, <2>3, SumIsInteger
<1> HIDE DEF sum, v
<1>15. \A D : D \in matches <=> D \in SUBSET U /\ Matching(S, rate, target, cost, D)
    BY <1>14 DEF Matching, v
<1> HIDE DEF matches
<1>16. s.algorithm = "bnb" <=> matches # {}  BY <1>9, <1>11, <1>15 DEF Nearest
<1>17. ASSUME s.algorithm = "bnb" PROVE ~s.hasChange /\ \A D \in matches : sum(C) <= sum(D)
    <2>1. Matching(S, rate, target, cost, C)  BY <1>9, <1>11, <1>17 DEF Nearest
    <2>2. ~s.hasChange  BY <1>11, <2>1 DEF Matching, v
    <2>3. \A D \in matches : D \in SUBSET U /\ Sum(v, C) <= Sum(v, D)
        BY <1>9, <1>11, <1>15, <1>17 DEF Nearest, v
    <2> QED  BY <1>9, <1>14, <2>2, <2>3
<1> HIDE DEF out, U
<1>18. 2 * s.fee >= (fixed + T!MapThenSumSet(LAMBDA x : T!INPUT_SIZE[x.type], C) + out) * rate
    BY <1>11, <1>13
<1>19. /\ T!Total(s.selected) = target + s.change + s.fee
       /\ 2 * s.fee >= (fixed + T!MapThenSumSet(LAMBDA x : T!INPUT_SIZE[x.type], s.selected) + out) * rate
       /\ s.hasChange <=> s.change > 0
       /\ s.algorithm = "bnb" => ~s.hasChange /\ \A D \in matches : sum(s.selected) <= sum(D)
    BY <1>11, <1>12, <1>17, <1>18
<1> QED  BY <1>1, <1>2, <1>3, <1>16, <1>19 DEF SoundSelection, matches, sum, out, U, Useful

\* What is known of a transfer from its request to its selection, and what is kept of it.
SelectedRecord(r) ==
    /\ r.step \in {"rate", "coins"} => {"step", "req"} \subseteq DOMAIN r /\ r.req \in Requests
    /\ r.step = "coins" => "rate" \in DOMAIN r /\ r.rate \in Nat \ {0}
    /\ r.step \in {"rate", "coins"} => "selection" \notin DOMAIN r
    /\ "selection" \in DOMAIN r =>
          {"listed", "req", "rate"} \subseteq DOMAIN r /\ SoundSelection(r.selection, r.listed, r.req, r.rate)

\* The inductive invariant.
SelectionsInv ==
    /\ tx = [t \in Transfers |-> tx[t]]
    /\ \A c \in Coins : worth[c] \in Nat
    /\ \A t \in Transfers : SelectedRecord(tx[t])

\* A record that is further on keeps its selection.
LEMMA KeptSelection ==
    ASSUME NEW r, SelectedRecord(r), NEW s, s.step \notin {"rate", "coins"},
           DOMAIN s \cap {"selection", "listed", "req", "rate"} = DOMAIN r \cap {"selection", "listed", "req", "rate"},
           \A f \in DOMAIN r \cap {"selection", "listed", "req", "rate"} : s[f] = r[f]
    PROVE  SelectedRecord(s)
<1> SUFFICES ASSUME "selection" \in DOMAIN s
             PROVE  {"listed", "req", "rate"} \subseteq DOMAIN s /\ SoundSelection(s.selection, s.listed, s.req, s.rate)
    BY DEF SelectedRecord
<1>1. {"selection", "listed", "req", "rate"} \subseteq DOMAIN r
      /\ SoundSelection(r.selection, r.listed, r.req, r.rate)
    BY DEF SelectedRecord
<1>2. s.selection = r.selection /\ s.listed = r.listed /\ s.req = r.req /\ s.rate = r.rate  BY <1>1
<1>3. {"listed", "req", "rate"} \subseteq DOMAIN s  BY <1>1
<1> QED  BY <1>1, <1>2, <1>3

LEMMA SelectionsInit == ASSUME CoinsAreCounted PROVE T!Init => SelectionsInv
<1> SUFFICES ASSUME T!Init PROVE SelectionsInv  OBVIOUS
<1>1. tx = [t \in Transfers |-> [step |-> "idle"]] /\ worth \in Worths  BY DEF T!Init, T!NoTx
<1>2. SelectedRecord([step |-> "idle"])  BY DEF SelectedRecord
<1> QED  BY <1>1, <1>2 DEF SelectionsInv, CoinsAreCounted

LEMMA SelectionsAdvance ==
    ASSUME SelectionsInv, NEW t \in Transfers, NEW r, T!Advance(t, r), UNCHANGED worth, SelectedRecord(r)
    PROVE  SelectionsInv'
BY DEF SelectionsInv, T!Advance

LEMMA SelectionsFail ==
    ASSUME SelectionsInv, NEW t \in Transfers, T!Fail(t), UNCHANGED worth
    PROVE  SelectionsInv'
<1>1. SelectedRecord([step |-> "failed"])  BY DEF SelectedRecord
<1>2. T!Advance(t, [step |-> "failed"])  BY DEF T!Fail
<1> QED  BY <1>1, <1>2, SelectionsAdvance

-----------------------------------------------------------------------------
(* One lemma for each call.                                                *)
LEMMA BuildSelects ==
    ASSUME SelectionsInv, NEW t \in Transfers, NEW req \in Requests, T!BuildTransfer(t, req)
    PROVE  SelectionsInv'
<1>1. SelectedRecord([step |-> "rate", req |-> req])  BY DEF SelectedRecord
<1> QED  BY <1>1, SelectionsAdvance, SelectionsFail DEF T!BuildTransfer

LEMMA RateSelects ==
    ASSUME CoinsAreCounted, SelectionsInv, NEW t \in Transfers, T!ResolveFeeRate(t)
    PROVE  SelectionsInv'
<1>1. /\ tx[t].step = "rate" /\ UNCHANGED worth /\ tx[t].req \in Requests
      /\ {"step", "req"} \subseteq DOMAIN tx[t] /\ "selection" \notin DOMAIN tx[t]
    BY DEF T!ResolveFeeRate, SelectionsInv, SelectedRecord
<1>2. CASE T!Fail(t)  BY <1>1, <1>2, SelectionsFail
<1>3. ASSUME NEW rate \in Nat \ {0}, T!Advance(t, T!With(tx[t], [step |-> "coins", rate |-> rate]))
      PROVE  SelectionsInv'
    <2> DEFINE s == T!With(tx[t], [step |-> "coins", rate |-> rate])
    <2>1. /\ s.step = "coins" /\ s.rate = rate /\ DOMAIN s = DOMAIN tx[t] \cup {"step", "rate"}
          /\ s.req = tx[t].req
        BY <1>1 DEF T!With
    <2> HIDE DEF s
    <2>2. SelectedRecord(s)  BY <1>1, <2>1 DEF SelectedRecord
    <2> QED  BY <1>1, <1>3, <2>2, SelectionsAdvance DEF s
<1>4. \A rate \in (IF tx[t].req.rate > 0 THEN {tx[t].req.rate} ELSE Rates) : rate \in Nat \ {0}
    BY <1>1 DEF CoinsAreCounted
<1> QED  BY <1>2, <1>3, <1>4 DEF T!ResolveFeeRate

\* The truth of coins, and of one of them a claim, is what a wallet lists.
LEMMA ListedIsWallet ==
    ASSUME CoinsAreCounted, NEW S, \A x \in S : x.coin \in Coins /\ x.value \in Nat /\ x.type = ScriptType,
           \A x, y \in S : x.coin = y.coin => x = y
    PROVE  \A P \in SUBSET S : Wallet(P)
<1> SUFFICES ASSUME NEW P \in SUBSET S PROVE Wallet(P)
    OBVIOUS
<1> DEFINE f == [x \in P |-> x.coin]
<1>1. f \in Injection(P, Coins)  BY DEF Injection, IsInjective
<1>2. IsFiniteSet(P) /\ Cardinality(P) <= Cardinality(Coins)  BY <1>1, FS_Injection DEF CoinsAreCounted
<1> QED  BY <1>2 DEF Wallet, Listed

LEMMA TruthIs ==
    ASSUME SelectionsInv, NEW c \in Coins
    PROVE  /\ T!Truth(c).coin = c /\ T!Truth(c).value \in Nat /\ T!Truth(c).type = ScriptType
           /\ [T!Truth(c) EXCEPT !.value = @ + 1000].coin = c
           /\ [T!Truth(c) EXCEPT !.value = @ + 1000].value \in Nat
           /\ [T!Truth(c) EXCEPT !.value = @ + 1000].type = ScriptType
<1>1. T!Truth(c).coin = c /\ T!Truth(c).value = worth[c] /\ T!Truth(c).type = ScriptType
      /\ {"coin", "value", "type"} \subseteq DOMAIN T!Truth(c)
    BY DEF T!Truth
<1>2. worth[c] \in Nat  BY DEF SelectionsInv
<1> QED  BY <1>1, <1>2

LEMMA SelectHolds ==
    ASSUME CoinsAreCounted, SearchesFit, SelectionsInv, NEW t \in Transfers, tx[t].step = "coins",
           UNCHANGED worth, NEW listed, \A P \in SUBSET listed : Wallet(P), T!SelectFrom(t, listed)
    PROVE  SelectionsInv'
<1> DEFINE claims == T!SpendableOf(listed, tx[t].req)
           selection == T!SelectionFor(claims, tx[t].req, tx[t].rate)
           s == T!With(tx[t], [step |-> "parents", listed |-> claims, selection |-> selection])
<1>1. tx[t].req \in Requests /\ tx[t].rate \in Nat \ {0} /\ {"step", "req", "rate"} \subseteq DOMAIN tx[t]
    BY DEF SelectionsInv, SelectedRecord
<1>2. Wallet(claims)  BY DEF T!SpendableOf
<1>3. CASE T!Fail(t)  BY <1>3, SelectionsFail
<1>4. CASE selection.outcome = "success" /\ T!Advance(t, s)
    <2>1. SoundSelection(selection, claims, tx[t].req, tx[t].rate)
        <3> HIDE DEF claims
        <3> QED  BY <1>1, <1>2, <1>4, SelectionIsSound
    <2> HIDE DEF claims, selection
    <2>2. /\ s.step = "parents" /\ s.listed = claims /\ s.selection = selection
          /\ s.req = tx[t].req /\ s.rate = tx[t].rate
          /\ {"listed", "req", "rate"} \subseteq DOMAIN s
        BY <1>1 DEF T!With
    <2> HIDE DEF s
    <2>3. SelectedRecord(s)  BY <2>1, <2>2 DEF SelectedRecord
    <2> QED  BY <1>4, <2>3, SelectionsAdvance
<1> QED  BY <1>3, <1>4 DEF T!SelectFrom

LEMMA ListSelects ==
    ASSUME CoinsAreCounted, SearchesFit, SelectionsInv, NEW t \in Transfers, T!ListCoins(t)
    PROVE  SelectionsInv'
<1>1. tx[t].step = "coins" /\ UNCHANGED worth  BY DEF T!ListCoins
<1> DEFINE Of(unspent) == {T!Truth(c) : c \in unspent}
           Claim(c) == [T!Truth(c) EXCEPT !.value = @ + 1000]
           Wrong(unspent, c) == {T!Truth(d) : d \in unspent \ {c}} \cup {Claim(c)}
<1>2. PICK unspent \in SUBSET Coins :
          T!SelectFrom(t, Of(unspent)) \/ \E c \in unspent : T!SelectFrom(t, Wrong(unspent, c))
    <2> DEFINE left(seen) == {c \in Coins : Owner[c] = Sender} \ T!SpentBy(seen)
    <2>1. PICK seen \in SUBSET (pool \cup chain) :
                      \/ T!SelectFrom(t, Of(left(seen)))
                      \/ \E c \in left(seen), f \in Faults \cap {"value"} : T!SelectFrom(t, Wrong(left(seen), c))
        BY ZenonT(40) DEF T!ListCoins
    <2>2. left(seen) \in SUBSET Coins  OBVIOUS
    <2> HIDE DEF left, Of, Wrong
    <2> QED  BY <2>1, <2>2
<1>3. \A c \in Coins : T!Truth(c).coin = c /\ T!Truth(c).value \in Nat /\ T!Truth(c).type = ScriptType
                       /\ Claim(c).coin = c /\ Claim(c).value \in Nat /\ Claim(c).type = ScriptType
    BY TruthIs
<1> HIDE DEF Claim
<1>4. CASE T!SelectFrom(t, Of(unspent))
    <2>1. /\ \A x \in Of(unspent) : x.coin \in Coins /\ x.value \in Nat /\ x.type = ScriptType
          /\ \A x, y \in Of(unspent) : x.coin = y.coin => x = y
        BY <1>3
    <2> HIDE DEF Of
    <2>2. \A P \in SUBSET Of(unspent) : Wallet(P)  BY <2>1, ListedIsWallet
    <2> QED  BY <1>1, <1>4, <2>2, SelectHolds
<1>5. ASSUME NEW c \in unspent, T!SelectFrom(t, Wrong(unspent, c)) PROVE SelectionsInv'
    <2>1. /\ \A x \in Wrong(unspent, c) : x.coin \in Coins /\ x.value \in Nat /\ x.type = ScriptType
          /\ \A x, y \in Wrong(unspent, c) : x.coin = y.coin => x = y
        BY <1>3
    <2> HIDE DEF Wrong
    <2>2. \A P \in SUBSET Wrong(unspent, c) : Wallet(P)  BY <2>1, ListedIsWallet
    <2> QED  BY <1>1, <1>5, <2>2, SelectHolds
<1> QED  BY <1>2, <1>4, <1>5

LEMMA ParentsSelect ==
    ASSUME SelectionsInv, NEW t \in Transfers, T!FetchParents(t)
    PROVE  SelectionsInv'
<1>1. UNCHANGED worth /\ SelectedRecord(tx[t])  BY DEF T!FetchParents, SelectionsInv
<1>2. CASE T!Fail(t)  BY <1>1, <1>2, SelectionsFail
<1>3. ASSUME NEW ins, T!Advance(t, T!Built(t, ins)) PROVE SelectionsInv'
    <2> DEFINE s == T!Built(t, ins)
    <2>1. /\ s.step = "built"
          /\ DOMAIN s = DOMAIN tx[t] \cup {"step", "by", "ins", "fee", "paid", "sigs", "checked"}
          /\ \A f \in DOMAIN tx[t] \cap {"selection", "listed", "req", "rate"} : s[f] = tx[t][f]
        BY DEF T!Built, T!With
    <2> HIDE DEF s
    <2>2. SelectedRecord(s)  BY <1>1, <2>1, KeptSelection
    <2> QED  BY <1>1, <1>3, <2>2, SelectionsAdvance DEF s
<1> QED  BY <1>2, <1>3 DEF T!FetchParents

LEMMA AssembleSelects ==
    ASSUME SelectionsInv, NEW t \in Transfers, NEW asm, T!AssembleTransaction(t, asm)
    PROVE  SelectionsInv'
<1>1. UNCHANGED worth  BY DEF T!AssembleTransaction
<1>2. CASE T!Fail(t)  BY <1>1, <1>2, SelectionsFail
<1> DEFINE made(claims) ==
        [step |-> "built", by |-> "assembly", ins |-> claims,
         fee |-> T!Total(claims) - T!SumOf(asm.outputs),
         paid |-> T!SumOf(asm.outputs), sigs |-> {}, checked |-> FALSE]
<1>3. ASSUME NEW claims, T!Advance(t, made(claims)) PROVE SelectionsInv'
    <2>1. SelectedRecord(made(claims))  BY DEF SelectedRecord
    <2> HIDE DEF made
    <2> QED  BY <1>1, <1>3, <2>1, SelectionsAdvance
<1> HIDE DEF made
<1>4. T!Fail(t) \/ \E claims : T!Advance(t, made(claims))  BY DEF T!AssembleTransaction, made
<1> QED  BY <1>2, <1>3, <1>4

\* A record of which some fields are set keeps its selection.
LEMMA SetKeepsSelection ==
    ASSUME SelectionsInv, NEW t \in Transfers, UNCHANGED worth, NEW s, T!Advance(t, s),
           s.step \notin {"rate", "coins"}, DOMAIN s = DOMAIN tx[t],
           \A f \in DOMAIN tx[t] \cap {"selection", "listed", "req", "rate"} : s[f] = tx[t][f]
    PROVE  SelectionsInv'
<1>1. SelectedRecord(tx[t])  BY DEF SelectionsInv
<1>2. SelectedRecord(s)  BY <1>1, KeptSelection
<1> QED  BY <1>2, SelectionsAdvance

LEMMA SignSelects ==
    ASSUME TransfersInv, SelectionsInv, NEW t \in Transfers, NEW owner, T!SignWith(t, owner)
    PROVE  SelectionsInv'
<1>1. UNCHANGED worth /\ tx[t].step = "built" /\ "step" \in DOMAIN tx[t]
    BY BuiltHasFields DEF T!SignWith
<1>2. CASE T!Advance(t, [tx[t] EXCEPT !.step = "refused"])
    <2> DEFINE s == [tx[t] EXCEPT !.step = "refused"]
    <2>1. /\ s.step = "refused" /\ DOMAIN s = DOMAIN tx[t]
          /\ \A f \in DOMAIN tx[t] \cap {"selection", "listed", "req", "rate"} : s[f] = tx[t][f]
        BY <1>1
    <2> HIDE DEF s
    <2> QED  BY <1>1, <1>2, <2>1, SetKeepsSelection DEF s
<1>3. CASE T!Advance(t, [tx[t] EXCEPT !.sigs = @ \cup {owner}, !.checked = TRUE])
    <2> DEFINE s == [tx[t] EXCEPT !.sigs = @ \cup {owner}, !.checked = TRUE]
    <2>1. /\ s.step = "built" /\ DOMAIN s = DOMAIN tx[t]
          /\ \A f \in DOMAIN tx[t] \cap {"selection", "listed", "req", "rate"} : s[f] = tx[t][f]
        BY <1>1
    <2> HIDE DEF s
    <2> QED  BY <1>1, <1>3, <2>1, SetKeepsSelection DEF s
<1> QED  BY <1>2, <1>3 DEF T!SignWith

LEMMA FinalizeSelects ==
    ASSUME TransfersInv, SelectionsInv, NEW t \in Transfers, T!Finalize(t)
    PROVE  SelectionsInv'
<1>1. UNCHANGED worth /\ tx[t].step = "built" /\ "step" \in DOMAIN tx[t]
    BY BuiltHasFields DEF T!Finalize
<1>2. CASE T!Advance(t, [tx[t] EXCEPT !.step = "refused"])
    <2> DEFINE s == [tx[t] EXCEPT !.step = "refused"]
    <2>1. /\ s.step = "refused" /\ DOMAIN s = DOMAIN tx[t]
          /\ \A f \in DOMAIN tx[t] \cap {"selection", "listed", "req", "rate"} : s[f] = tx[t][f]
        BY <1>1
    <2> HIDE DEF s
    <2> QED  BY <1>1, <1>2, <2>1, SetKeepsSelection DEF s
<1>3. CASE T!Advance(t, [tx[t] EXCEPT !.step = "final", !.checked = TRUE])
    <2> DEFINE s == [tx[t] EXCEPT !.step = "final", !.checked = TRUE]
    <2>1. /\ s.step = "final" /\ DOMAIN s = DOMAIN tx[t]
          /\ \A f \in DOMAIN tx[t] \cap {"selection", "listed", "req", "rate"} : s[f] = tx[t][f]
        BY <1>1
    <2> HIDE DEF s
    <2> QED  BY <1>1, <1>3, <2>1, SetKeepsSelection DEF s
<1> QED  BY <1>2, <1>3 DEF T!Finalize

LEMMA SelectionsStep ==
    ASSUME CoinsAreCounted, SearchesFit
    PROVE  TransfersInv /\ SelectionsInv /\ [T!Next]_T!vars => SelectionsInv'
<1> SUFFICES ASSUME TransfersInv, SelectionsInv, [T!Next]_T!vars PROVE SelectionsInv'
    OBVIOUS
<1>1. CASE UNCHANGED <<worth, tx>>  BY <1>1 DEF SelectionsInv
<1>2. CASE UNCHANGED T!vars  BY <1>1, <1>2 DEF T!vars
<1>3. ASSUME NEW t \in Transfers, T!Broadcast(t) \/ T!Mine(t) PROVE SelectionsInv'
    BY <1>1, <1>3 DEF T!Broadcast, T!Mine
<1> QED
    BY <1>2, <1>3, BuildSelects, RateSelects, ListSelects, ParentsSelect, AssembleSelects, SignSelects,
       FinalizeSelects
    DEF T!Next

\* What is selected pays the target, the change and a fee for every input and output,
\* and is the nearest match of all sets of coins where one matches: for any coins and
\* values, any requests and rates, and any number of transfers at once, where the
\* iterations of the branch and bound are not used up.
THEOREM SelectionsAreSound == ASSUME CoinsAreCounted, SearchesFit PROVE T!Spec => []SelectionSound
<1>1. T!Init => TransfersInv /\ SelectionsInv  BY TransfersInit, SelectionsInit
<1>2. TransfersInv /\ SelectionsInv /\ [T!Next]_T!vars => TransfersInv' /\ SelectionsInv'
    BY TransfersStep, SelectionsStep
<1>3. SelectionsInv => SelectionSound
    <2> SUFFICES ASSUME SelectionsInv, NEW t \in T!Selected
                 PROVE  SoundSelection(tx[t].selection, tx[t].listed, tx[t].req, tx[t].rate)
        BY DEF SelectionSound, T!SelectionSound, SoundSelection
    <2> QED  BY DEF SelectionsInv, SelectedRecord, T!Selected
<1> QED  BY <1>1, <1>2, <1>3, PTL DEF T!Spec
=============================================================================
