------------------------------ MODULE UtxoCoins ------------------------------
(***************************************************************************)
(* Which coins of a UTXO wallet pay for a transfer: the sizes of fee.ts    *)
(* and the selection of coin_selection.ts, as operators.  A coin is a      *)
(* record with a value (satoshis) and the script type of its output.       *)
(* Sizes are counted in half vbytes, because a taproot input has 57.5.     *)
(***************************************************************************)
EXTENDS Integers, FiniteSets, SequencesExt, FiniteSetsExt, Functions

\* The sizes of fee.ts (twice the vbytes of its tables).
TX_OVERHEAD == 21
INPUT_SIZE == [p2pkh |-> 296, p2sh |-> 182, p2wpkh |-> 136, p2wsh |-> 210, p2tr |-> 115]
OUTPUT_SIZE == [p2pkh |-> 68, p2sh |-> 64, p2wpkh |-> 62, p2wsh |-> 86, p2tr |-> 86]

\* Math.ceil of a number of half units.
CeilHalf(n) == (n + 1) \div 2

\* The OP_RETURN output of a memo of n bytes, as estimateTxVBytes counts it.
OpReturnSize(n) == 2 * (11 + (IF n < 76 THEN 0 ELSE 1) + n)

estimateTxVBytes(inputs, outputs, memo) ==
    CeilHalf(TX_OVERHEAD + FoldSeq(LAMBDA t, n : n + INPUT_SIZE[t], 0, inputs)
                         + FoldSeq(LAMBDA t, n : n + OUTPUT_SIZE[t], 0, outputs)
                         + (IF memo = 0 THEN 0 ELSE OpReturnSize(memo)))

effectiveValueSats(coin, rate) == coin.value - CeilHalf(INPUT_SIZE[coin.type] * rate)

costOfChangeSats(type, rate, longTermRate) ==
    CeilHalf(OUTPUT_SIZE[type] * rate + INPUT_SIZE[type] * longTermRate)

(***************************************************************************)
(* selectCoins.  worth is the sequence of the effective values, largest    *)
(* first; a choice is a set of positions in it.                            *)
(***************************************************************************)
SumAt(worth, places) == MapThenSumSet(LAMBDA i : worth[i], places)

\* What branchAndBound keeps between its calls of recurse, and a call: the depth it
\* has come to, and what is chosen and what that is worth.
SearchState(n) == [iterations : Nat, best : SUBSET (1..n), over : Nat]
Calls(n) == [depth : 1..(n + 1), sum : Nat, current : SUBSET (1..n), st : SearchState(n)]

\* One call of recurse: a coin is taken before it is left.
Recurse(worth, target, costOfChange, maxIterations, recurse, call) ==
    LET now == [call.st EXCEPT !.iterations = @ + 1]
        over == call.sum - target
        taking == [depth |-> call.depth + 1, sum |-> call.sum + worth[call.depth],
                   current |-> call.current \cup {call.depth}, st |-> now]
        leaving(st) == [depth |-> call.depth + 1, sum |-> call.sum, current |-> call.current, st |-> st]
        stop(found, st) == [found |-> found, st |-> st]
    IN  IF now.iterations > maxIterations \/ over > costOfChange THEN stop(FALSE, now)
        ELSE IF over >= 0
        THEN stop(over = 0, IF over < now.over THEN [now EXCEPT !.over = over, !.best = call.current] ELSE now)
        ELSE IF call.sum + SumAt(worth, call.depth..Len(worth)) < target \/ call.depth > Len(worth)
        THEN stop(FALSE, now)
        ELSE IF recurse[taking].found THEN recurse[taking] ELSE recurse[leaving(recurse[taking].st)]

\* A branchAndBound that any match ends.
FirstMatch(worth, target, costOfChange, maxIterations) ==
    LET search[call \in Calls(Len(worth))] ==
            LET made == Recurse(worth, target, costOfChange, maxIterations, search, call)
            IN  [made EXCEPT !.found = made.st.best # {}]
        first == [iterations |-> 0, best |-> {}, over |-> costOfChange + 1]
    IN  search[[depth |-> 1, sum |-> 0, current |-> {}, st |-> first]].st.best

\* branchAndBound: depth first; {} is null.
branchAndBound(worth, target, costOfChange, maxIterations) ==
    LET search[call \in Calls(Len(worth))] ==
            Recurse(worth, target, costOfChange, maxIterations, search, call)
        first == [iterations |-> 0, best |-> {}, over |-> costOfChange + 1]
    IN  search[[depth |-> 1, sum |-> 0, current |-> {}, st |-> first]].st.best

\* accumulatorFallback: the shortest prefix that reaches the target.
accumulatorFallback(worth, target) ==
    LET enough == {k \in 1..Len(worth) : SumAt(worth, 1..k) >= target}
    IN  IF enough = {} THEN {} ELSE 1..Min(enough)

NoSelection(outcome) ==
    [outcome |-> outcome, selected |-> {}, total |-> 0, fee |-> 0, change |-> 0,
     hasChange |-> FALSE, algorithm |-> "none"]

\* A finalize that gives the whole surplus out as change.
FreeChange(selected, target, rate, changeType, fixedSize, costOfChange, algorithm) ==
    LET total == MapThenSumSet(LAMBDA c : c.value, selected)
        inputs == MapThenSumSet(LAMBDA c : INPUT_SIZE[c.type], selected)
        baseFee == CeilHalf((fixedSize + inputs) * rate)
        surplus == total - target - baseFee
        changeCost == 0
        hasChange == surplus - changeCost >= costOfChange
    IN  IF surplus < 0
        THEN NoSelection("insufficient_funds")
        ELSE [outcome |-> "success", selected |-> selected, total |-> total,
              fee |-> baseFee + (IF hasChange THEN changeCost ELSE surplus),
              change |-> IF hasChange THEN surplus - changeCost ELSE 0,
              hasChange |-> hasChange, algorithm |-> algorithm]

\* finalize: the fee of what was selected, and what becomes of the surplus.
finalize(selected, target, rate, changeType, fixedSize, costOfChange, algorithm) ==
    LET total == MapThenSumSet(LAMBDA c : c.value, selected)
        inputs == MapThenSumSet(LAMBDA c : INPUT_SIZE[c.type], selected)
        baseFee == CeilHalf((fixedSize + inputs) * rate)
        surplus == total - target - baseFee
        changeCost == CeilHalf(OUTPUT_SIZE[changeType] * rate)
        hasChange == surplus - changeCost >= costOfChange
    IN  IF surplus < 0
        THEN NoSelection("insufficient_funds")
        ELSE [outcome |-> "success", selected |-> selected, total |-> total,
              fee |-> baseFee + (IF hasChange THEN changeCost ELSE surplus),
              change |-> IF hasChange THEN surplus - changeCost ELSE 0,
              hasChange |-> hasChange, algorithm |-> algorithm]

\* The coins in order of what they are worth.
LargestFirst(coins, rate) ==
    CHOOSE sorted \in [1..Cardinality(coins) -> coins] :
        /\ IsInjective(sorted)
        /\ \A i, j \in DOMAIN sorted :
              i < j => effectiveValueSats(sorted[i], rate) >= effectiveValueSats(sorted[j], rate)

selectCoins(coins, target, rate, changeType, fixedSize, costOfChange, maxIterations) ==
    LET positive == {c \in coins : effectiveValueSats(c, rate) > 0}
        sorted == LargestFirst(positive, rate)
        worth == [i \in 1..Cardinality(positive) |-> effectiveValueSats(sorted[i], rate)]
        pick(choice, algorithm) ==
            finalize({sorted[i] : i \in choice}, target, rate, changeType, fixedSize,
                     costOfChange, algorithm)
        exact == branchAndBound(worth, target, costOfChange, maxIterations)
        prefix == accumulatorFallback(worth, target)
    IN  IF target <= 0 THEN NoSelection("no_solution")
        ELSE IF SumAt(worth, DOMAIN worth) < target THEN NoSelection("insufficient_funds")
        ELSE IF exact # {} THEN pick(exact, "bnb")
        ELSE IF prefix # {} THEN pick(prefix, "accumulator")
        ELSE NoSelection("no_solution")
=============================================================================
