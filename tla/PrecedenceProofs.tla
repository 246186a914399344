-------------------------- MODULE PrecedenceProofs --------------------------
(***************************************************************************)
(* In which order the loops of the expression parser apply the operators,  *)
(* and that a statement that ends is complete.                             *)
(***************************************************************************)
EXTENDS EvaluationProofs

-----------------------------------------------------------------------------
(* The invariant, phase by phase.  ss and ps are symbol_stack and               *)
(* process_stack, st is status_stack, tx the text, pr and l priority_stack and  *)
(* last_priority; Len(pr) is the depth of the next token.                       *)

\* What stands on symbol_stack outside of the walks.
Whole(ss, tx, pr, l, m) ==
  /\ Nested(ss, tx) /\ Height(ss, tx, Len(pr))
  /\ Settled(ss, tx, pr, l, Len(pr) + 1) /\ Met(tx, pr, l, Len(pr), m)

\* The operator that came binds looser than one in front of it.
Loose(tx, d) == tx[Len(tx)] \in Operator => Tighter(tx, d, Len(tx), Priority[tx[Len(tx)]])

\* Between the handlers: an operand on top holds no operator of its own depth.
PReading(ss, tx, pr, l) ==
  LET x == ss[Len(ss)] IN
  /\ Whole(ss, tx, pr, l, Len(tx))
  /\ x.key \in OperandKey => None(tx, Len(pr), x.from, x.to)

\* A call of back_ward_solve_expr begins.
PFirst(ss, tx, pr, l) ==
  LET x == ss[Len(ss)] k == tx[Len(tx)] IN
  /\ Whole(ss, tx, pr, l, Len(tx) - 1) /\ Loose(tx, Len(pr))
  /\ k \in Operator => l < Priority[k] /\ None(tx, Len(pr), x.from, x.to)

\* A walk that has taken "(" or another operator that cannot be evaluated.
Lost(ps, l) == ps[Len(ps)].key \notin Emitted /\ l = 1

\* An operator that was taken, at place i of process_stack: none behind it binds
\* looser, the one behind its right operand does not bind tighter, ...
Passed(ss, ps, tx, d, l, i) ==
  LET x == ps[i]
      t == ps[i - 1].to
  IN
  /\ x.from \in At(tx, d)
  /\ Kept(tx, d, ps[Len(ps)].from, t, x.key)
  /\ tx[t + 1] \in Operator => Priority[x.key] <= Priority[tx[t + 1]]
  /\ l <= Priority[x.key]
  /\ l < Priority[x.key] => Tighter(tx, d, x.from, l)
  /\ \A k \in 1 .. Len(ss) :
       /\ ss[k].key \in Operator /\ Level(ss[k], tx) = d /\ Chain(ss, k, Len(ss))
       /\ Priority[ss[k].key] < Priority[x.key]
       => Tighter(tx, d, x.from, Priority[ss[k].key])

\* In the loop of back_ward_solve_expr, y the operator taken last.
PWalk(ss, ps, tx, pr, l) ==
  LET x == ss[Len(ss)]
      d == Len(pr)
      y == ps[Len(ps)]
  IN
  /\ Nested(ss, tx) /\ Height(ss, tx, d)
  /\ Settled(ss, tx, pr, l, d) /\ Met(tx, pr, l, d, Len(tx) - 1) /\ Loose(tx, d)
  /\ x.key \in OperandKey /\ Kept(tx, d, x.from, x.to, y.key)
  /\ Len(ps) >= 2 /\ ps[2].key \in Operator
  /\ y.key \in Operator /\ l = Priority[y.key]
  /\ \A i \in 2 .. Len(ps) : ps[i].key \in Operator => Passed(ss, ps, tx, d, l, i)
  /\ Deep(tx, d, y.from, Len(tx) - 1) /\ tx[Len(tx) - 1] \in {"id", "digit", ")"}

\* The call is over; fl is what it returns, that it took something off.
PReturned(ss, tx, pr, l, fl) ==
  LET x == ss[Len(ss)]
      y == ss[Len(ss) - 1]
      d == Len(pr)
  IN
  /\ Whole(ss, tx, pr, l, Len(tx) - 1) /\ Loose(tx, d)
  /\ Kept(tx, d, x.from, x.to, tx[Len(tx)])
  /\ y.key # "("
  /\ y.key \in Operator =>
       /\ Tighter(tx, d, Len(tx), Priority[y.key])
       /\ ~fl => Tighter(tx, d, y.from, Priority[y.key])

\* An operator that clear_process_stack is going to apply.
Ready(ps, tx, d, i) ==
  LET x == ps[i]
      t == ps[i - 1].to
      f == ps[Len(ps)].from
  IN
  /\ x.from \in At(tx, d)
  /\ Kept(tx, d, f, t, x.key)
  /\ tx[t + 1] \in Operator => Priority[x.key] <= Priority[tx[t + 1]]
  /\ f > 1 /\ tx[f - 1] \in Operator /\ Priority[tx[f - 1]] <= Priority[x.key] =>
       \E y \in At(tx, d) :
         /\ f <= y /\ y < x.from /\ Priority[tx[y]] < Priority[tx[f - 1]]
         /\ Tighter(tx, d, x.from, Priority[tx[y]])

\* What back_ward_solve_expr took off was lost, or is in order.
Doomed(ps) == Len(ps) > 1 /\ ps[Len(ps) - 1].key \notin Emitted
PClear(ss, ps, tx, pr, l) ==
  LET x == ss[Len(ss)]
      d == Len(pr)
      f == ps[Len(ps)].from
      r == Len(tx) - 1
  IN
  /\ Nested(ss, tx) /\ Height(ss, tx, d)
  /\ Settled(ss, tx, pr, l, d) /\ Met(tx, pr, l, d, r) /\ Loose(tx, d)
  /\ x.key # "("
  /\ x.key \in Operator => l = Priority[x.key] /\ Tighter(tx, d, Len(tx), Priority[x.key])
  /\ x.key \in OperandKey => tx[f] = "(" /\ tx[x.to] # "id"
  /\ \A i \in 2 .. Len(ps) - 1 : ps[i].key \in Operator => Ready(ps, tx, d, i)
  /\ Len(ps) = 1 => ps[1].key = "value"
  /\ Kept(tx, d, f, r, tx[Len(tx)]) /\ Kept(tx, d, f, r, x.key)
  /\ Deep(tx, d, f, r) /\ tx[r] \in {"id", "digit", ")"}

\* What stood between parentheses is on process_stack.
PInside(ss, ps, tx, pr, l) ==
  LET d == Len(pr)
      r == Len(tx) - 1
  IN
  /\ Nested(ss, tx) /\ Height(ss, tx, d - 1)
  /\ Settled(ss, tx, pr, l, d) /\ Met(tx, pr, l, d - 1, r)
  /\ \A q \in ps[Len(ps)].from .. r : DepthIn(tx, q) >= d
  /\ DepthIn(tx, r) = d /\ tx[r] # "("

\* What the expression stands on.
Bottom(ss, st) ==
  /\ ss[1] = Outer("fn") /\ ss[2] = Outer("LBRACES") /\ st[1] = 14 /\ st[2] = 15
  /\ Len(ss) > 2 /\ ss[3].from = 0 => st[3] = 16

\* What is known of an operator that was applied outside parentheses.
Fine(a, tx) ==
  LET d == DepthIn(tx, a.at)
      f == a.from - 1
  IN
  \/ a.grouped
  \/ /\ a.to < Len(tx) /\ a.at \in At(tx, d)
     /\ Kept(tx, d, a.from, a.to, tx[a.at])
     /\ a.to + 1 \in At(tx, d) => Priority[tx[a.at]] <= Priority[tx[a.to + 1]]
     /\ f \in At(tx, d) /\ Priority[tx[f]] <= Priority[tx[a.at]] =>
          \E y \in At(tx, d) :
            /\ a.from <= y /\ y < a.at /\ Priority[tx[y]] < Priority[tx[f]]
            /\ Tighter(tx, d, a.at, Priority[tx[y]])

PPhases ==
  /\ Bottom(symbol_stack, status_stack)
  /\ pc = "reading" => PReading(symbol_stack, text, priority_stack, last_priority)
  /\ pc = "walking" /\ ~flag => PFirst(symbol_stack, text, priority_stack, last_priority)
  /\ pc = "walking" /\ flag =>
       \/ Lost(process_stack, last_priority)
       \/ PWalk(symbol_stack, process_stack, text, priority_stack, last_priority)
  /\ pc = "returned" => PReturned(symbol_stack, text, priority_stack, last_priority, flag)
  /\ pc = "clearing" /\ current_input.key # ")" =>
       /\ flag
       /\ \/ Doomed(process_stack)
          \/ PClear(symbol_stack, process_stack, text, priority_stack, last_priority)
  /\ pc = "calling" \/ (pc = "clearing" /\ current_input.key = ")") =>
       PInside(symbol_stack, process_stack, text, priority_stack, last_priority)
  /\ pc = "clearing" /\ current_input.key = ")" =>
       (Last(symbol_stack).key \in OperandKey => Last(symbol_stack).key = "digit")

PInv ==
  /\ pc \in Running => PPhases
  /\ \A a \in applied : Fine(a, text)
  /\ StatementsComplete

-----------------------------------------------------------------------------
(* What every step keeps. *)

LEMMA FineStays ==
  ASSUME NEW tx, NEW t2, Longer(tx, t2), NEW a, a.at \in 1 .. Len(tx), a.from \in 1 .. Len(tx),
         a.to \in 1 .. Len(tx), Fine(a, tx)
  PROVE  Fine(a, t2)
<1> DEFINE d == DepthIn(tx, a.at)
           f == a.from - 1
<1>1. SUFFICES ASSUME ~a.grouped PROVE Fine(a, t2)
  BY Zenon DEF Fine
<1>2. /\ a.to < Len(tx) /\ a.at \in At(tx, d)
      /\ Kept(tx, d, a.from, a.to, tx[a.at])
      /\ a.to + 1 \in At(tx, d) => Priority[tx[a.at]] <= Priority[tx[a.to + 1]]
      /\ f \in At(tx, d) /\ Priority[tx[f]] <= Priority[tx[a.at]] =>
           \E y \in At(tx, d) :
             /\ a.from <= y /\ y < a.at /\ Priority[tx[y]] < Priority[tx[f]]
             /\ Tighter(tx, d, a.at, Priority[tx[y]])
  BY <1>1, Zenon DEF Fine
<1>3. Len(tx) \in Nat /\ Len(t2) \in Nat /\ Len(tx) <= Len(t2)
  BY LongerIs
<1>4. d = DepthIn(t2, a.at) /\ t2[a.at] = tx[a.at]
  BY TextStays
<1> HIDE DEF d, f
<1>5. a.to < Len(t2) /\ a.to \in Nat /\ a.to <= Len(tx) /\ a.to + 1 <= Len(tx)
  BY <1>2, <1>3
<1>6. a.at \in At(t2, d)
  BY <1>2, OperatorsStay
<1>7. Kept(t2, d, a.from, a.to, t2[a.at])
  BY <1>2, <1>4, <1>5, KeptStays
<1>8. a.to + 1 \in At(t2, d) => Priority[t2[a.at]] <= Priority[t2[a.to + 1]]
  <2>1. a.to + 1 \in At(t2, d) => a.to + 1 \in At(tx, d) /\ t2[a.to + 1] = tx[a.to + 1]
    BY <1>5, OperatorsStay
  <2> QED BY <1>2, <1>4, <2>1
<1>9. ASSUME f \in At(t2, d), Priority[t2[f]] <= Priority[t2[a.at]]
      PROVE  \E y \in At(t2, d) :
               /\ a.from <= y /\ y < a.at /\ Priority[t2[y]] < Priority[t2[f]]
               /\ Tighter(t2, d, a.at, Priority[t2[y]])
  <2>1. f <= Len(tx)
    BY <1>3 DEF f
  <2>2. f \in At(tx, d) /\ t2[f] = tx[f]
    BY <1>9, <2>1, OperatorsStay
  <2>3. PICK y \in At(tx, d) : /\ a.from <= y /\ y < a.at /\ Priority[tx[y]] < Priority[tx[f]]
                               /\ Tighter(tx, d, a.at, Priority[tx[y]])
    BY <1>2, <1>4, <1>9, <2>2
  <2>4. y \in At(t2, d) /\ t2[y] = tx[y]
    BY OperatorsStay
  <2>5. Tighter(t2, d, a.at, Priority[t2[y]])
    BY <2>3, <2>4, TighterStays
  <2> QED BY <2>2, <2>3, <2>4, <2>5
<1> QED BY <1>4, <1>5, <1>6, <1>7, <1>8, <1>9, Zenon DEF Fine, f

LEMMA LongerSame ==
  ASSUME NEW tx \in Seq(TextKey)
  PROVE  Longer(tx, tx)
  BY DEF Longer

\* The symbols under the expression stay.
LEMMA BottomCut ==
  ASSUME NEW ss, NEW st, Bottom(ss, st), NEW n \in Nat, n >= 2, n <= Len(ss), Len(ss) \in Nat,
         NEW zs, NEW zt, Len(zs) = n, \A i \in 1 .. n : zs[i] = ss[i], \A i \in 1 .. n : zt[i] = st[i]
  PROVE  Bottom(zs, zt)
<1>1. 1 \in 1 .. n /\ 2 \in 1 .. n /\ (Len(zs) > 2 => 3 \in 1 .. n /\ Len(ss) > 2)
  OBVIOUS
<1> QED BY <1>1, Zenon DEF Bottom

LEMMA BottomPush ==
  ASSUME NEW ss, NEW st, Bottom(ss, st), Len(ss) \in Nat, Len(ss) >= 2,
         NEW zs, NEW zt, Len(zs) = Len(ss) + 1, \A i \in 1 .. Len(ss) : zs[i] = ss[i],
         \A i \in 1 .. Len(ss) : zt[i] = st[i], zs[Len(zs)].from # 0
  PROVE  Bottom(zs, zt)
<1>0. Len(ss) \in Nat /\ Len(ss) >= 2
  OBVIOUS
<1>1. 1 \in 1 .. Len(ss) /\ 2 \in 1 .. Len(ss) /\ (3 \in 1 .. Len(ss) \/ Len(ss) = 2)
      /\ (3 \in 1 .. Len(ss) => Len(ss) > 2)
  BY ONLY <1>0
<1>2. Len(ss) = 2 => zs[3].from # 0
  OBVIOUS
<1> QED BY <1>1, <1>2 DEF Bottom

\* A token more that is not ")", for the stack and the priorities.
LEMMA WholeMore ==
  ASSUME NEW tx, NEW t2, Longer(tx, t2), Len(t2) = Len(tx) + 1, t2[Len(t2)] # ")",
         NEW ss, NEW st, NEW b, Solid(ss, st, b, tx),
         NEW pr, Len(pr) \in Nat, NEW l, Whole(ss, tx, pr, l, Len(tx)), ss[Len(ss)].to = Len(tx)
  PROVE  Whole(ss, t2, pr, l, Len(tx)) /\ DepthIn(t2, Len(t2)) = Len(pr)
<1>1. /\ Nested(ss, tx) /\ Height(ss, tx, Len(pr))
      /\ Settled(ss, tx, pr, l, Len(pr) + 1) /\ Met(tx, pr, l, Len(pr), Len(tx))
  BY Zenon DEF Whole
<1>2. Nested(ss, t2) /\ Height(ss, t2, Len(pr)) /\ DepthIn(t2, Len(t2)) = Len(pr)
  BY <1>1, NestedMore
<1>3. Settled(ss, t2, pr, l, Len(pr) + 1)
  BY <1>1, SettledStays
<1>4. Met(t2, pr, l, Len(pr), Len(tx))
  BY <1>1, MetStays
<1> QED BY <1>2, <1>3, <1>4, Zenon DEF Whole

-----------------------------------------------------------------------------
(* A token is pushed. *)

LEMMA OperatorPushed ==
  ASSUME NEW ss, NEW st, NEW b, NEW tx \in Seq(TextKey), Solid(ss, st, b, tx), Nested(ss, tx),
         NEW pr, Len(pr) \in Nat, Height(ss, tx, Len(pr)), Len(ss) > b, ss[Len(ss)].key \in OperandKey,
         Len(tx) > 0, ss[Len(ss)].to = Len(tx) - 1, tx[Len(tx)] \in Operator,
         DepthIn(tx, Len(tx)) = Len(pr),
         Kept(tx, Len(pr), ss[Len(ss)].from, ss[Len(ss)].to, tx[Len(tx)]),
         Firm(ss, tx, Len(pr), tx[Len(tx)], Len(tx)),
         NEW zs, Len(zs) = Len(ss) + 1, \A i \in 1 .. Len(ss) : zs[i] = ss[i],
         zs[Len(zs)] = Symbol(tx[Len(tx)], Len(tx), Len(tx)),
         NEW l, Settled(ss, tx, pr, l, Len(pr)),
         NEW l2, Met(tx, pr, l2, Len(pr), Len(tx)),
         l2 = Priority[tx[Len(tx)]] \/ Tighter(tx, Len(pr), Len(tx), Priority[tx[Len(tx)]])
  PROVE  PReading(zs, tx, pr, l2)
<1> DEFINE x == zs[Len(zs)]
           m == Len(ss)
<1>1. x.key = tx[Len(tx)] /\ x.from = Len(tx) /\ x.key \in Operator
  BY DEF Symbol
<1>2. Level(x, tx) = Len(pr)
  BY <1>1 DEF Level
<1>3. m \in Nat /\ m > 1 /\ Len(zs) = m + 1
  <2>1. Len(ss) \in Nat /\ b \in 2 .. 3
    BY SolidIs
  <2> QED BY <2>1
<1>4. Nested(zs, tx) /\ Height(zs, tx, Len(pr))
  BY NestedOperator
<1>5. Settled(zs, tx, pr, l, Len(pr))
  <2>1. ~(Level(zs[Len(zs)], tx) < Len(pr))
    BY <1>2
  <2>2. Len(ss) \in Nat
    BY <1>3
  <2> QED BY <2>1, <2>2, SettledPush
<1>6. x.key # "(" /\ x.key \notin OperandKey /\ ss[m].key \notin Operator
  BY <1>1, GroundKeys
<1>7. \A i \in 1 .. Len(zs) : zs[i].key \in Operator => Level(zs[i], tx) \in Int
  <2>1. SUFFICES ASSUME NEW i \in 1 .. Len(zs), zs[i].key \in Operator PROVE Level(zs[i], tx) \in Int
    OBVIOUS
  <2>2. i = Len(zs) \/ i \in 1 .. Len(ss)
    BY <1>3
  <2>3. CASE i = Len(zs)
    BY <1>2, <2>3
  <2>4. CASE i \in 1 .. Len(ss)
    <3>1. zs[i] = ss[i]
      BY <2>4
    <3>2. ss[i].key \in Operator => Level(ss[i], tx) \in Int
      BY <2>4, SymbolsAre
    <3> QED BY <2>1, <3>1, <3>2
  <2> QED BY <2>2, <2>3, <2>4
<1>8. \A i \in Len(zs) - 1 .. Len(zs) : zs[i].key \in Operator => Left(zs[i], tx, l2)
  <2>1. Left(x, tx, l2)
    BY <1>1, <1>2, Zenon DEF Left
  <2>2. zs[m] = ss[m]
    BY <1>3
  <2>3. \A i \in Len(zs) - 1 .. Len(zs) : i = m \/ i = Len(zs)
    BY <1>3
  <2> QED BY <1>6, <2>1, <2>2, <2>3
<1> HIDE DEF x
<1>9. Settled(zs, tx, pr, l2, Len(pr) + 1)
  <2>1. Len(zs) \in Nat /\ Len(zs) > 1
    BY <1>3
  <2>2. Level(zs[Len(zs)], tx) = Len(pr) /\ zs[Len(zs)].key # "("
    BY <1>2, <1>6 DEF x
  <2> QED BY <1>5, <1>7, <1>8, <2>1, <2>2, SettledTop
<1>10. Whole(zs, tx, pr, l2, Len(tx))
  BY <1>4, <1>9, Zenon DEF Whole
<1> QED BY <1>6, <1>10, Zenon DEF PReading, x

LEMMA OperandPushed ==
  ASSUME NEW ss, NEW st, NEW b, NEW tx \in Seq(TextKey), Solid(ss, st, b, tx),
         NEW pr, Len(pr) \in Nat, NEW l, Whole(ss, tx, pr, l, Len(tx) - 1),
         Len(tx) > 0, tx[Len(tx)] \in {"id", "digit"}, DepthIn(tx, Len(tx)) = Len(pr),
         ss[Len(ss)].key \notin OperandKey,
         NEW zs, Len(zs) = Len(ss) + 1, \A i \in 1 .. Len(ss) : zs[i] = ss[i],
         zs[Len(zs)] = Symbol(tx[Len(tx)], Len(tx), Len(tx))
  PROVE  PReading(zs, tx, pr, l)
<1> DEFINE x == zs[Len(zs)]
<1>1. x.key = tx[Len(tx)] /\ x.from = Len(tx) /\ x.to = Len(tx)
  BY DEF Symbol
<1>2. x.key \notin Operator /\ x.key # "(" /\ x.key # "value"
  BY <1>1, GroundKeys DEF OperandKey
<1>3. DepthIn(tx, Len(tx)) >= 0 /\ Len(tx) \in Nat
  OBVIOUS
<1>4. Level(x, tx) = Len(pr) /\ Item(x, tx) /\ None(tx, Len(pr), x.from, x.to)
  BY <1>1, <1>2, <1>3, TokenItem
<1>5. \A k : Kept(tx, Len(pr), x.from, x.to, k)
  BY <1>4, KeptNone
<1>6. Fits(x, ss[Len(ss)], tx, Len(pr))
  <2>1. x.from > 0
    BY <1>1, <1>3
  <2> QED BY <1>4, <1>5, <2>1, Zenon DEF Fits
<1>7. Climbing(ss, x, tx)
  BY <1>2, Zenon DEF Climbing
<1>8. /\ Nested(ss, tx) /\ Height(ss, tx, Len(pr))
      /\ Settled(ss, tx, pr, l, Len(pr) + 1) /\ Met(tx, pr, l, Len(pr), Len(tx) - 1)
  BY Zenon DEF Whole
<1> HIDE DEF x
<1>9. Fits(zs[Len(zs)], ss[Len(ss)], tx, Len(pr)) /\ Climbing(ss, zs[Len(zs)], tx)
      /\ zs[Len(zs)].key # "(" /\ zs[Len(zs)].key \notin Operator
  BY <1>2, <1>6, <1>7 DEF x
<1>10. Nested(zs, tx) /\ Height(zs, tx, Len(pr))
  BY <1>8, <1>9, NestedPush
<1>11. Len(ss) \in Nat
  BY SolidIs
<1>12. Settled(zs, tx, pr, l, Len(pr) + 1)
  BY <1>8, <1>9, <1>11, SettledPush
<1>13. Met(tx, pr, l, Len(pr), Len(tx))
  <2>1. Len(tx) - 1 \in Nat /\ Len(tx) - 1 <= Len(tx)
    BY <1>3
  <2> QED BY <1>3, <1>8, <2>1, MetMore
<1>14. Whole(zs, tx, pr, l, Len(tx))
  BY <1>10, <1>12, <1>13, Zenon DEF Whole
<1> QED BY <1>4, <1>14, Zenon DEF PReading, x

LEMMA ParenthesisPushed ==
  ASSUME NEW ss, NEW st, NEW b, NEW tx \in Seq(TextKey), Solid(ss, st, b, tx),
         NEW pr, Len(pr) \in Nat, NEW l, Whole(ss, tx, pr, l, Len(tx) - 1),
         Len(tx) > 0, tx[Len(tx)] = "(", DepthIn(tx, Len(tx)) = Len(pr),
         NEW zs, Len(zs) = Len(ss) + 1, \A i \in 1 .. Len(ss) : zs[i] = ss[i],
         zs[Len(zs)] = Symbol(tx[Len(tx)], Len(tx), Len(tx)),
         NEW p2, Len(p2) = Len(pr) + 1,
         \A e \in Nat : e <= Len(pr) => SavedAt(p2, 255, e) = SavedAt(pr, l, e),
         SavedAt(p2, 255, Len(pr) + 1) = 255
  PROVE  PReading(zs, tx, p2, 255)
<1> DEFINE x == zs[Len(zs)]
<1>1. x.key = "(" /\ x.from = Len(tx) /\ x.to = Len(tx)
  BY DEF Symbol
<1>2. x.key \notin Operator /\ x.key \notin OperandKey
  BY <1>1, GroundKeys
<1>3. DepthIn(tx, Len(tx)) >= 0 /\ Len(tx) \in Nat /\ Len(pr) \in Nat
  <2>1. Len(tx) \in Nat /\ DepthIn(tx, Len(tx)) = Len(pr) /\ Len(pr) \in Nat
    BY LongerSame, LongerIs
  <2> QED BY ONLY <2>1
<1>4. Level(x, tx) = Len(pr) /\ Item(x, tx)
  BY <1>1, <1>3, TokenItem
<1>5. \A f, t : Kept(tx, Len(pr), f, t, x.key)
  BY <1>2, KeptOther
<1>6. Fits(x, ss[Len(ss)], tx, Len(pr))
  <2>1. x.from > 0
    BY <1>1, <1>3
  <2> QED BY <1>2, <1>4, <1>5, <2>1, Zenon DEF Fits
<1>7. Climbing(ss, x, tx)
  BY <1>2, Zenon DEF Climbing
<1>8. /\ Nested(ss, tx) /\ Height(ss, tx, Len(pr))
      /\ Settled(ss, tx, pr, l, Len(pr) + 1) /\ Met(tx, pr, l, Len(pr), Len(tx) - 1)
  BY Zenon DEF Whole
<1>9. /\ Len(p2) = Len(pr) + 1
      /\ \A e \in Nat : e <= Len(pr) => SavedAt(p2, 255, e) = SavedAt(pr, l, e)
      /\ SavedAt(p2, 255, Len(pr) + 1) = 255
  OBVIOUS
<1>10. \A i \in 1 .. Len(ss) : ss[i].key \in Operator => Level(ss[i], tx) \in Nat /\ Level(ss[i], tx) <= Len(pr)
  <2>1. SUFFICES ASSUME NEW i \in 1 .. Len(ss), ss[i].key \in Operator
                 PROVE  Level(ss[i], tx) \in Nat /\ Level(ss[i], tx) <= Len(pr)
    OBVIOUS
  <2>2. ss[i].from > 0
    BY <2>1, SymbolsAre
  <2>3. Level(ss[i], tx) \in Int /\ 0 <= Level(ss[i], tx) /\ Level(ss[i], tx) <= Len(pr)
    BY <1>8, <2>2, HeightIs
  <2> QED BY <2>3
<1> HIDE DEF x
<1>11. Fits(zs[Len(zs)], ss[Len(ss)], tx, Len(pr)) /\ Climbing(ss, zs[Len(zs)], tx)
      /\ zs[Len(zs)].key = "(" /\ zs[Len(zs)].key \notin Operator
  BY <1>1, <1>2, <1>6, <1>7 DEF x
<1>12. Nested(zs, tx) /\ Height(zs, tx, Len(pr) + 1)
  BY <1>8, <1>11, NestedPush
<1>13. Len(ss) \in Nat
  BY SolidIs
<1>14. Settled(ss, tx, p2, 255, Len(p2) + 1)
  <2>1. \A i \in 1 .. Len(ss) : ss[i].key \in Operator /\ Level(ss[i], tx) < Len(p2) + 1 =>
          /\ Level(ss[i], tx) < Len(pr) + 1
          /\ SavedAt(p2, 255, Level(ss[i], tx)) = SavedAt(pr, l, Level(ss[i], tx))
    <3>1. \A e \in Nat : e <= Len(pr) => e < Len(pr) + 1
      BY <1>3
    <3> QED BY <1>9, <1>10, <3>1, ZenonT(60)
  <2> QED BY <1>8, <2>1, SettledAs
<1>15. Settled(zs, tx, p2, 255, Len(p2) + 1)
  BY <1>11, <1>13, <1>14, SettledPush
<1>16. Met(tx, p2, 255, Len(p2), Len(tx))
  <2>1. Met(tx, pr, l, Len(pr), Len(tx))
    <3>1. Len(tx) - 1 \in Nat /\ Len(tx) - 1 <= Len(tx)
      BY <1>3
    <3> QED BY <1>3, <1>8, <3>1, MetMore
  <2>2. \A d \in 0 .. Len(p2) : \/ d \in 0 .. Len(pr) /\ SavedAt(p2, 255, d) = SavedAt(pr, l, d)
                                \/ SavedAt(p2, 255, d) = 255
    <3>1. SUFFICES ASSUME NEW d \in 0 .. Len(p2), d # Len(pr) + 1
                   PROVE  d \in 0 .. Len(pr) /\ SavedAt(p2, 255, d) = SavedAt(pr, l, d)
      BY <1>9
    <3>2. d \in Nat /\ d <= Len(pr) /\ d \in 0 .. Len(pr)
      BY <1>3, <1>9, <3>1
    <3> QED BY <1>9, <3>2
  <2>3. Len(p2) \in Nat
    BY <1>3, <1>9
  <2>4. \A d \in 0 .. Len(p2) :
          \/ d \in 0 .. Len(pr) /\ SavedAt(p2, 255, d) = SavedAt(pr, l, d)
          \/ SavedAt(p2, 255, d) = 255
          \/ \E s \in At(tx, d) : s <= Len(tx) /\ Priority[tx[s]] = SavedAt(p2, 255, d)
    BY <2>2, Zenon
  <2> QED BY ONLY <1>3, <2>1, <2>3, <2>4, MetLast
<1>17. Whole(zs, tx, p2, 255, Len(tx))
  BY <1>9, <1>12, <1>15, <1>16, Zenon DEF Whole
<1> QED BY <1>2, <1>17, Zenon DEF PReading, x

-----------------------------------------------------------------------------
(* The phases, before and after a step. *)

LEMMA ReadingHas ==
  ASSUME PInv, pc = "reading"
  PROVE  /\ Bottom(symbol_stack, status_stack)
         /\ PReading(symbol_stack, text, priority_stack, last_priority)
         /\ \A a \in applied : Fine(a, text)
  BY DEF PInv, PPhases, Running

LEMMA WalkingHas ==
  ASSUME PInv, pc = "walking"
  PROVE  /\ Bottom(symbol_stack, status_stack)
         /\ ~flag => PFirst(symbol_stack, text, priority_stack, last_priority)
         /\ flag => \/ Lost(process_stack, last_priority)
                    \/ PWalk(symbol_stack, process_stack, text, priority_stack, last_priority)
         /\ \A a \in applied : Fine(a, text)
  BY DEF PInv, PPhases, Running

LEMMA ReturnedHas ==
  ASSUME PInv, pc = "returned"
  PROVE  /\ Bottom(symbol_stack, status_stack)
         /\ PReturned(symbol_stack, text, priority_stack, last_priority, flag)
         /\ \A a \in applied : Fine(a, text)
  BY DEF PInv, PPhases, Running

LEMMA ClearingHas ==
  ASSUME PInv, pc = "clearing"
  PROVE  /\ Bottom(symbol_stack, status_stack)
         /\ current_input.key # ")" =>
              /\ flag
              /\ \/ Doomed(process_stack)
                 \/ PClear(symbol_stack, process_stack, text, priority_stack, last_priority)
         /\ current_input.key = ")" =>
              /\ PInside(symbol_stack, process_stack, text, priority_stack, last_priority)
              /\ Last(symbol_stack).key \in OperandKey => Last(symbol_stack).key = "digit"
         /\ \A a \in applied : Fine(a, text)
  BY DEF PInv, PPhases, Running

LEMMA CallingHas ==
  ASSUME PInv, pc = "calling"
  PROVE  /\ Bottom(symbol_stack, status_stack)
         /\ PInside(symbol_stack, process_stack, text, priority_stack, last_priority)
         /\ \A a \in applied : Fine(a, text)
  BY DEF PInv, PPhases, Running

LEMMA ToReading ==
  ASSUME pc' = "reading", Bottom(symbol_stack', status_stack'),
         PReading(symbol_stack', text', priority_stack', last_priority'),
         \A a \in applied' : Fine(a, text')
  PROVE  PInv'
  BY DEF PInv, PPhases, StatementsComplete

LEMMA ToWalking ==
  ASSUME pc' = "walking", Bottom(symbol_stack', status_stack'),
         ~flag' => PFirst(symbol_stack', text', priority_stack', last_priority'),
         flag' => \/ Lost(process_stack', last_priority')
                  \/ PWalk(symbol_stack', process_stack', text', priority_stack', last_priority'),
         \A a \in applied' : Fine(a, text')
  PROVE  PInv'
  BY DEF PInv, PPhases, StatementsComplete

LEMMA ToReturned ==
  ASSUME pc' = "returned", Bottom(symbol_stack', status_stack'),
         PReturned(symbol_stack', text', priority_stack', last_priority', flag'),
         \A a \in applied' : Fine(a, text')
  PROVE  PInv'
  BY DEF PInv, PPhases, StatementsComplete

LEMMA ToClearing ==
  ASSUME pc' = "clearing", Bottom(symbol_stack', status_stack'), current_input'.key # ")", flag' = TRUE,
         \/ Doomed(process_stack')
         \/ PClear(symbol_stack', process_stack', text', priority_stack', last_priority'),
         \A a \in applied' : Fine(a, text')
  PROVE  PInv'
  BY DEF PInv, PPhases, StatementsComplete

LEMMA ToInside ==
  ASSUME pc' \in {"clearing", "calling"}, Bottom(symbol_stack', status_stack'), current_input'.key = ")",
         PInside(symbol_stack', process_stack', text', priority_stack', last_priority'),
         pc' = "clearing" => (Last(symbol_stack').key \in OperandKey => Last(symbol_stack').key = "digit"),
         \A a \in applied' : Fine(a, text')
  PROVE  PInv'
  BY DEF PInv, PPhases, StatementsComplete

LEMMA ToTheEnd ==
  ASSUME pc' \notin Running, pc' \notin {"done", "returns"}, \A a \in applied' : Fine(a, text')
  PROVE  PInv'
  BY DEF PInv, StatementsComplete

\* A token more, and nothing was applied.
LEMMA ReadFine ==
  ASSUME Typed, \A a \in applied : Fine(a, text), NEW k \in TextKey, Read(k), applied' = applied
  PROVE  Longer(text, text') /\ \A a \in applied' : Fine(a, text')
<1>1. text \in Seq(TextKey) /\ applied \subseteq [at : 1 .. Len(text), from : 1 .. Len(text),
                                                  to : 1 .. Len(text), grouped : BOOLEAN]
  BY DEF Typed
<1>2. text' = Append(text, k)
  BY DEF Read
<1>3. Longer(text, text')
  BY <1>1, <1>2, AppendIsLonger
<1>4. ASSUME NEW a \in applied PROVE Fine(a, text')
  <2>1. a.at \in 1 .. Len(text) /\ a.from \in 1 .. Len(text) /\ a.to \in 1 .. Len(text)
    BY <1>1
  <2> QED BY <1>3, <2>1, FineStays
<1> QED BY <1>3, <1>4

-----------------------------------------------------------------------------
(* The tokens. *)

\* What a token that is not ")" finds: text' is the longer text.
LEMMA ReadWhole ==
  ASSUME Typed, NEW b \in 2 .. 3, AtReading(b), NEW k \in TextKey, k # ")", Read(k),
         PReading(symbol_stack, text, priority_stack, last_priority)
  PROVE  /\ Solid(symbol_stack, status_stack, b, text') /\ text' \in Seq(TextKey)
         /\ Len(text') > 0 /\ Len(text) = Len(text') - 1 /\ Len(text) \in Nat /\ Len(text') \in Nat
         /\ text'[Len(text')] = k
         /\ Len(priority_stack) \in Nat /\ priority_stack \in Seq(1 .. 255) /\ last_priority \in 1 .. 255
         /\ symbol_stack[Len(symbol_stack)].to = Len(text') - 1
         /\ Whole(symbol_stack, text', priority_stack, last_priority, Len(text') - 1)
         /\ DepthIn(text', Len(text')) = Len(priority_stack)
<1>1. text' \in Seq(TextKey) /\ Len(text') = Len(text) + 1 /\ text'[Len(text')] = k /\ text' = Append(text, k)
  BY AfterRead
<1>2. \A c : Solid(symbol_stack, status_stack, c, text) => Solid(symbol_stack, status_stack, c, text')
  BY AfterRead
<1>3. text \in Seq(TextKey) /\ Len(text) \in Nat /\ priority_stack \in Seq(1 .. 255)
      /\ last_priority \in 1 .. 255
  BY TypesAre
<1>4. Solid(symbol_stack, status_stack, b, text) /\ symbol_stack[Len(symbol_stack)].to = Len(text)
  BY Zenon DEF AtReading, Base
<1>5. Longer(text, text')
  BY <1>1, <1>3, AppendIsLonger
<1>6. Whole(symbol_stack, text, priority_stack, last_priority, Len(text))
  BY Zenon DEF PReading
<1>7. Len(priority_stack) \in Nat
  BY <1>3
<1>8. text'[Len(text')] # ")"
  BY <1>1
<1>9. Whole(symbol_stack, text', priority_stack, last_priority, Len(text))
      /\ DepthIn(text', Len(text')) = Len(priority_stack)
  BY <1>1, <1>4, <1>5, <1>6, <1>7, <1>8, WholeMore
<1>10. Len(text') > 0 /\ Len(text) = Len(text') - 1 /\ Len(text') \in Nat
  BY <1>1, <1>3
<1> QED BY <1>1, <1>2, <1>3, <1>4, <1>7, <1>9, <1>10

\* symbol_stack with one more symbol on top.
LEMMA StackPushed ==
  ASSUME NEW ss, NEW st, NEW b, NEW tx \in Seq(TextKey), Solid(ss, st, b, tx), Bottom(ss, st),
         NEW x \in Symbols, x.from # 0, NEW s
  PROVE  /\ Len(Append(ss, x)) = Len(ss) + 1 /\ Append(ss, x)[Len(Append(ss, x))] = x
         /\ \A i \in 1 .. Len(ss) : Append(ss, x)[i] = ss[i]
         /\ Bottom(Append(ss, x), Append(st, s))
<1>1. ss \in Seq(Symbols) /\ st \in Seq(Statuses) /\ Len(st) = Len(ss) /\ Len(ss) \in Nat /\ b \in 2 .. 3 /\ b <= Len(ss)
  BY SolidIs
<1>2. Len(Append(ss, x)) = Len(ss) + 1 /\ Append(ss, x)[Len(ss) + 1] = x
      /\ \A i \in 1 .. Len(ss) : Append(ss, x)[i] = ss[i]
  BY <1>1, PushIs
<1>3. \A i \in 1 .. Len(ss) : Append(st, s)[i] = st[i]
  BY <1>1
<1>4. Len(ss) >= 2
  BY <1>1
<1> DEFINE zs == Append(ss, x)
           zt == Append(st, s)
<1>5. Len(zs) = Len(ss) + 1 /\ zs[Len(zs)] = x
  BY <1>2
<1>6. zs[Len(zs)].from # 0
  BY <1>5
<1> HIDE DEF zs, zt
<1>7. (\A i \in 1 .. Len(ss) : zs[i] = ss[i]) /\ (\A i \in 1 .. Len(ss) : zt[i] = st[i])
  BY <1>2, <1>3 DEF zs, zt
<1>8. Bottom(zs, zt)
  BY <1>1, <1>4, <1>5, <1>6, <1>7, BottomPush
<1> QED BY <1>5, <1>7, <1>8 DEF zs, zt

LEMMA TokenSymbol ==
  ASSUME NEW k \in TextKey, NEW n \in Nat, n > 0
  PROVE  Symbol(k, n, n) \in Symbols /\ Symbol(k, n, n).from # 0
<1>1. k \in Key
  BY Keys
<1> QED BY <1>1 DEF Symbol, Symbols

LEMMA PrecShift == ASSUME EInv, PInv, shift PROVE PInv'
<1>1. Typed /\ pc = "reading" /\ \E b \in 2 .. 3 : AtReading(b)
  BY ReadingIs, Zenon DEF shift, Read
<1>2. PICK b \in 2 .. 3 : AtReading(b)
  BY <1>1
<1>3. PICK k \in Operand : Read(k)
  BY DEF shift
<1>4. k \in TextKey /\ k \in {"id", "digit"} /\ k # ")"
  <2>1. k \in TextKey /\ k \in {"id", "digit"}
    BY TextAssumption, Zenon DEF TextKey
  <2> QED BY <2>1
<1>5. /\ Bottom(symbol_stack, status_stack)
      /\ PReading(symbol_stack, text, priority_stack, last_priority)
      /\ \A a \in applied : Fine(a, text)
  BY <1>1, ReadingHas
<1>6. /\ current_input' = Symbol(k, Len(text'), Len(text')) /\ current_input'.key = k
  BY <1>1, <1>3, <1>4, AfterRead
<1>7. /\ ShiftTo[Last(status_stack)][k] = 2
      /\ symbol_stack' = Append(symbol_stack, current_input') /\ status_stack' = Append(status_stack, 2)
      /\ UNCHANGED <<priority_stack, last_priority, pc, applied>>
  BY <1>6, Zenon DEF shift, Pushed
<1>8. /\ Solid(symbol_stack, status_stack, b, text') /\ text' \in Seq(TextKey)
      /\ Len(text') > 0 /\ Len(text') \in Nat /\ text'[Len(text')] = k
      /\ Len(priority_stack) \in Nat
      /\ Whole(symbol_stack, text', priority_stack, last_priority, Len(text') - 1)
      /\ DepthIn(text', Len(text')) = Len(priority_stack)
  BY <1>1, <1>2, <1>3, <1>4, <1>5, ReadWhole
<1>9. current_input' \in Symbols /\ current_input'.from # 0
  BY <1>4, <1>6, <1>8, TokenSymbol
<1>10. /\ Len(symbol_stack') = Len(symbol_stack) + 1
       /\ symbol_stack'[Len(symbol_stack')] = current_input'
       /\ \A i \in 1 .. Len(symbol_stack) : symbol_stack'[i] = symbol_stack[i]
       /\ Bottom(symbol_stack', status_stack')
  BY <1>5, <1>7, <1>8, <1>9, StackPushed
<1>11. symbol_stack[Len(symbol_stack)].key \notin OperandKey
  <2>1. SUFFICES ASSUME symbol_stack[Len(symbol_stack)].key \in OperandKey PROVE FALSE
    OBVIOUS
  <2>2. Len(symbol_stack) \in 1 .. Len(symbol_stack) /\ Len(status_stack) = Len(symbol_stack)
    BY <1>8, SolidIs
  <2>3. symbol_stack[Len(symbol_stack)].from > 0
    BY <1>8, <2>1, <2>2, SymbolsAre
  <2>4. Len(symbol_stack) \in b + 1 .. Len(symbol_stack)
    BY <1>8, <2>2, <2>3, SymbolsAre
  <2>5. status_stack[Len(symbol_stack)] = 2
    BY <1>8, <2>1, <2>4, PlacedIs
  <2>6. Last(status_stack) = 2
    BY <2>2, <2>5 DEF Last
  <2> QED BY <1>4, <1>7, <2>6, NoShift
<1>12. PReading(symbol_stack', text', priority_stack, last_priority)
  <2>1. symbol_stack'[Len(symbol_stack')] = Symbol(text'[Len(text')], Len(text'), Len(text'))
    BY <1>6, <1>8, <1>10
  <2>2. text'[Len(text')] \in {"id", "digit"}
    BY <1>4, <1>8
  <2> QED BY <1>8, <1>10, <1>11, <2>1, <2>2, OperandPushed
<1>13. \A a \in applied' : Fine(a, text')
  BY <1>1, <1>3, <1>4, <1>5, <1>7, ReadFine
<1> QED BY <1>1, <1>7, <1>10, <1>12, <1>13, ToReading

LEMMA PrecEnter == ASSUME EInv, PInv, enter_parentheses PROVE PInv'
<1>1. Typed /\ pc = "reading" /\ \E b \in 2 .. 3 : AtReading(b)
  BY ReadingIs, Zenon DEF enter_parentheses, Read
<1>2. PICK b \in 2 .. 3 : AtReading(b)
  BY <1>1
<1>3. /\ Read("(")
      /\ symbol_stack' = Append(symbol_stack, current_input') /\ status_stack' = Append(status_stack, 7)
      /\ priority_stack' = Append(priority_stack, last_priority) /\ last_priority' = 255
      /\ UNCHANGED <<pc, applied>>
  BY Zenon DEF enter_parentheses, Pushed
<1>4. "(" \in TextKey /\ "(" # ")"
  BY DEF TextKey
<1>5. /\ Bottom(symbol_stack, status_stack)
      /\ PReading(symbol_stack, text, priority_stack, last_priority)
      /\ \A a \in applied : Fine(a, text)
  BY <1>1, ReadingHas
<1>6. current_input' = Symbol("(", Len(text'), Len(text'))
  BY <1>1, <1>3, <1>4, AfterRead
<1>8. /\ Solid(symbol_stack, status_stack, b, text') /\ text' \in Seq(TextKey)
      /\ Len(text') > 0 /\ Len(text') \in Nat /\ text'[Len(text')] = "("
      /\ Len(priority_stack) \in Nat /\ priority_stack \in Seq(1 .. 255) /\ last_priority \in 1 .. 255
      /\ Whole(symbol_stack, text', priority_stack, last_priority, Len(text') - 1)
      /\ DepthIn(text', Len(text')) = Len(priority_stack)
  BY <1>1, <1>2, <1>3, <1>4, <1>5, ReadWhole
<1>9. current_input' \in Symbols /\ current_input'.from # 0
  BY <1>4, <1>6, <1>8, TokenSymbol
<1>10. /\ Len(symbol_stack') = Len(symbol_stack) + 1
       /\ symbol_stack'[Len(symbol_stack')] = current_input'
       /\ \A i \in 1 .. Len(symbol_stack) : symbol_stack'[i] = symbol_stack[i]
       /\ Bottom(symbol_stack', status_stack')
  BY <1>3, <1>5, <1>8, <1>9, StackPushed
<1>11. /\ Len(priority_stack') = Len(priority_stack) + 1
       /\ \A e \in Nat : e <= Len(priority_stack) =>
            SavedAt(priority_stack', 255, e) = SavedAt(priority_stack, last_priority, e)
       /\ SavedAt(priority_stack', 255, Len(priority_stack) + 1) = 255
  <2>1. /\ Len(priority_stack') = Len(priority_stack) + 1
        /\ \A i \in 1 .. Len(priority_stack) : priority_stack'[i] = priority_stack[i]
        /\ priority_stack'[Len(priority_stack) + 1] = last_priority
    BY <1>3, <1>8, PushIs
  <2>2. Len(priority_stack) \in Nat
    BY <1>8
  <2> QED BY ONLY <2>1, <2>2, SavedEnter
<1>12. PReading(symbol_stack', text', priority_stack', 255)
  <2>1. symbol_stack'[Len(symbol_stack')] = Symbol(text'[Len(text')], Len(text'), Len(text'))
    BY <1>6, <1>8, <1>10
  <2> QED BY <1>8, <1>10, <1>11, <2>1, ParenthesisPushed, SMTT(30)
<1>13. \A a \in applied' : Fine(a, text')
  BY <1>1, <1>3, <1>4, <1>5, ReadFine
<1> QED BY <1>1, <1>3, <1>10, <1>12, <1>13, ToReading

\* The operator below the top has left its priority, or a tighter one is in front of it.
LEMMA SettledBelow ==
  ASSUME NEW ss, NEW st, NEW b, NEW tx \in Seq(TextKey), Solid(ss, st, b, tx),
         NEW pr, Len(pr) \in Nat, NEW l, Settled(ss, tx, pr, l, Len(pr) + 1),
         ss[Len(ss) - 1].key \in Operator, Level(ss[Len(ss) - 1], tx) = Len(pr)
  PROVE  Left(ss[Len(ss) - 1], tx, l)
<1> DEFINE m == Len(ss)
           z == ss[m - 1]
<1>1. m \in Nat /\ m >= 2
  <2>1. Len(ss) \in Nat /\ b \in 2 .. 3 /\ b <= Len(ss)
    BY SolidIs
  <2> QED BY <2>1
<1>2. m - 1 \in 1 .. Len(ss) /\ (m - 1) + 2 .. Len(ss) = {}
  BY <1>1
<1>3. Ending(ss, tx, m - 1)
  BY <1>2, Zenon DEF Ending
<1>4. Level(z, tx) < Len(pr) + 1
  OBVIOUS
<1>5. Left(z, tx, SavedAt(pr, l, Level(z, tx)))
  BY <1>2, <1>3, <1>4, SettledIs
<1> QED BY <1>5, SavedHere

LEMMA PrecPush == ASSUME EInv, PInv, push_operator PROVE PInv'
<1>1. Typed /\ pc = "reading" /\ \E b \in 2 .. 3 : AtReading(b)
  BY ReadingIs, Zenon DEF push_operator, Read
<1>2. PICK b \in 2 .. 3 : AtReading(b)
  BY <1>1
<1>3. PICK k \in Operator : Read(k)
  BY DEF push_operator
<1>4. k \in TextKey /\ k # ")"
  BY Keys, Zenon DEF TextKey
<1>5. /\ Bottom(symbol_stack, status_stack)
      /\ PReading(symbol_stack, text, priority_stack, last_priority)
      /\ \A a \in applied : Fine(a, text)
  BY <1>1, ReadingHas
<1>6. /\ current_input' = Symbol(k, Len(text'), Len(text')) /\ current_input'.key = k
  BY <1>1, <1>3, <1>4, AfterRead
<1>7. /\ Row("check_priority") /\ Priority[k] <= last_priority /\ last_priority' = Priority[k]
      /\ symbol_stack' = Append(symbol_stack, current_input') /\ status_stack' = Append(status_stack, 7)
      /\ UNCHANGED <<priority_stack, pc, applied>>
  BY <1>6, Zenon DEF push_operator, Pushed
<1>8. /\ Solid(symbol_stack, status_stack, b, text') /\ text' \in Seq(TextKey)
      /\ Len(text') > 0 /\ Len(text') \in Nat /\ text'[Len(text')] = k
      /\ Len(priority_stack) \in Nat /\ last_priority \in 1 .. 255
      /\ symbol_stack[Len(symbol_stack)].to = Len(text') - 1
      /\ Whole(symbol_stack, text', priority_stack, last_priority, Len(text') - 1)
      /\ DepthIn(text', Len(text')) = Len(priority_stack)
  BY <1>1, <1>2, <1>3, <1>4, <1>5, ReadWhole
<1>9. current_input' \in Symbols /\ current_input'.from # 0
  BY <1>4, <1>6, <1>8, TokenSymbol
<1>10. /\ Len(symbol_stack') = Len(symbol_stack) + 1
       /\ symbol_stack'[Len(symbol_stack')] = current_input'
       /\ \A i \in 1 .. Len(symbol_stack) : symbol_stack'[i] = symbol_stack[i]
       /\ Bottom(symbol_stack', status_stack')
  BY <1>5, <1>7, <1>8, <1>9, StackPushed
<1> DEFINE x == symbol_stack[Len(symbol_stack)]
           z == symbol_stack[Len(symbol_stack) - 1]
           d == Len(priority_stack)
<1>11. Len(symbol_stack) > b /\ x.key \in OperandKey
  <2>1. status_stack[Len(status_stack)] = 2
    BY <1>2, <1>4, <1>6, <1>7, RowIs
  <2> QED BY <1>8, <2>1, StatusOnTop
<1>12. /\ Nested(symbol_stack, text') /\ Height(symbol_stack, text', d)
       /\ Settled(symbol_stack, text', priority_stack, last_priority, d + 1)
       /\ Met(text', priority_stack, last_priority, d, Len(text') - 1)
  BY <1>8, Zenon DEF Whole
<1>13. Kept(text', d, x.from, x.to, k)
  <2>1. None(text, d, x.from, x.to)
    BY <1>5, <1>11, Zenon DEF PReading
  <2>2. Longer(text, text')
    BY <1>1, <1>3, <1>4, <1>5, <1>7, ReadFine
  <2>3. x.to \in Nat /\ x.to <= Len(text)
    <3>1. Len(symbol_stack) \in 1 .. Len(symbol_stack)
      BY <1>8, SolidIs
    <3>2. Solid(symbol_stack, status_stack, b, text) /\ text \in Seq(TextKey)
      BY <1>1, <1>2, TypesAre, Zenon DEF AtReading, Base
    <3> QED BY <3>1, <3>2, SymbolIs
  <2>4. None(text', d, x.from, x.to)
    BY <2>1, <2>2, <2>3, NoneStays
  <2> QED BY <2>4, KeptNone
<1>14. Firm(symbol_stack, text', d, k, Len(text'))
  <2>1. SUFFICES ASSUME z.key \in Operator, Level(z, text') = d
                 PROVE  Priority[k] <= Priority[z.key] \/ Tighter(text', d, Len(text'), Priority[z.key])
    BY Zenon DEF Firm
  <2>2. Left(z, text', last_priority)
    BY <1>8, <1>12, <2>1, SettledBelow
  <2>3. last_priority = Priority[z.key] \/ Tighter(text', d, z.from, Priority[z.key])
    BY <2>1, <2>2, Zenon DEF Left
  <2>4. z.from \in Nat /\ z.from <= Len(text')
    <3>1. Len(symbol_stack) - 1 \in 1 .. Len(symbol_stack)
      <4>1. Len(symbol_stack) \in Nat /\ b \in 2 .. 3
        BY <1>8, SolidIs
      <4> QED BY <1>11, <4>1
    <3>2. z.from \in Nat /\ z.to \in Nat /\ z.from <= z.to /\ z.to <= Len(text')
      BY <1>8, <3>1, SymbolIs
    <3> QED BY <1>8, <3>2
  <2>5. Priority[z.key] \in Nat
    BY <2>1, OperatorsRank
  <2>6. Tighter(text', d, z.from, Priority[z.key]) => Tighter(text', d, Len(text'), Priority[z.key])
    BY <1>8, <2>4, <2>5, TighterUp
  <2> QED BY <1>7, <2>3, <2>6
<1>15. Met(text', priority_stack, Priority[k], d, Len(text'))
  <2>1. Met(text', priority_stack, last_priority, d, Len(text'))
    <3>1. Len(text') - 1 \in Nat /\ Len(text') - 1 <= Len(text')
      BY <1>8
    <3> QED BY <1>8, <1>12, <3>1, MetMore
  <2>2. Len(text') \in At(text', d) /\ Len(text') <= Len(text')
    BY <1>8 DEF At
  <2>3. \A e \in 0 .. d : e # d =>
          SavedAt(priority_stack, Priority[k], e) = SavedAt(priority_stack, last_priority, e)
    BY SavedSame
  <2>4. SavedAt(priority_stack, Priority[k], d) = Priority[k]
    BY SavedHere
  <2>5. \A e \in 0 .. d :
          \/ e \in 0 .. d /\ SavedAt(priority_stack, Priority[k], e) = SavedAt(priority_stack, last_priority, e)
          \/ SavedAt(priority_stack, Priority[k], e) = 255
          \/ \E s \in At(text', e) : s <= Len(text') /\ Priority[text'[s]] = SavedAt(priority_stack, Priority[k], e)
    BY <1>8, <2>2, <2>3, <2>4
  <2> HIDE DEF d
  <2>6. d \in Nat
    BY <1>8 DEF d
  <2> QED BY ONLY <2>1, <2>5, <2>6, MetLast
<1>16. PReading(symbol_stack', text', priority_stack, Priority[k])
  <2>1. symbol_stack'[Len(symbol_stack')] = Symbol(text'[Len(text')], Len(text'), Len(text'))
    BY <1>6, <1>8, <1>10
  <2>2. text'[Len(text')] \in Operator
    BY <1>8
  <2>3. Settled(symbol_stack, text', priority_stack, last_priority, d)
    <3>1. \A i \in 1 .. Len(symbol_stack) : symbol_stack[i].key \in Operator => Level(symbol_stack[i], text') \in Int
      BY <1>8, SymbolsAre
    <3>2. \A i \in 1 .. Len(symbol_stack) : symbol_stack[i].key \in Operator /\ Level(symbol_stack[i], text') < d =>
            Level(symbol_stack[i], text') < d + 1
      BY <1>8, <3>1
    <3> QED BY <1>12, <3>2, SettledAs
  <2>4. Kept(text', d, x.from, x.to, text'[Len(text')]) /\ Firm(symbol_stack, text', d, text'[Len(text')], Len(text'))
        /\ Priority[k] = Priority[text'[Len(text')]]
    BY <1>8, <1>13, <1>14
  <2> QED BY <1>8, <1>10, <1>11, <1>12, <1>15, <2>1, <2>2, <2>3, <2>4, OperatorPushed
<1>17. \A a \in applied' : Fine(a, text')
  BY <1>1, <1>3, <1>4, <1>5, <1>7, ReadFine
<1> QED BY <1>1, <1>7, <1>10, <1>16, <1>17, ToReading

\* Another last_priority.
LEMMA SettledOther ==
  ASSUME NEW ss, NEW st, NEW b, NEW tx \in Seq(TextKey), Solid(ss, st, b, tx),
         NEW pr, Len(pr) \in Nat, NEW l, NEW n \in {Len(pr), Len(pr) + 1}, Settled(ss, tx, pr, l, n), NEW l2
  PROVE  Settled(ss, tx, pr, l2, Len(pr))
<1>1. \A i \in 1 .. Len(ss) : ss[i].key \in Operator => Level(ss[i], tx) \in Int
  BY SymbolsAre
<1>2. \A i \in 1 .. Len(ss) : ss[i].key \in Operator /\ Level(ss[i], tx) < Len(pr) =>
        Level(ss[i], tx) < n /\ Level(ss[i], tx) # Len(pr)
  BY <1>1
<1>3. \A e : e # Len(pr) => SavedAt(pr, l2, e) = SavedAt(pr, l, e)
  BY SavedSame
<1>4. \A i \in 1 .. Len(ss) : ss[i].key \in Operator /\ Level(ss[i], tx) < Len(pr) =>
        Level(ss[i], tx) < n /\ SavedAt(pr, l2, Level(ss[i], tx)) = SavedAt(pr, l, Level(ss[i], tx))
  BY <1>2, <1>3
<1> QED BY ONLY <1>4, SettledAs, Settled(ss, tx, pr, l, n)

LEMMA MetOther ==
  ASSUME NEW tx, NEW pr, Len(pr) \in Nat, NEW l, NEW m, Met(tx, pr, l, Len(pr), m), NEW l2,
         NEW s \in At(tx, Len(pr)), s <= m, l2 = Priority[tx[s]]
  PROVE  Met(tx, pr, l2, Len(pr), m)
<1> DEFINE d == Len(pr)
<1>1. \A e \in 0 .. d : e # d => SavedAt(pr, l2, e) = SavedAt(pr, l, e)
  BY SavedSame
<1>2. SavedAt(pr, l2, d) = Priority[tx[s]]
  BY SavedHere
<1>3. \A e \in 0 .. d : \/ e \in 0 .. d /\ SavedAt(pr, l2, e) = SavedAt(pr, l, e)
                        \/ SavedAt(pr, l2, e) = 255
                        \/ \E q \in At(tx, e) : q <= m /\ Priority[tx[q]] = SavedAt(pr, l2, e)
  BY <1>1, <1>2
<1>4. d \in Nat /\ Met(tx, pr, l, d, m)
  OBVIOUS
<1> HIDE DEF d
<1>5. Met(tx, pr, l2, d, m)
  BY ONLY <1>3, <1>4, MetLast
<1> QED BY <1>5 DEF d

LEMMA PrecSolve == ASSUME EInv, PInv, solve_first PROVE PInv'
<1>1. Typed /\ pc = "reading" /\ \E b \in 2 .. 3 : AtReading(b)
  BY ReadingIs, Zenon DEF solve_first, Read
<1>2. PICK b \in 2 .. 3 : AtReading(b)
  BY <1>1
<1>3. PICK k \in Operator \cup {"SEMICOLON"} : Read(k)
  BY DEF solve_first
<1>4. k \in TextKey /\ k # ")"
  BY GroundKeys DEF TextKey
<1>5. /\ Bottom(symbol_stack, status_stack)
      /\ PReading(symbol_stack, text, priority_stack, last_priority)
      /\ \A a \in applied : Fine(a, text)
  BY <1>1, ReadingHas
<1>6. /\ current_input' = Symbol(k, Len(text'), Len(text')) /\ current_input'.key = k
  BY <1>1, <1>3, <1>4, AfterRead
<1>7. /\ Row("check_priority") /\ (k # "SEMICOLON" => Priority[k] > last_priority)
      /\ pc' = "walking" /\ flag' = FALSE
      /\ UNCHANGED <<symbol_stack, status_stack, priority_stack, last_priority, applied>>
  BY <1>6, Zenon DEF solve_first, Call
<1>8. /\ Solid(symbol_stack, status_stack, b, text') /\ text' \in Seq(TextKey)
      /\ Len(text') > 0 /\ Len(text') \in Nat /\ text'[Len(text')] = k
      /\ Len(priority_stack) \in Nat /\ last_priority \in 1 .. 255
      /\ Whole(symbol_stack, text', priority_stack, last_priority, Len(text') - 1)
  BY <1>1, <1>2, <1>3, <1>4, <1>5, ReadWhole
<1> DEFINE x == symbol_stack[Len(symbol_stack)]
           d == Len(priority_stack)
<1>9. x.key \in OperandKey
  <2>1. status_stack[Len(status_stack)] = 2
    BY <1>2, <1>4, <1>6, <1>7, RowIs
  <2> QED BY <1>8, <2>1, StatusOnTop
<1>10. None(text', d, x.from, x.to)
  <2>1. None(text, d, x.from, x.to)
    BY <1>5, <1>9, Zenon DEF PReading
  <2>2. Longer(text, text')
    BY <1>1, <1>3, <1>4, <1>5, <1>7, ReadFine
  <2>3. x.to \in Nat /\ x.to <= Len(text)
    <3>1. Len(symbol_stack) \in 1 .. Len(symbol_stack)
      BY <1>8, SolidIs
    <3>2. Solid(symbol_stack, status_stack, b, text) /\ text \in Seq(TextKey)
      BY <1>1, <1>2, TypesAre, Zenon DEF AtReading, Base
    <3> QED BY <3>1, <3>2, SymbolIs
  <2> QED BY <2>1, <2>2, <2>3, NoneStays
<1>11. k \in Operator => last_priority < Priority[k] /\ Priority[k] \in Nat /\ Priority[k] <= 255
  BY <1>7, GroundKeys, OperatorsRank
<1>12. Loose(text', d)
  <2>1. SUFFICES ASSUME k \in Operator PROVE Tighter(text', d, Len(text'), Priority[k])
    BY <1>8 DEF Loose
  <2>2. Met(text', priority_stack, last_priority, d, Len(text') - 1)
    BY <1>8, Zenon DEF Whole
  <2>3. d \in 0 .. d
    BY <1>8
  <2>4. \/ last_priority = 255
        \/ \E s \in At(text', d) : s <= Len(text') - 1 /\ Priority[text'[s]] = last_priority
    BY <2>2, <2>3, SavedHere DEF Met
  <2>5. last_priority # 255
    BY <1>8, <1>11, <2>1
  <2>6. PICK s \in At(text', d) : s <= Len(text') - 1 /\ Priority[text'[s]] = last_priority
    BY <2>4, <2>5
  <2>7. s < Len(text') /\ Priority[text'[s]] < Priority[k]
    BY <1>8, <1>11, <2>1, <2>6, OperatorsArePlaces
  <2> QED BY <2>7, TighterBy
<1>13. PFirst(symbol_stack, text', priority_stack, last_priority)
  BY <1>8, <1>10, <1>11, <1>12, Zenon DEF PFirst
<1>14. \A a \in applied' : Fine(a, text')
  BY <1>1, <1>3, <1>4, <1>5, <1>7, ReadFine
<1>15. Bottom(symbol_stack', status_stack')
       /\ PFirst(symbol_stack', text', priority_stack', last_priority')
  BY <1>5, <1>7, <1>13
<1> QED BY <1>7, <1>14, <1>15, ToWalking

LEMMA PrecLoop == ASSUME EInv, PInv, loop PROVE PInv'
<1>1. pc = "returned" /\ current_input.key = "SEMICOLON" /\ pc' = "walking" /\ flag' = FALSE
      /\ UNCHANGED <<symbol_stack, status_stack, priority_stack, last_priority, applied, text>>
  BY Zenon DEF loop, Call
<1>2. /\ Bottom(symbol_stack, status_stack)
      /\ PReturned(symbol_stack, text, priority_stack, last_priority, flag)
      /\ \A a \in applied : Fine(a, text)
  BY <1>1, ReturnedHas
<1>3. text[Len(text)] = "SEMICOLON"
  <2>1. PICK b \in 2 .. 3 : AtReturned(b)
    BY <1>1, ReturnedIs
  <2>2. current_input = Symbol(text[Len(text)], Len(text), Len(text))
    BY <2>1, Zenon DEF AtReturned, Busy
  <2> QED BY <1>1, <2>2 DEF Symbol
<1>4. text[Len(text)] \notin Operator
  BY <1>3, GroundKeys
<1>5. PFirst(symbol_stack, text, priority_stack, last_priority)
  BY <1>2, <1>4, Zenon DEF PReturned, PFirst
<1>6. Bottom(symbol_stack', status_stack')
      /\ PFirst(symbol_stack', text', priority_stack', last_priority')
      /\ \A a \in applied' : Fine(a, text')
  BY <1>1, <1>2, <1>5
<1> QED BY <1>1, <1>6, ToWalking

\* What is known when back_ward_solve_expr has returned.
LEMMA ReturnedStack ==
  ASSUME EInv, pc = "returned"
  PROVE  /\ text \in Seq(TextKey) /\ Len(text) \in Nat /\ Len(text) > 0
         /\ current_input = Symbol(text[Len(text)], Len(text), Len(text))
         /\ text[Len(text)] \in Operator \cup {"SEMICOLON"}
         /\ priority_stack \in Seq(1 .. 255) /\ Len(priority_stack) \in Nat /\ last_priority \in 1 .. 255
         /\ \E b \in 2 .. 3 : /\ Solid(symbol_stack, status_stack, b, text) /\ Len(symbol_stack) > b
                              /\ symbol_stack[Len(symbol_stack)].key \in OperandKey
                              /\ symbol_stack[Len(symbol_stack)].to = Len(text) - 1
<1>1. Typed
  BY ReturnedIs
<1>2. PICK b \in 2 .. 3 : AtReturned(b)
  BY ReturnedIs
<1>3. /\ Solid(symbol_stack, status_stack, b, text) /\ Busy(Ends)
      /\ status_stack[Len(status_stack)] = 2
      /\ symbol_stack[Len(symbol_stack)].to = Len(text) - 1
  BY <1>2, Zenon DEF AtReturned, Base
<1>4. Len(symbol_stack) > b /\ symbol_stack[Len(symbol_stack)].key \in OperandKey
  BY <1>3, StatusOnTop
<1>5. text \in Seq(TextKey) /\ Len(text) \in Nat /\ priority_stack \in Seq(1 .. 255) /\ last_priority \in 1 .. 255
  BY <1>1, TypesAre
<1>6. Len(priority_stack) \in Nat
  BY <1>5
<1> QED BY <1>3, <1>4, <1>5, <1>6 DEF Busy, Ends

LEMMA PrecPushAfter == ASSUME EInv, PInv, push_after_step PROVE PInv'
<1>1. /\ pc = "returned" /\ current_input.key # "SEMICOLON" /\ pc' = "reading"
      /\ symbol_stack' = Append(symbol_stack, current_input) /\ status_stack' = Append(status_stack, 7)
      /\ UNCHANGED <<priority_stack, last_priority, applied, text>>
  BY Zenon DEF push_after_step, Pushed
<1>2. /\ Bottom(symbol_stack, status_stack)
      /\ PReturned(symbol_stack, text, priority_stack, last_priority, flag)
      /\ \A a \in applied : Fine(a, text)
  BY <1>1, ReturnedHas
<1>3. /\ text \in Seq(TextKey) /\ Len(text) \in Nat /\ Len(text) > 0
      /\ current_input = Symbol(text[Len(text)], Len(text), Len(text))
      /\ text[Len(text)] \in Operator \cup {"SEMICOLON"}
      /\ Len(priority_stack) \in Nat
  BY <1>1, ReturnedStack
<1> DEFINE x == symbol_stack[Len(symbol_stack)]
           y == symbol_stack[Len(symbol_stack) - 1]
           d == Len(priority_stack)
<1>4. PICK b \in 2 .. 3 :
        /\ Solid(symbol_stack, status_stack, b, text) /\ Len(symbol_stack) > b
        /\ x.key \in OperandKey /\ x.to = Len(text) - 1
  BY <1>1, ReturnedStack
<1>5. text[Len(text)] \in Operator
  <2>1. current_input.key = text[Len(text)]
    BY <1>3 DEF Symbol
  <2> QED BY <1>1, <1>3, <2>1
<1>6. /\ Whole(symbol_stack, text, priority_stack, last_priority, Len(text) - 1) /\ Loose(text, d)
      /\ Kept(text, d, x.from, x.to, text[Len(text)])
      /\ y.key \in Operator => Tighter(text, d, Len(text), Priority[y.key])
  BY <1>2, Zenon DEF PReturned
<1>7. /\ Nested(symbol_stack, text) /\ Height(symbol_stack, text, d)
      /\ Settled(symbol_stack, text, priority_stack, last_priority, d + 1)
      /\ Met(text, priority_stack, last_priority, d, Len(text) - 1)
  BY <1>6, Zenon DEF Whole
<1>8. DepthIn(text, Len(text)) = d
  <2>1. \A p : p = x.to + 1 => (text[p] # ")" => DepthIn(text, p) = d)
    BY <1>3, <1>4, <1>7, LongerSame, NextDepth
  <2>2. Len(text) = x.to + 1 /\ text[Len(text)] # ")"
    BY <1>3, <1>4, <1>5, GroundKeys
  <2> QED BY <2>1, <2>2
<1>9. current_input \in Symbols /\ current_input.from # 0
  <2>1. text[Len(text)] \in TextKey
    BY <1>5 DEF TextKey
  <2> QED BY <1>3, <2>1, TokenSymbol
<1>10. /\ Len(symbol_stack') = Len(symbol_stack) + 1
       /\ symbol_stack'[Len(symbol_stack')] = current_input
       /\ \A i \in 1 .. Len(symbol_stack) : symbol_stack'[i] = symbol_stack[i]
       /\ Bottom(symbol_stack', status_stack')
  BY <1>1, <1>2, <1>3, <1>4, <1>9, StackPushed
<1>11. Firm(symbol_stack, text, d, text[Len(text)], Len(text))
  BY <1>6, Zenon DEF Firm
<1>12. Met(text, priority_stack, last_priority, d, Len(text))
  <2>1. Len(text) - 1 \in Nat /\ Len(text) - 1 <= Len(text)
    BY <1>3
  <2> QED BY <1>3, <1>7, <2>1, MetMore
<1>13. Settled(symbol_stack, text, priority_stack, last_priority, d)
  BY <1>3, <1>4, <1>7, SettledOther
<1>14. Tighter(text, d, Len(text), Priority[text[Len(text)]])
  BY <1>5, <1>6, Zenon DEF Loose
<1>15. PReading(symbol_stack', text, priority_stack, last_priority)
  <2>1. symbol_stack'[Len(symbol_stack')] = Symbol(text[Len(text)], Len(text), Len(text))
    BY <1>3, <1>10
  <2> QED BY <1>3, <1>4, <1>5, <1>6, <1>7, <1>8, <1>10, <1>11, <1>12, <1>13, <1>14, <2>1, OperatorPushed
<1>16. PReading(symbol_stack', text', priority_stack', last_priority')
       /\ \A a \in applied' : Fine(a, text')
  BY <1>1, <1>2, <1>15
<1> QED BY <1>1, <1>10, <1>16, ToReading

-----------------------------------------------------------------------------
(* reduce_rparenthese. *)

\* What stands behind the last "(" has the depth of the next token.
LEMMA BehindThe ==
  ASSUME NEW ss, NEW st, NEW b, NEW tx \in Seq(TextKey), Solid(ss, st, b, tx), Nested(ss, tx),
         NEW n, Height(ss, tx, n), ss[Len(ss)].key \in OperandKey, NEW q \in 1 .. Len(ss),
         ss[q].key = "(", \A i \in q + 1 .. Len(ss) : ss[i].key # "("
  PROVE  /\ q \in 2 .. Len(ss) /\ q < Len(ss) /\ ss[q].from > 0 /\ ss[Len(ss)].from > 0
         /\ q - 1 >= b /\ n \in Int /\ n >= 0
         /\ Level(ss[q], tx) = n - 1 /\ \A i \in q + 1 .. Len(ss) : Level(ss[i], tx) = n
<1> DEFINE m == Len(ss)
<1>1. m \in Nat /\ m \in 1 .. Len(ss) /\ b \in 2 .. 3 /\ b <= m
  <2>1. Len(ss) \in Nat /\ b \in 2 .. 3 /\ b <= Len(ss)
    BY SolidIs
  <2> QED BY <2>1
<1>2. ss[m].key # "(" /\ q # m
  BY GroundKeys
<1>3. ss[q].from > 0 /\ ss[m].from > 0 /\ q \in b + 1 .. Len(ss)
  BY <1>1, SymbolsAre
<1>4. q > b + 1
  BY <1>3, PlacedIs
<1>5. q \in 2 .. Len(ss) /\ q < m /\ q + 1 \in 2 .. Len(ss) /\ q + 1 \in q + 1 .. Len(ss)
      /\ (q + 1) - 1 = q /\ q - 1 >= b
  BY <1>1, <1>2, <1>4
<1>6. n = Level(ss[m], tx)
  BY <1>2, <1>3 DEF Height
<1>7. n \in Int /\ n >= 0 /\ Level(ss[q], tx) \in Int
  BY <1>3, HeightIs
<1>8. ASSUME NEW i \in q + 1 .. Len(ss) PROVE Level(ss[i], tx) = n
  <2>1. CASE i = m
    BY <1>6, <2>1
  <2>2. CASE i # m
    <3>1. i \in 1 .. m - 1 /\ i > b /\ i \in 1 .. Len(ss)
      BY <1>1, <1>5, <2>2
    <3>2. ss[i].from > 0
      BY <3>1, SymbolsAre
    <3>3. \A k \in i .. m - 1 : k \in q + 1 .. Len(ss)
      BY <1>1, <1>5
    <3>4. \A k \in i .. m - 1 : ss[k].key # "("
      BY <3>3
    <3>5. Level(ss[i], tx) = Level(ss[m], tx)
      BY <1>1, <3>1, <3>2, <3>4, NestedIs
    <3> QED BY <1>6, <3>5
  <2> QED BY <2>1, <2>2
<1>9. Level(ss[q + 1], tx) = Level(ss[q], tx) + 1
  <2>1. q + 1 \in 1 .. Len(ss) /\ q + 1 > b
    <3>1. b \in 2 .. 3 /\ q \in Nat /\ q - 1 >= b /\ q + 1 \in 2 .. Len(ss) /\ Len(ss) \in Nat
      BY <1>1, <1>5
    <3> QED BY ONLY <3>1
  <2>2. ss[q + 1].from > 0
    BY <2>1, SymbolsAre
  <2>3. OnTop(ss[q], ss[q + 1], tx)
    <3> DEFINE i == q + 1
    <3>1. i \in 2 .. Len(ss) /\ i - 1 = q /\ ss[i].from > 0
      BY <1>5, <2>2
    <3> HIDE DEF i
    <3>2. OnTop(ss[i - 1], ss[i], tx)
      BY <3>1, Pairs
    <3>3. OnTop(ss[q], ss[i], tx)
      BY <3>1, <3>2
    <3> QED BY <3>3 DEF i
  <2> QED BY <2>2, <2>3, Zenon DEF OnTop
<1>10. Level(ss[q], tx) = n - 1
  BY <1>5, <1>7, <1>8, <1>9
<1> QED BY <1>3, <1>5, <1>7, <1>8, <1>10

LEMMA ClosedHas ==
  ASSUME NEW tx, NEW t2, Longer(tx, t2), Len(t2) = Len(tx) + 1, t2[Len(t2)] = ")",
         NEW ss, NEW st, NEW b, Solid(ss, st, b, tx),
         NEW pr, Len(pr) \in Nat, NEW l, Whole(ss, tx, pr, l, Len(tx)),
         ss[Len(ss)].to = Len(tx), ss[Len(ss)].key \in OperandKey,
         NEW q \in 1 .. Len(ss), ss[q].key = "(", \A i \in q + 1 .. Len(ss) : ss[i].key # "(",
         NEW zs, NEW zt, Len(zs) = q - 1, \A i \in 1 .. q - 1 : zs[i] = ss[i], Solid(zs, zt, b, tx),
         NEW ps, ps[Len(ps)].from = ss[q].to + 1
  PROVE  PInside(zs, ps, t2, pr, l)
<1> DEFINE m == Len(ss)
           d == Len(pr)
           p == Len(t2)
<1>0. tx \in Seq(TextKey) /\ Len(tx) \in Nat /\ p = Len(tx) + 1 /\ t2 \in Seq(TextKey)
  BY LongerIs
<1>1. m \in Nat /\ m \in 1 .. Len(ss) /\ b \in 2 .. 3
  <2>1. Len(ss) \in Nat /\ b \in 2 .. 3 /\ b <= Len(ss)
    BY <1>0, SolidIs
  <2> QED BY <2>1
<1>2. /\ Nested(ss, tx) /\ Height(ss, tx, d)
      /\ Settled(ss, tx, pr, l, d + 1) /\ Met(tx, pr, l, d, Len(tx))
  BY Zenon DEF Whole
<1>3. /\ q \in 2 .. Len(ss) /\ q < m /\ ss[q].from > 0 /\ ss[m].from > 0
      /\ Level(ss[q], tx) = d - 1 /\ \A i \in q + 1 .. m : Level(ss[i], tx) = d
  <2>1. q \in 1 .. Len(ss) /\ ss[q].key = "(" /\ \A i \in q + 1 .. Len(ss) : ss[i].key # "("
    OBVIOUS
  <2>2. tx \in Seq(TextKey) /\ Solid(ss, st, b, tx) /\ Nested(ss, tx) /\ Height(ss, tx, Len(pr))
        /\ ss[Len(ss)].key \in OperandKey
    BY <1>0, <1>2
  <2>3. /\ q \in 2 .. Len(ss) /\ q < Len(ss) /\ ss[q].from > 0 /\ ss[Len(ss)].from > 0
        /\ Level(ss[q], tx) = Len(pr) - 1 /\ \A i \in q + 1 .. Len(ss) : Level(ss[i], tx) = Len(pr)
    BY ONLY <2>1, <2>2, BehindThe
  <2> QED BY <2>3
<1>4. DepthIn(t2, p) = d - 1
  <2>1. ss[m].key # "("
    BY GroundKeys
  <2>2. \A r : r = ss[m].to + 1 => (t2[r] = ")" /\ ss[m].key # "(" => DepthIn(t2, r) = d - 1)
    BY <1>2, NextDepth, SMTT(30)
  <2>3. p = ss[m].to + 1 /\ t2[p] = ")"
    BY <1>0
  <2> QED BY <2>1, <2>2, <2>3
<1>5. Nested(zs, tx)
  <2>1. q - 1 \in 0 .. Len(ss)
    BY <1>1, <1>3
  <2> QED BY <1>1, <1>2, <2>1, NestedCut
<1>6. ASSUME NEW i \in 1 .. Len(zs), zs[i].from > 0, zs[i].key = "(", NEW r \in Len(tx) + 1 .. Len(t2)
      PROVE  DepthIn(t2, r) > Level(zs[i], tx)
  <2>1. r = p
    BY <1>0
  <2>2. zs[i] = ss[i] /\ i \in 1 .. q - 1 /\ i \in 1 .. Len(ss)
    BY <1>1
  <2>3. Over(ss[i], ss[q], tx)
    BY <1>2, <2>2, NestedIs
  <2>4. Level(ss[i], tx) < d - 1
    BY <1>3, <1>6, <2>2, <2>3, Zenon DEF Over
  <2>5. Level(ss[i], tx) \in Int
    BY <1>0, <1>6, <2>2, SymbolsAre
  <2> QED BY <1>4, <2>1, <2>2, <2>4, <2>5
<1>7. Nested(zs, t2)
  BY <1>5, <1>6, NestedStays, Zenon
<1>8. Height(zs, t2, d - 1)
  <2>1. zs[q - 1] = ss[q - 1]
    BY <1>1, <1>3
  <2>2. Height(zs, tx, d - 1)
    BY <1>0, <1>2, <1>3, <2>1, HeightUnder
  <2> QED BY <2>2, HeightStays
<1>9. Settled(zs, t2, pr, l, d)
  <2>1. Settled(ss, tx, pr, l, d)
    BY <1>0, <1>2, SettledOther
  <2>2. \A i \in (q - 1) + 1 .. Len(ss) : ss[i].key = "(" \/ ~(Level(ss[i], tx) < d)
    <3>1. SUFFICES ASSUME NEW i \in (q - 1) + 1 .. Len(ss), i # q PROVE ~(Level(ss[i], tx) < d)
      OBVIOUS
    <3>2. i \in q + 1 .. m
      BY <1>1, <3>1
    <3>3. Level(ss[i], tx) = d /\ d \in Nat
      BY <1>3, <3>2
    <3> QED BY <3>3
  <2>3. q - 1 \in 0 .. Len(ss) /\ Len(ss) \in Nat
    BY <1>1, <1>3
  <2>4. Settled(zs, tx, pr, l, d)
    BY <2>1, <2>2, <2>3, SettledCut
  <2> QED BY <2>4, SettledStays
<1>10. Met(t2, pr, l, d - 1, p - 1)
  <2>1. Met(t2, pr, l, d, Len(tx))
    BY <1>2, MetStays
  <2>2. p - 1 = Len(tx) /\ \A e \in 0 .. d - 1 : e \in 0 .. d
    BY <1>0
  <2> QED BY <2>1, <2>2 DEF Met
<1>11. \A r \in ps[Len(ps)].from .. p - 1 : DepthIn(t2, r) >= d
  <2>1. SUFFICES ASSUME NEW r \in ps[Len(ps)].from .. p - 1 PROVE DepthIn(t2, r) >= d
    OBVIOUS
  <2>2. Item(ss[q], tx)
    BY <1>2, NestedIs
  <2>3. ss[q].to \in Nat
    BY <1>0, SymbolIs
  <2>4. r \in ss[q].to + 1 .. Len(tx) /\ r \in 1 .. Len(tx) /\ r \in Nat /\ r > 0
    BY <1>0, <2>1, <2>3
  <2>5. DepthIn(tx, r) > d - 1
    BY <1>3, <2>2, <2>4, Zenon DEF Item
  <2>6. DepthIn(t2, r) = DepthIn(tx, r) /\ DepthIn(tx, r) \in Int
    BY <2>4, TextStays, DepthType
  <2> QED BY <2>5, <2>6
<1>12. DepthIn(t2, p - 1) = d /\ t2[p - 1] # "("
  <2>1. Item(ss[m], tx)
    BY <1>1, <1>2, NestedIs
  <2>2. DepthIn(tx, ss[m].to) = Level(ss[m], tx) /\ tx[ss[m].to] \in {"id", "digit", ")"}
    BY <1>3, <2>1, Zenon DEF Item, Deep
  <2>3. ss[m].to \in 1 .. Len(tx) /\ p - 1 = ss[m].to
    BY <1>0, <1>1, <1>3, SymbolsAre
  <2>4. t2[p - 1] = tx[ss[m].to] /\ DepthIn(t2, p - 1) = DepthIn(tx, ss[m].to)
    BY <2>3, TextStays
  <2>5. m \in q + 1 .. m
    BY <1>1, <1>3
  <2> QED BY <1>3, <2>2, <2>4, <2>5
<1> HIDE DEF m, p
<1> QED BY <1>7, <1>8, <1>9, <1>10, <1>11, <1>12 DEF PInside, p

\* The stacks when the "(" at place q is closed.
LEMMA ClosedStacks ==
  ASSUME NEW ss, NEW st, NEW b, NEW tx \in Seq(TextKey), Solid(ss, st, b, tx), Bottom(ss, st),
         NEW q \in Nat, q - 1 > b, q < Len(ss), NEW r, r = Reverse(SubSeq(ss, q + 1, Len(ss)))
  PROVE  /\ Solid(SubSeq(ss, 1, q - 1), SubSeq(st, 1, q - 1), b, tx)
         /\ Len(SubSeq(ss, 1, q - 1)) = q - 1 /\ \A i \in 1 .. q - 1 : SubSeq(ss, 1, q - 1)[i] = ss[i]
         /\ Bottom(SubSeq(ss, 1, q - 1), SubSeq(st, 1, q - 1))
         /\ r \in Seq(Symbols) /\ r[Len(r)].from = ss[q].to + 1
<1>1. /\ ss \in Seq(Symbols) /\ Len(ss) \in Nat /\ b \in 2 .. 3 /\ b <= Len(ss)
      /\ st \in Seq(Statuses) /\ Len(st) = Len(ss)
  BY SolidIs
<1>2. q \in Nat /\ q - 1 \in b .. Len(ss) /\ q - 1 \in 0 .. Len(ss) /\ q \in 0 .. Len(ss) /\ q - 1 >= 2
      /\ q - 1 <= Len(ss) /\ q - 1 \in Nat /\ q < Len(ss) /\ q - 1 > b
  <2>1. q \in Nat /\ q - 1 > b /\ q < Len(ss) /\ Len(ss) \in Nat /\ b \in 2 .. 3
    BY <1>1
  <2> QED BY ONLY <2>1
<1>3. Solid(SubSeq(ss, 1, q - 1), SubSeq(st, 1, q - 1), b, tx)
  BY <1>2, SolidCut
<1>4. Len(SubSeq(ss, 1, q - 1)) = q - 1 /\ \A i \in 1 .. q - 1 : SubSeq(ss, 1, q - 1)[i] = ss[i]
  BY <1>1, <1>2, CutIs
<1>5. \A i \in 1 .. q - 1 : SubSeq(st, 1, q - 1)[i] = st[i]
  <2>1. q - 1 \in 0 .. Len(st)
    BY <1>1, <1>2
  <2> QED BY <1>1, <2>1, CutIs
<1>6. Bottom(SubSeq(ss, 1, q - 1), SubSeq(st, 1, q - 1))
  <2> DEFINE n == q - 1
             zs == SubSeq(ss, 1, q - 1)
             zt == SubSeq(st, 1, q - 1)
  <2>1. n \in Nat /\ n >= 2 /\ n <= Len(ss) /\ Len(ss) \in Nat
    BY <1>1, <1>2
  <2>2. Len(zs) = n /\ (\A i \in 1 .. n : zs[i] = ss[i]) /\ (\A i \in 1 .. n : zt[i] = st[i])
    BY <1>4, <1>5
  <2>3. Bottom(ss, st)
    OBVIOUS
  <2> HIDE DEF n, zs, zt
  <2>4. Bottom(zs, zt)
    BY ONLY <2>1, <2>2, <2>3, BottomCut
  <2> QED BY <2>4 DEF zs, zt
<1>7. r \in Seq(Symbols) /\ Len(r) = Len(ss) - q /\ \A i \in 1 .. Len(ss) - q : r[i] = ss[Len(ss) + 1 - i]
  <2>1. ss \in Seq(Symbols) /\ q \in 0 .. Len(ss)
    BY <1>1, <1>2
  <2>2. r = Reverse(SubSeq(ss, q + 1, Len(ss)))
    OBVIOUS
  <2> QED BY ONLY <2>1, <2>2, TurnIs
<1>8. r[Len(r)] = ss[q + 1]
  <2>1. Len(r) \in 1 .. Len(ss) - q /\ Len(ss) + 1 - Len(r) = q + 1
    <3>1. Len(ss) \in Nat /\ q \in Nat /\ q < Len(ss) /\ Len(r) = Len(ss) - q
      BY <1>1, <1>2, <1>7
    <3> QED BY ONLY <3>1
  <2> QED BY <1>7, <2>1
<1>9. ss[q + 1].from = ss[q].to + 1
  <2> DEFINE i == q + 1
  <2>1. i \in b + 1 .. Len(ss) /\ i - 1 = q
    <3>1. Len(ss) \in Nat /\ q \in Nat /\ q < Len(ss) /\ q - 1 > b /\ b \in 2 .. 3
      BY <1>1, <1>2
    <3> QED BY ONLY <3>1
  <2> HIDE DEF i
  <2>2. ss[i].from = ss[i - 1].to + 1
    BY <2>1, PlacedIs
  <2>3. ss[i].from = ss[q].to + 1
    BY <2>1, <2>2
  <2> QED BY <2>3 DEF i
<1> QED BY <1>3, <1>4, <1>6, <1>7, <1>8, <1>9

LEMMA PrecClose == ASSUME EInv, PInv, reduce_rparenthese PROVE PInv'
<1>1. Typed /\ pc = "reading" /\ \E b \in 2 .. 3 : AtReading(b)
  BY ReadingIs, Zenon DEF reduce_rparenthese, Read
<1>2. PICK b \in 2 .. 3 : AtReading(b)
  BY <1>1
<1>3. /\ Read(")") /\ Row("reduce_rparenthese")
      /\ UNCHANGED <<priority_stack, last_priority, applied>>
  BY Zenon DEF reduce_rparenthese
<1>4. ")" \in TextKey
  BY DEF TextKey
<1>5. /\ Bottom(symbol_stack, status_stack)
      /\ PReading(symbol_stack, text, priority_stack, last_priority)
      /\ \A a \in applied : Fine(a, text)
  BY <1>1, ReadingHas
<1>6. /\ current_input'.key = ")" /\ text' \in Seq(TextKey) /\ Len(text') = Len(text) + 1
      /\ text'[Len(text')] = ")"
  BY <1>1, <1>3, <1>4, AfterRead
<1>7. Longer(text, text') /\ \A a \in applied' : Fine(a, text')
  BY <1>1, <1>3, <1>4, <1>5, ReadFine
<1>8. /\ Solid(symbol_stack, status_stack, b, text) /\ Len(process_stack) = 0
      /\ symbol_stack[Len(symbol_stack)].to = Len(text)
  BY <1>2, Zenon DEF AtReading, Base
<1>9. symbol_stack[Len(symbol_stack)].key \in OperandKey
  <2>1. status_stack[Len(status_stack)] = 2
    BY <1>2, <1>3, <1>4, <1>6, RowIs
  <2> QED BY <1>8, <2>1, StatusOnTop
<1>10. text \in Seq(TextKey) /\ process_stack \in Seq(Symbols) /\ Len(priority_stack) \in Nat
       /\ symbol_stack \in Seq(Symbols)
  BY <1>1, TypesAre
<1>11. process_stack = <<>>
  BY <1>8, <1>10
<1>12. Whole(symbol_stack, text, priority_stack, last_priority, Len(text))
  BY <1>5, Zenon DEF PReading
<1>13. CASE \E q \in DOMAIN symbol_stack : Opens(q)
  <2>1. PICK q \in DOMAIN symbol_stack :
          /\ Opens(q)
          /\ process_stack' =
               process_stack \o Reverse(SubSeq(symbol_stack, q + 1, Len(symbol_stack)))
          /\ symbol_stack' = SubSeq(symbol_stack, 1, q - 1)
          /\ status_stack' = SubSeq(status_stack, 1, q - 1)
          /\ pc' = CASE symbol_stack[q - 1].key = "id" -> "calling"
                     [] symbol_stack[q - 1].key = "value" -> "threw"
                     [] OTHER -> "clearing"
    BY <1>13, Zenon DEF reduce_rparenthese
  <2>2. q \in 1 .. Len(symbol_stack) /\ symbol_stack[q].key = "("
        /\ \A i \in q + 1 .. Len(symbol_stack) : symbol_stack[i].key # "("
    BY <1>10, <2>1 DEF Opens
  <2>3. q \in Nat /\ q < Len(symbol_stack) /\ q - 1 > b
    <3>1. Len(symbol_stack) \in Nat /\ b \in 2 .. 3
      BY <1>8, <1>10, SolidIs
    <3>2. q # Len(symbol_stack)
      BY <1>9, <2>2, GroundKeys
    <3>3. q > b
      <4>1. symbol_stack[q].from > 0
        BY <1>8, <1>10, <2>2, SymbolsAre
      <4> QED BY <1>8, <1>10, <2>2, <4>1, SymbolsAre
    <3>4. q \in b + 1 .. Len(symbol_stack)
      BY <2>2, <3>1, <3>3
    <3>5. q > b + 1
      BY <1>8, <1>10, <2>2, <3>4, PlacedIs
    <3>6. q \in 1 .. Len(symbol_stack)
      BY <2>2
    <3> QED BY ONLY <3>1, <3>2, <3>5, <3>6
  <2> DEFINE r == Reverse(SubSeq(symbol_stack, q + 1, Len(symbol_stack)))
  <2>4. /\ Solid(symbol_stack', status_stack', b, text)
        /\ Len(symbol_stack') = q - 1 /\ \A i \in 1 .. q - 1 : symbol_stack'[i] = symbol_stack[i]
        /\ Bottom(symbol_stack', status_stack')
        /\ r \in Seq(Symbols) /\ r[Len(r)].from = symbol_stack[q].to + 1
    BY <1>5, <1>8, <1>10, <2>1, <2>3, ClosedStacks, SMTT(30)
  <2>5. process_stack' = r
    <3> HIDE DEF r
    <3>1. process_stack' = <<>> \o r
      BY <1>11, <2>1, Zenon DEF r
    <3> QED BY <2>4, <3>1
  <2>6. process_stack'[Len(process_stack')].from = symbol_stack[q].to + 1
    BY <2>4, <2>5
  <2>7. PInside(symbol_stack', process_stack', text', priority_stack, last_priority)
    <3>1. /\ Longer(text, text') /\ Len(text') = Len(text) + 1 /\ text'[Len(text')] = ")"
          /\ Solid(symbol_stack, status_stack, b, text) /\ Len(priority_stack) \in Nat
      BY <1>6, <1>7, <1>8, <1>10
    <3>2. /\ Solid(symbol_stack', status_stack', b, text)
          /\ Len(symbol_stack') = q - 1 /\ \A i \in 1 .. q - 1 : symbol_stack'[i] = symbol_stack[i]
      BY <2>4
    <3>3. symbol_stack[Len(symbol_stack)].to = Len(text)
      BY <1>8
    <3> QED BY ONLY <1>9, <1>12, <2>2, <2>6, <3>1, <3>2, <3>3, ClosedHas
  <2>8. PInside(symbol_stack', process_stack', text', priority_stack', last_priority')
    BY <1>3, <2>7
  <2>9. CASE pc' = "threw"
    BY <1>7, <2>9, ToTheEnd DEF Running
  <2>10. CASE pc' \in {"clearing", "calling"}
    <3>1. pc' = "clearing" => (Last(symbol_stack').key \in OperandKey => Last(symbol_stack').key = "digit")
      <4>1. SUFFICES ASSUME pc' = "clearing" PROVE symbol_stack[q - 1].key \notin {"id", "value"}
        <5>1. q - 1 \in 1 .. q - 1
          BY <1>2, <2>3
        <5>2. Last(symbol_stack') = symbol_stack[q - 1]
          BY <2>4, <5>1 DEF Last
        <5> QED BY <5>2 DEF OperandKey
      <4> QED BY <2>1, <4>1
    <3> QED BY <1>6, <1>7, <2>4, <2>8, <2>10, <3>1, ToInside
  <2>11. pc' \in {"threw", "clearing", "calling"}
    BY <2>1
  <2> QED BY <2>9, <2>10, <2>11
<1>14. CASE ~\E q \in DOMAIN symbol_stack : Opens(q)
  <2>1. pc' = "threw"
    BY <1>14, Zenon DEF reduce_rparenthese
  <2> QED BY <1>7, <2>1, ToTheEnd DEF Running
<1> QED BY <1>13, <1>14

-----------------------------------------------------------------------------
(* An iteration that takes an operand and the operator below it. *)

\* The operand on top, the operator below it and the operand below that.
LEMMA ThreeOnTop ==
  ASSUME NEW ss, NEW st, NEW b, NEW tx \in Seq(TextKey), Solid(ss, st, b, tx), Nested(ss, tx),
         NEW d, Height(ss, tx, d), NEW m, m = Len(ss),
         ss[m].key \in OperandKey, ss[m - 1].key \in Operator
  PROVE  /\ m \in Nat /\ m \in b + 3 .. m /\ b \in 2 .. 3 /\ d \in Nat
         /\ m - 2 \in 1 .. m /\ m - 1 \in 1 .. m /\ m \in 1 .. m
         /\ ss[m].from > 0 /\ ss[m - 1].from > 0 /\ ss[m - 2].from > 0
         /\ Level(ss[m], tx) = d /\ Level(ss[m - 1], tx) = d
         /\ ss[m - 2].key \in OperandKey
<1>1. /\ ss \in Seq(Symbols) /\ Len(ss) \in Nat /\ b \in 2 .. 3 /\ b <= Len(ss)
  BY SolidIs
<1>2. m \in Nat /\ m \in 1 .. m /\ m - 1 \in 1 .. m /\ m \in 2 .. m
  BY <1>1
<1>3. ss[m].from > 0 /\ ss[m - 1].from > 0
  BY <1>2, SymbolsAre
<1>4. m - 1 > b
  BY <1>2, <1>3, SymbolsAre
<1>5. ss[m].key # "(" /\ ss[m - 1].key # "(" /\ ss[m - 1].key \notin OperandKey
  BY GroundKeys
<1>6. Level(ss[m], tx) = d
  BY <1>3, <1>5 DEF Height
<1>7. d \in Int /\ d >= 0
  BY HeightIs
<1>8. Level(ss[m - 1], tx) = Level(ss[m], tx)
  BY <1>2, <1>3, <1>5, Pairs
<1>9. st[m - 2] = 2
  <2> DEFINE i == m - 1
  <2>1. i \in b + 1 .. Len(ss) /\ i - 1 = m - 2
    <3>1. m \in Nat /\ m = Len(ss) /\ m - 1 > b /\ b \in 2 .. 3
      BY <1>1, <1>2, <1>4
    <3> QED BY ONLY <3>1
  <2>2. ss[i].key \in Operator
    OBVIOUS
  <2> HIDE DEF i
  <2>3. st[i - 1] = 2
    BY <2>1, <2>2, PlacedIs
  <2> QED BY <2>1, <2>3
<1>10. m - 2 \in 1 .. m /\ m - 2 >= b
  BY <1>1, <1>2, <1>4
<1>11. m - 2 > b
  <2>1. SUFFICES ASSUME m - 2 = b PROVE FALSE
    BY <1>1, <1>10
  <2>2. b \in 1 .. b
    BY <1>1
  <2>3. st[b] \in {14, 15, 16}
    BY <2>2, GroundIs
  <2> QED BY <1>9, <2>1, <2>3
<1>12. m - 2 \in b + 1 .. Len(ss) /\ m \in b + 3 .. m
  BY <1>1, <1>2, <1>11
<1>13. ss[m - 2].key \in OperandKey /\ ss[m - 2].from > 0
  <2>1. ss[m - 2].key \notin OperandKey => st[m - 2] = 7
    BY <1>12, PlacedIs
  <2>2. ss[m - 2].from > 0
    BY <1>12, PlacedIs
  <2> QED BY <1>9, <2>1, <2>2
<1> QED BY <1>1, <1>2, <1>3, <1>6, <1>7, <1>8, <1>10, <1>12, <1>13

LEMMA TakenOff ==
  ASSUME NEW ss, NEW st, NEW b, NEW tx \in Seq(TextKey), Solid(ss, st, b, tx), Nested(ss, tx),
         NEW d, Height(ss, tx, d), NEW m, m = Len(ss),
         ss[m].key \in OperandKey, ss[m - 1].key \in Operator
  PROVE  /\ ss[m - 1].from \in At(tx, d) /\ tx[ss[m - 1].from] = ss[m - 1].key
         /\ ss[m].from = ss[m - 1].from + 1 /\ ss[m - 1].from \in Nat /\ ss[m - 1].from > 0
         /\ ss[m].to \in Nat /\ ss[m].from \in Nat /\ ss[m].from <= ss[m].to
         /\ Kept(tx, d, ss[m - 1].from, ss[m].to, ss[m - 1].key)
         /\ Kept(tx, d, ss[m - 2].from, ss[m - 2].to, ss[m - 1].key)
         /\ Deep(tx, d, ss[m - 1].from, ss[m].to)
         /\ tx[ss[m].to] \in {"id", "digit", ")"}
<1>1. /\ m \in Nat /\ m \in b + 3 .. m /\ b \in 2 .. 3 /\ d \in Nat
      /\ m - 2 \in 1 .. m /\ m - 1 \in 1 .. m /\ m \in 1 .. m
      /\ ss[m].from > 0 /\ ss[m - 1].from > 0 /\ ss[m - 2].from > 0
      /\ Level(ss[m], tx) = d /\ Level(ss[m - 1], tx) = d
      /\ ss[m - 2].key \in OperandKey
  BY ONLY ThreeOnTop, tx \in Seq(TextKey), Solid(ss, st, b, tx), Nested(ss, tx), Height(ss, tx, d),
          m = Len(ss), ss[m].key \in OperandKey, ss[m - 1].key \in Operator
<1>2. m \in b + 1 .. Len(ss) /\ m - 1 \in b + 1 .. Len(ss) /\ (m - 1) - 1 = m - 2
  BY <1>1
<1>3. ss[m].from = ss[m - 1].to + 1
  BY <1>2, PlacedIs
<1>4. ss[m - 1].from = ss[m - 1].to /\ tx[ss[m - 1].from] = ss[m - 1].key
  <2>1. ss[m - 1].key \notin OperandKey
    BY GroundKeys
  <2> QED BY <1>2, <2>1, PlacedIs
<1>5. ss[m].from \in Nat /\ ss[m].to \in Nat /\ ss[m].from <= ss[m].to
      /\ ss[m - 1].from \in Nat /\ ss[m - 1].from \in 1 .. Len(tx)
  <2>1. ss[m].from \in Nat /\ ss[m].to \in Nat /\ ss[m].from <= ss[m].to
    BY <1>1, SymbolIs
  <2>2. ss[m - 1].from \in Nat
    BY <1>1, SymbolIs
  <2>3. ss[m - 1].from \in 1 .. Len(tx)
    BY <1>1, SymbolsAre
  <2> QED BY <2>1, <2>2, <2>3
<1>6. ss[m - 1].from \in At(tx, d)
  BY <1>1, <1>4, <1>5 DEF At, Level
<1>7. OnTop(ss[m - 1], ss[m], tx) /\ OnTop(ss[m - 2], ss[m - 1], tx)
  <2>1. m \in 2 .. Len(ss) /\ m - 1 \in 2 .. Len(ss)
    BY <1>1
  <2>2. OnTop(ss[m - 1], ss[m], tx)
    BY <1>1, <2>1, Pairs
  <2>3. OnTop(ss[(m - 1) - 1], ss[m - 1], tx)
    BY <1>1, <2>1, Pairs
  <2> QED BY <1>2, <2>2, <2>3
<1>8. Kept(tx, d, ss[m].from, ss[m].to, ss[m - 1].key)
  BY <1>1, <1>7, Zenon DEF OnTop
<1>9. Kept(tx, d, ss[m - 2].from, ss[m - 2].to, ss[m - 1].key)
  BY <1>1, <1>7, Zenon DEF OnTop
<1>10. Kept(tx, d, ss[m - 1].from, ss[m - 1].from, ss[m - 1].key)
  BY <1>4, <1>5, KeptOne
<1>11. Kept(tx, d, ss[m - 1].from, ss[m].to, ss[m - 1].key)
  <2>1. Kept(tx, d, ss[m - 1].from + 1, ss[m].to, ss[m - 1].key)
    BY <1>3, <1>4, <1>8
  <2> QED BY <1>5, <1>10, <2>1, KeptJoin
<1>12. Deep(tx, d, ss[m].from, ss[m].to) /\ tx[ss[m].to] \in {"id", "digit", ")"}
  <2>1. Item(ss[m], tx)
    BY <1>1, NestedIs
  <2> QED BY <1>1, <2>1, Zenon DEF Item
<1>13. Deep(tx, d, ss[m - 1].from, ss[m - 1].from)
  BY <1>1, <1>5, DeepOne DEF Level
<1>14. Deep(tx, d, ss[m - 1].from, ss[m].to)
  <2>1. Deep(tx, d, ss[m - 1].from + 1, ss[m].to)
    BY <1>3, <1>4, <1>12
  <2> QED BY <1>5, <1>13, <2>1, DeepJoin
<1> QED BY <1>1, <1>3, <1>4, <1>5, <1>6, <1>9, <1>11, <1>12, <1>14

\* zs is the front of ss, n symbols long.
Begins(zs, ss, n) == Len(zs) = n /\ \A i \in 1 .. n : zs[i] = ss[i]

\* An operand is on top of an operator.
Taking(ss, st, b, tx, d, m) ==
  /\ tx \in Seq(TextKey) /\ Solid(ss, st, b, tx) /\ Nested(ss, tx) /\ Height(ss, tx, d)
  /\ m = Len(ss) /\ ss[m].key \in OperandKey /\ ss[m - 1].key \in Operator

\* What is left of the stack.
LEMMA LeftBehind ==
  ASSUME NEW ss, NEW st, NEW b, NEW tx, NEW m, NEW pr, Len(pr) \in Nat,
         Taking(ss, st, b, tx, Len(pr), m),
         NEW l, Settled(ss, tx, pr, l, Len(pr)),
         NEW r \in Nat, Met(tx, pr, l, Len(pr), r), ss[m].to <= r,
         NEW zs, Begins(zs, ss, m - 2)
  PROVE  /\ Nested(zs, tx) /\ Height(zs, tx, Len(pr))
         /\ Settled(zs, tx, pr, Priority[ss[m - 1].key], Len(pr))
         /\ Met(tx, pr, Priority[ss[m - 1].key], Len(pr), r)
<1> DEFINE d == Len(pr)
           l2 == Priority[ss[m - 1].key]
<1>0. /\ tx \in Seq(TextKey) /\ Solid(ss, st, b, tx) /\ Nested(ss, tx) /\ Height(ss, tx, Len(pr))
      /\ m = Len(ss) /\ ss[m].key \in OperandKey /\ ss[m - 1].key \in Operator
      /\ Len(zs) = m - 2 /\ \A i \in 1 .. m - 2 : zs[i] = ss[i]
  BY DEF Taking, Begins
<1>1. /\ m \in Nat /\ m \in b + 3 .. m /\ b \in 2 .. 3 /\ d \in Nat
      /\ m - 2 \in 1 .. m /\ m - 1 \in 1 .. m /\ m \in 1 .. m
      /\ ss[m].from > 0 /\ ss[m - 1].from > 0 /\ ss[m - 2].from > 0
      /\ Level(ss[m], tx) = d /\ Level(ss[m - 1], tx) = d
  <2>1. /\ tx \in Seq(TextKey) /\ Solid(ss, st, b, tx) /\ Nested(ss, tx) /\ Height(ss, tx, d)
        /\ m = Len(ss) /\ ss[m].key \in OperandKey /\ ss[m - 1].key \in Operator
    BY <1>0
  <2> HIDE DEF d
  <2> QED BY ONLY <2>1, ThreeOnTop, SMTT(30)
<1>2. /\ ss[m - 1].from \in At(tx, d) /\ tx[ss[m - 1].from] = ss[m - 1].key
      /\ ss[m].from = ss[m - 1].from + 1 /\ ss[m - 1].from \in Nat
      /\ ss[m].to \in Nat /\ ss[m].from \in Nat /\ ss[m].from <= ss[m].to
  BY ONLY <1>0, TakenOff
<1>3. Len(ss) \in Nat /\ m - 2 \in 0 .. Len(ss) /\ m - 1 \in 2 .. Len(ss) /\ (m - 1) - 1 = m - 2
  BY <1>0, <1>1
<1>4. Nested(zs, tx)
  BY <1>0, <1>3, NestedCut
<1>5. Height(zs, tx, d)
  <2>1. m - 2 \in 1 .. m - 2
    BY <1>1
  <2>2. zs[m - 2] = ss[m - 2]
    BY <1>0, <2>1
  <2> DEFINE i == m - 1
  <2>3. i \in 2 .. Len(ss) /\ ss[i].from > 0 /\ Len(zs) = i - 1 /\ zs[i - 1] = ss[i - 1]
        /\ Level(ss[i], tx) = d
    BY <1>0, <1>1, <1>3, <2>2
  <2> HIDE DEF i
  <2>4. Height(zs, tx, Level(ss[i], tx))
    BY <1>0, <2>3, HeightUnder
  <2> QED BY <2>3, <2>4
<1>6. Settled(zs, tx, pr, l2, d)
  <2>1. Settled(ss, tx, pr, l2, d)
    BY <1>0, SettledOther
  <2>2. \A i \in (m - 2) + 1 .. Len(ss) : ss[i].key = "(" \/ ~(Level(ss[i], tx) < d)
    <3>1. SUFFICES ASSUME NEW i \in (m - 2) + 1 .. Len(ss) PROVE ~(Level(ss[i], tx) < d)
      OBVIOUS
    <3>2. i = m \/ i = m - 1
      BY <1>0, <1>1, <3>1, SMTT(30)
    <3> QED BY <1>1, <3>2
  <2> QED BY <1>0, <1>3, <2>1, <2>2, SettledCut, ZenonT(60)
<1>7. Met(tx, pr, l2, d, r)
  <2>1. ss[m - 1].from <= r /\ l2 = Priority[tx[ss[m - 1].from]]
    BY <1>2
  <2> QED BY <1>2, <2>1, MetOther
<1> QED BY <1>4, <1>5, <1>6, <1>7

\* The operator below the operand on top binds tighter than those a walk finds
\* further down, or one in front of it binds tighter than they do.
LEMMA BelowTaken ==
  ASSUME NEW ss, NEW st, NEW b, NEW tx \in Seq(TextKey), Solid(ss, st, b, tx), Nested(ss, tx),
         NEW d, Height(ss, tx, d), NEW m, m = Len(ss),
         ss[m].key \in OperandKey, ss[m - 1].key \in Operator,
         NEW zs, Begins(zs, ss, m - 2)
  PROVE  \A k \in 1 .. Len(zs) :
           zs[k].key \in Operator /\ Level(zs[k], tx) = d /\ Chain(zs, k, Len(zs)) =>
             /\ zs[k] = ss[k] /\ k \in 1 .. m /\ Chain(ss, k, m)
             /\ Priority[zs[k].key] < Priority[ss[m - 1].key] =>
                  Tighter(tx, d, ss[m - 1].from, Priority[zs[k].key])
<1> SUFFICES ASSUME NEW k \in 1 .. Len(zs), zs[k].key \in Operator, Level(zs[k], tx) = d,
                    Chain(zs, k, Len(zs))
             PROVE  /\ zs[k] = ss[k] /\ k \in 1 .. m /\ Chain(ss, k, m)
                    /\ Priority[zs[k].key] < Priority[ss[m - 1].key] =>
                         Tighter(tx, d, ss[m - 1].from, Priority[zs[k].key])
  OBVIOUS
<1>1. /\ m \in Nat /\ m \in b + 3 .. m /\ b \in 2 .. 3 /\ d \in Nat
      /\ m - 2 \in 1 .. m /\ m - 1 \in 1 .. m /\ m \in 1 .. m
      /\ Level(ss[m], tx) = d /\ Level(ss[m - 1], tx) = d
  BY ONLY ThreeOnTop, tx \in Seq(TextKey), Solid(ss, st, b, tx), Nested(ss, tx), Height(ss, tx, d),
          m = Len(ss), ss[m].key \in OperandKey, ss[m - 1].key \in Operator, SMTT(30)
<1>2. ss[m - 1].key \notin OperandKey
  BY GroundKeys
<1>3. k \in 1 .. m - 2 /\ zs[k] = ss[k] /\ k \in 1 .. m /\ k \in 1 .. (m - 1) - 1
  <2>1. k \in 1 .. m - 2 /\ zs[k] = ss[k]
    BY DEF Begins
  <2> QED BY <1>1, <2>1
<1>4. Chain(ss, k, m - 2)
  <2> DEFINE n == m - 2
  <2>1. n \in Nat /\ k \in 1 .. n /\ n \in 1 .. n
    BY <1>1, <1>3
  <2>2. Chain(zs, k, n) /\ \A i \in 1 .. n : zs[i] = ss[i]
    BY DEF Begins
  <2> HIDE DEF n
  <2>3. Chain(ss, k, n)
    BY ONLY <2>1, <2>2, ChainCut
  <2> QED BY <2>3 DEF n
<1>5. Chain(ss, k, m - 1)
  <2>1. \A j \in k + 1 .. m - 1 : j \in k + 1 .. m - 2 \/ j = m - 1
    BY <1>1, <1>3
  <2> QED BY <1>2, <1>4, <2>1 DEF Chain
<1>6. Chain(ss, k, m)
  <2>1. \A j \in k + 1 .. m : j \in k + 1 .. m - 1 \/ j - 1 = m - 1
    BY <1>1, <1>3
  <2> QED BY <1>2, <1>5, <2>1 DEF Chain
<1>7. Climb(ss[k], ss[m - 1], tx)
  BY <1>1, <1>3, <1>5, NestedIs
<1>8. Priority[zs[k].key] < Priority[ss[m - 1].key] =>
        Tighter(tx, d, ss[m - 1].from, Priority[zs[k].key])
  BY <1>1, <1>3, <1>7 DEF Climb
<1> QED BY <1>3, <1>6, <1>8

\* What is known of the operator that was taken, ...
LEMMA PassedFirst ==
  ASSUME NEW ss, NEW st, NEW b, NEW tx \in Seq(TextKey), Solid(ss, st, b, tx), Nested(ss, tx),
         NEW d, Height(ss, tx, d), NEW m, m = Len(ss),
         ss[m].key \in OperandKey, ss[m - 1].key \in Operator,
         NEW zs, Begins(zs, ss, m - 2),
         tx[ss[m].to + 1] \in Operator => Priority[ss[m - 1].key] <= Priority[tx[ss[m].to + 1]],
         NEW p2, NEW i, Len(p2) = i, p2[i] = ss[m - 1], p2[i - 1] = ss[m]
  PROVE  Passed(zs, p2, tx, d, Priority[ss[m - 1].key], i)
<1>1. /\ ss[m - 1].from \in At(tx, d)
      /\ Kept(tx, d, ss[m - 1].from, ss[m].to, ss[m - 1].key)
  BY ONLY TakenOff, tx \in Seq(TextKey), Solid(ss, st, b, tx), Nested(ss, tx), Height(ss, tx, d),
          m = Len(ss), ss[m].key \in OperandKey, ss[m - 1].key \in Operator
<1>2. ASSUME NEW k \in 1 .. Len(zs), zs[k].key \in Operator, Level(zs[k], tx) = d, Chain(zs, k, Len(zs)),
             Priority[zs[k].key] < Priority[ss[m - 1].key]
      PROVE  Tighter(tx, d, ss[m - 1].from, Priority[zs[k].key])
  <2>1. /\ tx \in Seq(TextKey) /\ Solid(ss, st, b, tx) /\ Nested(ss, tx) /\ Height(ss, tx, d)
        /\ m = Len(ss) /\ ss[m].key \in OperandKey /\ ss[m - 1].key \in Operator
        /\ Begins(zs, ss, m - 2)
    OBVIOUS
  <2>2. /\ zs[k] = ss[k] /\ k \in 1 .. m /\ Chain(ss, k, m)
        /\ Priority[zs[k].key] < Priority[ss[m - 1].key] =>
             Tighter(tx, d, ss[m - 1].from, Priority[zs[k].key])
    BY ONLY <1>2, <2>1, BelowTaken, SMTT(30)
  <2> QED BY <1>2, <2>2
<1>3. Priority[ss[m - 1].key] \in Nat
  BY OperatorsRank
<1> DEFINE p == Priority[ss[m - 1].key]
<1>4. p <= p /\ ~(p < p)
  BY <1>3
<1> HIDE DEF p
<1>5. /\ p2[Len(p2)] = ss[m - 1]
      /\ Priority[p2[i].key] = p
  BY DEF p
<1>6. Passed(zs, p2, tx, d, p, i)
  BY <1>1, <1>2, <1>4, <1>5 DEF Passed, p
<1> QED BY <1>6 DEF p

\* ... and of those that were taken before.
LEMMA PassedOn ==
  ASSUME NEW ss, NEW st, NEW b, NEW tx \in Seq(TextKey), Solid(ss, st, b, tx), Nested(ss, tx),
         NEW d, Height(ss, tx, d), NEW m, m = Len(ss),
         ss[m].key \in OperandKey, ss[m - 1].key \in Operator,
         NEW zs, Begins(zs, ss, m - 2),
         NEW ps, NEW l \in Nat, NEW i, ps[i].key \in Operator, Passed(ss, ps, tx, d, l, i),
         ps[Len(ps)].from = ss[m].to + 1, ps[i - 1].to \in Nat,
         Priority[ss[m - 1].key] <= l,
         NEW p2, p2[i] = ps[i], p2[i - 1] = ps[i - 1], p2[Len(p2)] = ss[m - 1]
  PROVE  Passed(zs, p2, tx, d, Priority[ss[m - 1].key], i)
<1> DEFINE t == ps[i - 1].to
           x == ps[i]
           p == Priority[ss[m - 1].key]
<1>1. /\ ss[m - 1].from \in At(tx, d) /\ ss[m].to \in Nat
      /\ Kept(tx, d, ss[m - 1].from, ss[m].to, ss[m - 1].key)
  BY ONLY TakenOff, tx \in Seq(TextKey), Solid(ss, st, b, tx), Nested(ss, tx), Height(ss, tx, d),
          m = Len(ss), ss[m].key \in OperandKey, ss[m - 1].key \in Operator
<1>2. /\ x.from \in At(tx, d)
      /\ Kept(tx, d, ps[Len(ps)].from, t, x.key)
      /\ tx[t + 1] \in Operator => Priority[x.key] <= Priority[tx[t + 1]]
      /\ l <= Priority[x.key]
      /\ \A k \in 1 .. Len(ss) :
           /\ ss[k].key \in Operator /\ Level(ss[k], tx) = d /\ Chain(ss, k, Len(ss))
           /\ Priority[ss[k].key] < Priority[x.key]
           => Tighter(tx, d, x.from, Priority[ss[k].key])
  BY DEF Passed
<1>3. p \in Nat /\ Priority[x.key] \in Nat /\ p <= Priority[x.key]
  <2>1. p \in Nat /\ Priority[x.key] \in Nat
    BY OperatorsRank
  <2>2. p <= l /\ l \in Nat /\ l <= Priority[x.key]
    BY <1>2
  <2> QED BY ONLY <2>1, <2>2
<1>4. Kept(tx, d, ss[m - 1].from, t, x.key)
  <2>1. Kept(tx, d, ss[m - 1].from, ss[m].to, x.key)
    BY <1>1, <1>3, KeptUp
  <2>2. Kept(tx, d, ss[m].to + 1, t, x.key)
    BY <1>2
  <2> QED BY <1>1, <2>1, <2>2, KeptJoin
<1>5. /\ m \in Nat /\ m \in b + 3 .. m /\ b \in 2 .. 3
      /\ m - 1 \in 1 .. m /\ Level(ss[m - 1], tx) = d
  BY ONLY ThreeOnTop, tx \in Seq(TextKey), Solid(ss, st, b, tx), Nested(ss, tx), Height(ss, tx, d),
          m = Len(ss), ss[m].key \in OperandKey, ss[m - 1].key \in Operator
<1>6. p < Priority[x.key] => Tighter(tx, d, x.from, p)
  <2>1. Chain(ss, m - 1, m)
    <3>1. \A j \in (m - 1) + 1 .. m : j - 1 = m - 1
      BY <1>5
    <3>2. ss[m - 1].key \notin OperandKey
      BY GroundKeys
    <3> QED BY <3>1, <3>2 DEF Chain
  <2>2. ss[m - 1].key \in Operator /\ m = Len(ss)
    OBVIOUS
  <2> QED BY ONLY <1>2, <1>5, <2>1, <2>2
<1>7. ASSUME NEW k \in 1 .. Len(zs), zs[k].key \in Operator, Level(zs[k], tx) = d, Chain(zs, k, Len(zs)),
             Priority[zs[k].key] < Priority[x.key]
      PROVE  Tighter(tx, d, x.from, Priority[zs[k].key])
  <2>1. /\ tx \in Seq(TextKey) /\ Solid(ss, st, b, tx) /\ Nested(ss, tx) /\ Height(ss, tx, d)
        /\ m = Len(ss) /\ ss[m].key \in OperandKey /\ ss[m - 1].key \in Operator
        /\ Begins(zs, ss, m - 2)
    OBVIOUS
  <2>2. zs[k] = ss[k] /\ k \in 1 .. m /\ Chain(ss, k, m)
    <3>1. k \in 1 .. Len(zs) /\ zs[k].key \in Operator /\ Level(zs[k], tx) = d /\ Chain(zs, k, Len(zs))
      BY <1>7
    <3> QED BY ONLY <2>1, <3>1, BelowTaken
  <2> HIDE DEF x
  <2> QED BY <1>2, <1>7, <2>2
<1> HIDE DEF p, x, t
<1>8. /\ p2[i] = x /\ p2[i - 1].to = t /\ p2[Len(p2)] = ss[m - 1] /\ p <= Priority[x.key]
  BY <1>3 DEF x, t
<1>9. Passed(zs, p2, tx, d, p, i)
  BY <1>2, <1>4, <1>6, <1>7, <1>8 DEF Passed
<1> QED BY <1>9 DEF p

\* The walk goes on with what it took on process_stack.
AllPassed(zs, p2, tx, d, l) ==
  \A i \in 2 .. Len(p2) : p2[i].key \in Operator => Passed(zs, p2, tx, d, l, i)

LEMMA WalkGoesOn ==
  ASSUME NEW ss, NEW st, NEW b, NEW tx, NEW m, NEW pr, Len(pr) \in Nat,
         Taking(ss, st, b, tx, Len(pr), m),
         NEW l, Settled(ss, tx, pr, l, Len(pr)),
         Met(tx, pr, l, Len(pr), Len(tx) - 1), Len(tx) > 0, ss[m].to <= Len(tx) - 1,
         Loose(tx, Len(pr)), NEW zs, Begins(zs, ss, m - 2),
         NEW p2, Len(p2) >= 2, p2[2].key \in Operator, p2[Len(p2)] = ss[m - 1],
         AllPassed(zs, p2, tx, Len(pr), Priority[ss[m - 1].key]),
         Deep(tx, Len(pr), ss[m - 1].from, Len(tx) - 1), tx[Len(tx) - 1] \in {"id", "digit", ")"}
  PROVE  PWalk(zs, p2, tx, pr, Priority[ss[m - 1].key])
<1> DEFINE d == Len(pr)
           l2 == Priority[ss[m - 1].key]
<1>1. /\ tx \in Seq(TextKey) /\ Solid(ss, st, b, tx) /\ Nested(ss, tx) /\ Height(ss, tx, d)
      /\ m = Len(ss) /\ ss[m].key \in OperandKey /\ ss[m - 1].key \in Operator
  BY DEF Taking
<1>2. /\ Nested(zs, tx) /\ Height(zs, tx, d) /\ Settled(zs, tx, pr, l2, d)
      /\ Met(tx, pr, l2, d, Len(tx) - 1)
  <2>1. Len(tx) - 1 \in Nat
    <3>1. Len(tx) \in Nat
      BY <1>1, SolidIs
    <3> QED BY <3>1
  <2> QED BY <2>1, LeftBehind
<1>3. zs[Len(zs)].key \in OperandKey /\ Kept(tx, d, zs[Len(zs)].from, zs[Len(zs)].to, ss[m - 1].key)
  <2>1. m - 2 \in 1 .. m /\ m \in Nat /\ ss[m - 2].key \in OperandKey
    <3> HIDE DEF d
    <3> QED BY ONLY <1>1, ThreeOnTop
  <2>2. Kept(tx, d, ss[m - 2].from, ss[m - 2].to, ss[m - 1].key)
    <3> HIDE DEF d
    <3> QED BY ONLY <1>1, TakenOff
  <2>3. Len(zs) = m - 2 /\ zs[m - 2] = ss[m - 2]
    BY <2>1 DEF Begins
  <2> QED BY <2>1, <2>2, <2>3
<1>4. Loose(tx, d) /\ Deep(tx, d, ss[m - 1].from, Len(tx) - 1) /\ p2[Len(p2)] = ss[m - 1]
  OBVIOUS
<1> HIDE DEF l2
<1>5. \A i \in 2 .. Len(p2) : p2[i].key \in Operator => Passed(zs, p2, tx, d, l2, i)
  BY DEF l2, AllPassed
<1>6. PWalk(zs, p2, tx, pr, l2)
  BY <1>1, <1>2, <1>3, <1>4, <1>5 DEF PWalk, l2
<1> QED BY <1>6 DEF l2

LEMMA PrecAbsorbFirst ==
  ASSUME NEW ss, NEW st, NEW b, NEW tx \in Seq(TextKey), Solid(ss, st, b, tx), Len(tx) > 0,
         NEW pr, Len(pr) \in Nat, NEW l \in Nat, PFirst(ss, tx, pr, l), NEW m, m = Len(ss),
         ss[m].key \in OperandKey, ss[m].to = Len(tx) - 1,
         ss[m - 1].key \in Operator, Priority[ss[m - 1].key] <= l,
         NEW zs, Begins(zs, ss, m - 2),
         NEW p2, Len(p2) = 2, p2[1] = ss[m], p2[2] = ss[m - 1]
  PROVE  PWalk(zs, p2, tx, pr, Priority[ss[m - 1].key])
<1> DEFINE d == Len(pr)
<1>1. /\ Nested(ss, tx) /\ Height(ss, tx, d) /\ Settled(ss, tx, pr, l, d + 1)
      /\ Met(tx, pr, l, d, Len(tx) - 1) /\ Loose(tx, d)
      /\ tx[Len(tx)] \in Operator => l < Priority[tx[Len(tx)]]
  BY Zenon DEF PFirst, Whole
<1>2. /\ tx \in Seq(TextKey) /\ Solid(ss, st, b, tx) /\ Nested(ss, tx) /\ Height(ss, tx, d)
      /\ m = Len(ss) /\ ss[m].key \in OperandKey /\ ss[m - 1].key \in Operator
  BY <1>1
<1>3. Len(tx) \in Nat
  BY SolidIs
<1>4. Deep(tx, d, ss[m - 1].from, ss[m].to) /\ tx[ss[m].to] \in {"id", "digit", ")"}
  <2> HIDE DEF d
  <2> QED BY ONLY <1>2, TakenOff
<1>5. tx[ss[m].to + 1] \in Operator => Priority[ss[m - 1].key] <= Priority[tx[ss[m].to + 1]]
  <2>1. ss[m].to + 1 = Len(tx)
    BY <1>3
  <2>2. Priority[ss[m - 1].key] \in Nat
    BY OperatorsRank
  <2>3. tx[Len(tx)] \in Operator => Priority[tx[Len(tx)]] \in Nat
    BY OperatorsRank
  <2> QED BY <1>1, <2>1, <2>2, <2>3
<1>6. Passed(zs, p2, tx, d, Priority[ss[m - 1].key], 2)
  <2> DEFINE i == 2
  <2>1. Len(p2) = i /\ p2[i] = ss[m - 1] /\ p2[i - 1] = ss[m] /\ Begins(zs, ss, m - 2)
    OBVIOUS
  <2> HIDE DEF d, i
  <2>2. Passed(zs, p2, tx, d, Priority[ss[m - 1].key], i)
    BY ONLY <1>2, <1>5, <2>1, PassedFirst
  <2> QED BY <2>2 DEF i
<1>7. AllPassed(zs, p2, tx, d, Priority[ss[m - 1].key])
  <2>1. \A i \in 2 .. Len(p2) : i = 2
    OBVIOUS
  <2> QED BY <1>6, <2>1 DEF AllPassed
<1>8. /\ Len(p2) >= 2 /\ p2[2].key \in Operator /\ p2[Len(p2)] = ss[m - 1]
      /\ ss[m].to <= Len(tx) - 1 /\ Deep(tx, d, ss[m - 1].from, Len(tx) - 1)
      /\ tx[Len(tx) - 1] \in {"id", "digit", ")"} /\ Begins(zs, ss, m - 2) /\ Len(tx) > 0 /\ d \in Nat
  BY <1>3, <1>4
<1>9. Taking(ss, st, b, tx, d, m) /\ Settled(ss, tx, pr, l, d)
  <2>1. d + 1 \in {d, d + 1}
    OBVIOUS
  <2>2. Settled(ss, tx, pr, l, d)
    BY <1>1, <2>1, SettledOther
  <2> QED BY <1>2, <2>2 DEF Taking
<1> QED BY ONLY <1>1, <1>7, <1>8, <1>9, WalkGoesOn

LEMMA PrecAbsorbMore ==
  ASSUME NEW ss, NEW st, NEW b, NEW tx \in Seq(TextKey), Solid(ss, st, b, tx), Len(tx) > 0,
         NEW ps, Turned(ps, tx), Joins(ss, ps, 1, Len(tx) - 1),
         NEW pr, Len(pr) \in Nat, NEW l \in Nat, PWalk(ss, ps, tx, pr, l), NEW m, m = Len(ss),
         ss[m - 1].key \in Operator, Priority[ss[m - 1].key] <= l,
         NEW zs, Begins(zs, ss, m - 2),
         NEW p2, Len(p2) = Len(ps) + 2, \A i \in 1 .. Len(ps) : p2[i] = ps[i],
         p2[Len(ps) + 1] = ss[m], p2[Len(ps) + 2] = ss[m - 1]
  PROVE  PWalk(zs, p2, tx, pr, Priority[ss[m - 1].key])
<1> DEFINE d == Len(pr)
           n == Len(ps)
           y == ps[n]
           p == Priority[ss[m - 1].key]
<1>1. /\ Nested(ss, tx) /\ Height(ss, tx, d)
      /\ Settled(ss, tx, pr, l, d) /\ Met(tx, pr, l, d, Len(tx) - 1) /\ Loose(tx, d)
      /\ ss[m].key \in OperandKey
      /\ n >= 2 /\ ps[2].key \in Operator
      /\ y.key \in Operator /\ l = Priority[y.key]
      /\ \A i \in 2 .. n : ps[i].key \in Operator => Passed(ss, ps, tx, d, l, i)
      /\ Deep(tx, d, y.from, Len(tx) - 1) /\ tx[Len(tx) - 1] \in {"id", "digit", ")"}
  BY Zenon DEF PWalk
<1>2. /\ tx \in Seq(TextKey) /\ Solid(ss, st, b, tx) /\ Nested(ss, tx) /\ Height(ss, tx, d)
      /\ m = Len(ss) /\ ss[m].key \in OperandKey /\ ss[m - 1].key \in Operator
  BY <1>1
<1>3. Len(tx) \in Nat
  BY SolidIs
<1>4. ps \in Seq(Symbols) /\ n \in Nat /\ n \in 1 .. n
  <2>1. ps \in Seq(Symbols)
    BY Zenon DEF Turned, Stretches
  <2>2. n \in Nat
    BY <2>1
  <2> QED BY <1>1, <2>1, <2>2
<1>5. \A i \in 1 .. n : ps[i].to \in Nat /\ ps[i].from \in Nat
  BY <1>4, SymbolAt
<1>6. y.from = ss[m].to + 1 /\ tx[y.from] = y.key
  <2>1. y.from = ss[m].to + 1
    BY DEF Joins
  <2>2. IsItem(y, tx)
    BY <1>4, Zenon DEF Turned
  <2>3. y.key \notin OperandKey
    BY <1>1, GroundKeys
  <2> QED BY <2>1, <2>2, <2>3, Zenon DEF IsItem
<1>7. /\ Deep(tx, d, ss[m - 1].from, ss[m].to) /\ ss[m - 1].from \in Nat
      /\ ss[m].to \in Nat
  <2> HIDE DEF d
  <2> QED BY ONLY <1>2, TakenOff
<1>8. Deep(tx, d, ss[m - 1].from, Len(tx) - 1)
  <2>1. Deep(tx, d, ss[m].to + 1, Len(tx) - 1) /\ Len(tx) - 1 \in Nat
    BY <1>1, <1>3, <1>6
  <2> HIDE DEF d
  <2> QED BY ONLY <1>7, <2>1, DeepJoin
<1>9. tx[ss[m].to + 1] \in Operator => Priority[ss[m - 1].key] <= Priority[tx[ss[m].to + 1]]
  BY <1>1, <1>6
<1>10. p2[Len(p2)] = ss[m - 1] /\ Len(p2) = n + 2
  OBVIOUS
<1>11. Passed(zs, p2, tx, d, p, n + 2)
  <2> DEFINE i == n + 2
  <2>1. Len(p2) = i /\ p2[i] = ss[m - 1] /\ p2[i - 1] = ss[m] /\ Begins(zs, ss, m - 2)
    BY <1>4
  <2> HIDE DEF d, i
  <2>2. Passed(zs, p2, tx, d, Priority[ss[m - 1].key], i)
    BY ONLY <1>2, <1>9, <2>1, PassedFirst
  <2> QED BY <2>2 DEF i
<1>12. ASSUME NEW i \in 2 .. n, ps[i].key \in Operator
       PROVE  Passed(zs, p2, tx, d, p, i)
  <2>1. Passed(ss, ps, tx, d, l, i) /\ ps[i].key \in Operator
    BY <1>1, <1>12
  <2>2. p2[i] = ps[i] /\ p2[i - 1] = ps[i - 1] /\ ps[i - 1].to \in Nat
    <3>1. i \in 1 .. n /\ i - 1 \in 1 .. n
      BY <1>4
    <3> QED BY <1>5, <3>1
  <2>3. ps[Len(ps)].from = ss[m].to + 1 /\ Priority[ss[m - 1].key] <= l /\ l \in Nat
        /\ Begins(zs, ss, m - 2) /\ p2[Len(p2)] = ss[m - 1]
    BY <1>6, <1>10
  <2> HIDE DEF d
  <2>4. Passed(zs, p2, tx, d, Priority[ss[m - 1].key], i)
    BY ONLY <1>2, <2>1, <2>2, <2>3, PassedOn
  <2> QED BY <2>4
<1>13. AllPassed(zs, p2, tx, d, p)
  <2>1. SUFFICES ASSUME NEW i \in 2 .. Len(p2), p2[i].key \in Operator PROVE Passed(zs, p2, tx, d, p, i)
    BY DEF AllPassed
  <2>2. CASE i <= n
    <3>1. i \in 2 .. n /\ i \in 1 .. n
      BY <1>4, <2>1, <2>2
    <3>2. ps[i].key \in Operator
      BY <2>1, <3>1
    <3> QED BY <1>12, <3>1, <3>2
  <2>3. CASE i = n + 1
    BY <1>2, <2>1, <2>3, GroundKeys
  <2>4. CASE i = n + 2
    BY <1>11, <2>4
  <2> QED BY <1>4, <1>10, <2>1, <2>2, <2>3, <2>4
<1>14. /\ Len(p2) >= 2 /\ p2[2].key \in Operator
       /\ ss[m].to <= Len(tx) - 1 /\ Len(tx) > 0 /\ d \in Nat /\ Begins(zs, ss, m - 2)
  <2>1. 2 \in 1 .. n
    BY <1>1, <1>4
  <2>2. ss[m].to <= Len(tx) - 1
    <3>1. y.from \in Nat /\ y.to \in Nat /\ y.from <= y.to /\ y.to <= Len(tx)
      <4>1. Within(y, Len(tx))
        BY <1>4, Zenon DEF Turned, Stretches
      <4> QED BY <1>4, <1>5, <4>1 DEF Within
    <3>2. y.from = ss[m].to + 1 /\ ss[m].to \in Nat
      BY <1>6, <1>7
    <3> QED BY ONLY <1>3, <3>1, <3>2
  <2>3. p2[2].key \in Operator
    BY <1>1, <2>1
  <2>4. Len(p2) >= 2
    <3>1. Len(p2) = n + 2 /\ n \in Nat
      BY <1>4, <1>10
    <3> HIDE DEF n
    <3> QED BY ONLY <3>1
  <2> QED BY <2>2, <2>3, <2>4
<1>15. Taking(ss, st, b, tx, d, m)
  BY <1>2 DEF Taking
<1> QED BY ONLY <1>1, <1>8, <1>10, <1>13, <1>14, <1>15, WalkGoesOn

LEMMA PrecAbsorb == ASSUME EInv, PInv, absorb PROVE PInv'
<1> DEFINE value == symbol_stack[Len(symbol_stack)]
           punc == symbol_stack[Len(symbol_stack) - 1]
           m == Len(symbol_stack)
           n == Len(process_stack)
<1>1. Typed /\ \E b \in 2 .. 3 : AtWalking(b)
  BY WalkingIs, Zenon DEF absorb
<1>2. PICK b \in 2 .. 3 : AtWalking(b)
  BY <1>1
<1>3. Top = value
  BY DEF Last, Top
<1>4. /\ pc = "walking"
      /\ Accepted(punc)
      /\ last_priority' = After(punc)
      /\ process_stack' = process_stack \o <<value, punc>>
      /\ symbol_stack' = Pop(symbol_stack, 2)
      /\ status_stack' = Pop(status_stack, 2)
      /\ flag' = TRUE
      /\ pc' = (IF is_punc(value) THEN "untracked" ELSE "walking")
      /\ UNCHANGED <<priority_stack, current_input, text, applied, before>>
  BY <1>3, Zenon DEF absorb
<1>5. /\ symbol_stack \in Seq(Symbols) /\ process_stack \in Seq(Symbols)
      /\ status_stack \in Seq(Statuses) /\ priority_stack \in Seq(1 .. 255)
      /\ text \in Seq(TextKey) /\ Len(text) \in Nat
      /\ last_priority \in 1 .. 255
  BY <1>1, TypesAre
<1>6. /\ Base(b) /\ Busy(Ends) /\ Len(symbol_stack) > b
      /\ IF flag THEN Joins(symbol_stack, process_stack, 1, Len(text) - 1)
         ELSE /\ Len(process_stack) = 0
              /\ symbol_stack[Len(symbol_stack)].to = Len(text) - 1
  BY <1>2, Zenon DEF AtWalking
<1>7. /\ Solid(symbol_stack, status_stack, b, text) /\ Turned(process_stack, text)
  BY <1>6, Zenon DEF Base
<1>8. /\ Bottom(symbol_stack, status_stack)
      /\ ~flag => PFirst(symbol_stack, text, priority_stack, last_priority)
      /\ flag => \/ Lost(process_stack, last_priority)
                 \/ PWalk(symbol_stack, process_stack, text, priority_stack, last_priority)
      /\ \A a \in applied : Fine(a, text)
  BY <1>4, WalkingHas
<1>9. \A a \in applied' : Fine(a, text')
  BY <1>4, <1>8
<1>10. CASE is_punc(value)
  BY <1>4, <1>9, <1>10, ToTheEnd DEF Running
<1>11. CASE ~is_punc(value)
  <2>0. pc' = "walking"
    BY <1>4, <1>11
  <2>1. /\ m \in Nat /\ m - 1 \in b .. m /\ m - 1 \in 1 .. m /\ m \in 1 .. m /\ b \in Nat
        /\ value \in Symbols /\ punc \in Symbols /\ IsItem(value, text)
        /\ value.from = punc.to + 1
    BY <1>6, <1>7, TopIs
  <2>2. value.key \in OperandKey
    <3>1. \A k \in Operator \cup {"("} : k \in Punchation
      BY Keys DEF Punchation
    <3> QED BY <1>11, <2>1, <3>1 DEF IsItem, is_punc
  <2>3. /\ punc.key \in Prioritised /\ punc.key \notin {"fn", "LBRACES", "return"}
        /\ punc.key \notin OperandKey /\ Priority[punc.key] <= last_priority
    <3>1. punc.key \in Prioritised /\ Priority[punc.key] <= last_priority
      BY <1>4, Zenon DEF Accepted
    <3> QED BY <3>1, Keys
  <2>4. m - 1 \in b + 1 .. m
    BY <1>7, <2>1, <2>3, NotAtTheBottom, Zenon
  <2>5. punc.key \in Operator \cup {"("} /\ (punc.key = "(" => m - 1 > b + 1)
        /\ (punc.key \in Operator => status_stack[(m - 1) - 1] = 2)
    <3> DEFINE i == m - 1
    <3>1. i \in b + 1 .. Len(symbol_stack) /\ symbol_stack[i].key \notin OperandKey
      BY <2>3, <2>4
    <3> HIDE DEF i, m
    <3>2. /\ symbol_stack[i].key \in OperandKey \cup Operator \cup {"("}
          /\ symbol_stack[i].key = "(" => i > b + 1
          /\ symbol_stack[i].key \in Operator => status_stack[i - 1] = 2
      BY <1>5, <1>7, <3>1, PlacedIs
    <3> QED BY <3>1, <3>2 DEF i, m
  <2>6. m - 2 > b /\ m - 2 \in Nat /\ b \in 2 .. 3
    <3>1. CASE punc.key = "("
      BY <2>1, <2>5, <3>1
    <3>2. CASE punc.key # "("
      <4>1. status_stack[(m - 1) - 1] = 2
        BY <2>5, <3>2
      <4>2. b \in 1 .. b
        BY <2>1
      <4>3. status_stack[b] \in {14, 15, 16}
        BY <1>5, <1>7, <4>2, GroundIs
      <4>4. (m - 1) - 1 # b
        BY <4>1, <4>3
      <4> QED BY <2>1, <2>4, <4>4
    <3> QED BY <3>1, <3>2
  <2>7. /\ Begins(symbol_stack', symbol_stack, m - 2)
        /\ \A i \in 1 .. m - 2 : status_stack'[i] = status_stack[i]
    <3>1. Len(status_stack) = m
      BY <1>5, <1>7, SolidIs
    <3>2. 2 \in Nat /\ 2 <= Len(symbol_stack) /\ 2 <= Len(status_stack)
      BY <2>1, <2>6, <3>1
    <3>3. Len(symbol_stack') = m - 2 /\ \A i \in 1 .. m - 2 : symbol_stack'[i] = symbol_stack[i]
      BY <1>4, <1>5, <3>2, PopIs, ZenonT(60)
    <3>4. \A i \in 1 .. Len(status_stack) - 2 : status_stack'[i] = status_stack[i]
      BY <1>4, <1>5, <3>2, PopIs
    <3> QED BY <3>1, <3>3, <3>4 DEF Begins
  <2>8. Bottom(symbol_stack', status_stack')
    <3> DEFINE k == m - 2
    <3>1. k \in Nat /\ k >= 2 /\ k <= Len(symbol_stack) /\ Len(symbol_stack) \in Nat
      BY <2>1, <2>6
    <3>2. Len(symbol_stack') = k /\ (\A i \in 1 .. k : symbol_stack'[i] = symbol_stack[i])
          /\ \A i \in 1 .. k : status_stack'[i] = status_stack[i]
      BY <2>7 DEF Begins
    <3>3. Bottom(symbol_stack, status_stack)
      BY <1>8
    <3> HIDE DEF k
    <3> QED BY ONLY <3>1, <3>2, <3>3, BottomCut
  <2>9. last_priority' = Priority[punc.key]
    <3>1. is_punc(punc)
      BY <1>4 DEF Accepted
    <3> QED BY <1>4, <2>3, <3>1 DEF After
  <2>10. /\ n \in Nat /\ Len(process_stack') = n + 2 /\ \A i \in 1 .. n : process_stack'[i] = process_stack[i]
         /\ process_stack'[n + 1] = value /\ process_stack'[n + 2] = punc
    <3>1. value \in Symbols /\ punc \in Symbols /\ process_stack \in Seq(Symbols)
          /\ process_stack' = process_stack \o <<value, punc>>
      BY <1>4, <1>5, <2>1
    <3> HIDE DEF value, punc
    <3> QED BY ONLY <3>1 DEF n
  <2>11. process_stack'[Len(process_stack')] = punc
    BY <2>10
  <2>12. CASE punc.key = "(" \/ (flag /\ Lost(process_stack, last_priority))
    <3>1. Priority[punc.key] <= 1
      <4>1. CASE punc.key = "("
        BY <4>1, Tightest
      <4>2. CASE flag /\ Lost(process_stack, last_priority)
        BY <2>3, <4>2 DEF Lost
      <4> QED BY <2>12, <4>1, <4>2
    <3>2. Priority[punc.key] = 1 /\ punc.key \notin Emitted
      BY <2>3, <3>1, Tightest
    <3>3. Lost(process_stack', last_priority')
      BY <2>9, <2>11, <3>2 DEF Lost
    <3> QED BY <1>4, <1>9, <2>0, <2>8, <3>3, ToWalking
  <2>13. CASE punc.key \in Operator /\ ~(flag /\ Lost(process_stack, last_priority))
    <3>1. Len(text) > 0 /\ Len(priority_stack) \in Nat /\ last_priority \in Nat
      BY <1>5, <1>6 DEF Busy
    <3>2. PWalk(symbol_stack', process_stack', text, priority_stack, Priority[punc.key])
      <4>1. CASE ~flag
        <5>1. PFirst(symbol_stack, text, priority_stack, last_priority)
          BY <1>8, <4>1
        <5>2. Len(process_stack) = 0 /\ value.to = Len(text) - 1
          BY <1>6, <4>1
        <5>3. Len(process_stack') = 2 /\ process_stack'[1] = value /\ process_stack'[2] = punc
          BY <2>10, <5>2
        <5>4. punc.key \in Operator /\ Priority[punc.key] <= last_priority
          BY <2>3, <2>13
        <5>5. text \in Seq(TextKey) /\ Begins(symbol_stack', symbol_stack, m - 2)
          BY <1>5, <2>7
        <5> QED BY ONLY <1>7, <2>2, <3>1, <5>1, <5>2, <5>3, <5>4, <5>5, PrecAbsorbFirst
      <4>2. CASE flag
        <5>1. PWalk(symbol_stack, process_stack, text, priority_stack, last_priority)
          BY <1>8, <2>13, <4>2
        <5>2. Joins(symbol_stack, process_stack, 1, Len(text) - 1)
          BY <1>6, <4>2
        <5>3. punc.key \in Operator /\ Priority[punc.key] <= last_priority
          BY <2>3, <2>13
        <5>4. text \in Seq(TextKey) /\ Begins(symbol_stack', symbol_stack, m - 2)
          BY <1>5, <2>7
        <5> QED BY ONLY <1>7, <2>10, <3>1, <5>1, <5>2, <5>3, <5>4, PrecAbsorbMore
      <4> QED BY <4>1, <4>2
    <3>3. PWalk(symbol_stack', process_stack', text', priority_stack', last_priority')
      BY <1>4, <2>9, <3>2
    <3> QED BY <1>4, <1>9, <2>0, <2>8, <3>3, ToWalking
  <2> QED BY <2>5, <2>12, <2>13
<1> QED BY <1>10, <1>11

-----------------------------------------------------------------------------
(* The iteration that ends the loop. *)

\* The symbol below the operand is not accepted, and last_priority becomes l2.
Halting(y, l, l2) ==
  /\ y.key # "("
  /\ y.key \in Operator => l < Priority[y.key] /\ l2 = Priority[y.key]
  /\ y.key \notin Operator => l2 = l

\* No operator was taken.
LEMMA PrecStopFirst ==
  ASSUME NEW ss, NEW st, NEW b, NEW tx \in Seq(TextKey), Solid(ss, st, b, tx), Len(tx) > 0,
         NEW pr, Len(pr) \in Nat, NEW l \in Nat, PFirst(ss, tx, pr, l), NEW m, m = Len(ss), m > b,
         ss[m].key \in OperandKey, ss[m].to = Len(tx) - 1, NEW l2, Halting(ss[m - 1], l, l2)
  PROVE  PReturned(ss, tx, pr, l2, FALSE)
<1> DEFINE d == Len(pr)
           y == ss[m - 1]
<1>1. /\ Nested(ss, tx) /\ Height(ss, tx, d) /\ Settled(ss, tx, pr, l, d + 1)
      /\ Met(tx, pr, l, d, Len(tx) - 1) /\ Loose(tx, d)
      /\ tx[Len(tx)] \in Operator => None(tx, d, ss[m].from, ss[m].to)
  BY Zenon DEF PFirst, Whole
<1>2. Len(tx) \in Nat /\ ss \in Seq(Symbols) /\ m \in Nat /\ b \in 2 .. 3
  BY SolidIs
<1>3. m \in 1 .. Len(ss) /\ m - 1 \in 1 .. Len(ss) /\ Len(ss) > 1 /\ m = Len(ss) /\ m - 1 = Len(ss) - 1
  BY <1>2
<1>4. ss[m].from > 0 /\ Level(ss[m], tx) = d
  <2>1. ss[m].from > 0
    BY <1>3, SymbolsAre
  <2>2. ss[m].key # "("
    BY GroundKeys
  <2> QED BY <1>1, <2>1, <2>2 DEF Height
<1>5. Kept(tx, d, ss[m].from, ss[m].to, tx[Len(tx)])
  BY <1>1, KeptNone, KeptOther
<1>6. ASSUME y.key \in Operator
      PROVE  /\ y.from \in At(tx, d) /\ tx[y.from] = y.key
             /\ y.from \in Nat /\ y.from <= Len(tx) - 1
             /\ Tighter(tx, d, y.from, Priority[y.key])
  <2>1. tx \in Seq(TextKey) /\ Solid(ss, st, b, tx) /\ Nested(ss, tx) /\ Height(ss, tx, d)
        /\ m = Len(ss) /\ ss[m].key \in OperandKey /\ ss[m - 1].key \in Operator
    BY <1>1, <1>6
  <2>2. /\ y.from \in At(tx, d) /\ tx[y.from] = y.key
        /\ ss[m].from = y.from + 1 /\ y.from \in Nat
        /\ ss[m].to \in Nat /\ ss[m].from \in Nat /\ ss[m].from <= ss[m].to
    <3> HIDE DEF d
    <3> QED BY ONLY <2>1, TakenOff
  <2>3. y.from <= Len(tx) - 1
    BY <1>2, <2>2
  <2>4. Level(y, tx) = d
    BY <2>2 DEF At, Level
  <2>5. Left(y, tx, l)
    BY <1>1, <1>3, <1>6, <2>4, SettledBelow
  <2>6. l # Priority[y.key]
    <3>1. l < Priority[y.key] /\ Priority[y.key] \in Nat
      BY <1>6, OperatorsRank DEF Halting
    <3> QED BY <3>1
  <2>7. Tighter(tx, d, y.from, Priority[y.key])
    BY <2>4, <2>5, <2>6 DEF Left
  <2> QED BY <2>2, <2>3, <2>7
<1>7. Settled(ss, tx, pr, l2, d + 1)
  <2>1. CASE y.key \in Operator
    <3>1. Settled(ss, tx, pr, l, d)
      BY <1>1, SettledOther
    <3>2. \A i \in Len(ss) - 1 .. Len(ss) : ss[i].key \in Operator => Left(ss[i], tx, l2)
      <4>1. l2 = Priority[y.key]
        BY <2>1 DEF Halting
      <4>2. ss[m].key \notin Operator
        BY GroundKeys
      <4>3. \A i \in Len(ss) - 1 .. Len(ss) : i = m \/ i = m - 1
        BY <1>2
      <4> QED BY <4>1, <4>2, <4>3 DEF Left
    <3>3. \A i \in 1 .. Len(ss) : ss[i].key \in Operator => Level(ss[i], tx) \in Int
      BY SymbolsAre
    <3>4. Level(ss[Len(ss)], tx) = Len(pr) /\ ss[Len(ss)].key # "("
      BY <1>4, GroundKeys
    <3> QED BY <1>2, <1>3, <3>1, <3>2, <3>3, <3>4, SettledTop
  <2>2. CASE y.key \notin Operator
    BY <1>1, <2>2 DEF Halting
  <2> QED BY <2>1, <2>2
<1>8. Met(tx, pr, l2, d, Len(tx) - 1)
  <2>1. CASE y.key \in Operator
    <3>1. l2 = Priority[tx[y.from]]
      BY <1>6, <2>1 DEF Halting
    <3> QED BY <1>1, <1>6, <2>1, <3>1, MetOther
  <2>2. CASE y.key \notin Operator
    BY <1>1, <2>2 DEF Halting
  <2> QED BY <2>1, <2>2
<1>9. y.key \in Operator => Tighter(tx, d, Len(tx), Priority[y.key])
  <2>1. SUFFICES ASSUME y.key \in Operator PROVE Tighter(tx, d, Len(tx), Priority[y.key])
    OBVIOUS
  <2>2. Tighter(tx, d, y.from, Priority[y.key]) /\ y.from \in Nat /\ y.from <= Len(tx)
    BY <1>2, <1>6, <2>1
  <2>3. Priority[y.key] \in Nat
    BY <2>1, OperatorsRank
  <2> QED BY <1>2, <2>2, <2>3, TighterUp
<1>10. Whole(ss, tx, pr, l2, Len(tx) - 1)
  BY <1>1, <1>7, <1>8 DEF Whole
<1> QED BY <1>1, <1>5, <1>6, <1>9, <1>10 DEF PReturned, Halting

\* A walk that has taken an operator.
Walked(ss, st, b, tx, ps, pr, l, m) ==
  /\ tx \in Seq(TextKey) /\ Solid(ss, st, b, tx) /\ Len(tx) > 0
  /\ Turned(ps, tx) /\ Joins(ss, ps, 1, Len(tx) - 1)
  /\ Len(pr) \in Nat /\ l \in Nat /\ PWalk(ss, ps, tx, pr, l)
  /\ m = Len(ss) /\ m > b

LEMMA WalkStack ==
  ASSUME NEW ss, NEW st, NEW b, NEW tx, NEW ps, NEW pr, NEW l, NEW m, Walked(ss, st, b, tx, ps, pr, l, m)
  PROVE  /\ tx \in Seq(TextKey) /\ Len(tx) \in Nat /\ Len(tx) > 0 /\ Solid(ss, st, b, tx)
         /\ m = Len(ss) /\ m \in Nat /\ b \in 2 .. 3 /\ m \in b + 1 .. m /\ m \in 1 .. m /\ m - 1 \in 1 .. m
         /\ ss[m].from > 0 /\ Level(ss[m], tx) = Len(pr) /\ ss[m].from = ss[m - 1].to + 1
         /\ ss[m].from \in Nat /\ ss[m].to \in Nat /\ ss[m].from <= ss[m].to
<1>1. /\ tx \in Seq(TextKey) /\ Solid(ss, st, b, tx) /\ Len(tx) > 0
      /\ m = Len(ss) /\ m > b
  BY Zenon DEF Walked
<1>2. Height(ss, tx, Len(pr)) /\ ss[m].key \in OperandKey
  BY Zenon DEF Walked, PWalk
<1>3. Len(tx) \in Nat /\ m \in Nat /\ b \in 2 .. 3
  BY <1>1, SolidIs
<1>4. m \in b + 1 .. m /\ m \in 1 .. m /\ m - 1 \in 1 .. m
  BY <1>1, <1>3
<1>5. ss[m].from > 0 /\ ss[m].from = ss[m - 1].to + 1
  BY <1>1, <1>4, PlacedIs
<1>6. ss[m].from \in Nat /\ ss[m].to \in Nat /\ ss[m].from <= ss[m].to
  BY <1>1, <1>4, SymbolIs
<1>7. Level(ss[m], tx) = Len(pr)
  BY <1>1, <1>2, <1>5, GroundKeys DEF Height
<1> QED BY <1>1, <1>3, <1>4, <1>5, <1>6, <1>7

LEMMA WalkBack ==
  ASSUME NEW ss, NEW st, NEW b, NEW tx, NEW ps, NEW pr, NEW l, NEW m, Walked(ss, st, b, tx, ps, pr, l, m)
  PROVE  /\ ps \in Seq(Symbols) /\ Len(ps) \in Nat /\ Len(ps) >= 2 /\ Len(ps) \in 1 .. Len(ps)
         /\ ps[Len(ps)].from = ss[m].to + 1 /\ ps[1].to = Len(tx) - 1
         /\ ps[Len(ps)].from \in At(tx, Len(pr)) /\ l = Priority[tx[ps[Len(ps)].from]]
         /\ ps[Len(ps)].from < Len(tx)
         /\ \A i \in 1 .. Len(ps) : ps[i].from \in Nat /\ ps[i].to \in Nat
         /\ \A i \in 1 .. Len(ps) : i < Len(ps) => ps[Len(ps)].to < ps[i].from
         /\ \A i \in 1 .. Len(ps) : ps[i].from <= ps[i].to
<1> DEFINE n == Len(ps)
           y == ps[n]
<1>1. tx \in Seq(TextKey) /\ Len(tx) \in Nat /\ Len(tx) > 0 /\ m = Len(ss)
  BY WalkStack
<1>2. Turned(ps, tx) /\ Joins(ss, ps, 1, Len(tx) - 1)
  BY Zenon DEF Walked
<1>3. /\ n >= 2 /\ y.key \in Operator /\ l = Priority[y.key]
      /\ \A i \in 2 .. n : ps[i].key \in Operator => Passed(ss, ps, tx, Len(pr), l, i)
  BY Zenon DEF Walked, PWalk
<1>4. ps \in Seq(Symbols) /\ \A i \in 1 .. n : Within(ps[i], Len(tx))
  BY <1>2, Zenon DEF Turned, Stretches
<1>5. n \in Nat /\ n \in 1 .. n /\ n \in 2 .. n
  BY <1>3, <1>4
<1>6. \A i \in 1 .. n : ps[i].from \in Nat /\ ps[i].to \in Nat /\ ps[i].from <= ps[i].to /\ ps[i].to <= Len(tx)
  BY <1>4, SymbolAt DEF Within
<1>7. y.from = ss[m].to + 1 /\ ps[1].to = Len(tx) - 1
  BY <1>1, <1>2 DEF Joins
<1>8. y.from \in At(tx, Len(pr))
  BY <1>3, <1>5 DEF Passed
<1>9. tx[y.from] = y.key
  <2>1. IsItem(y, tx) /\ y.key \notin OperandKey
    BY <1>2, <1>3, <1>5, GroundKeys, Zenon DEF Turned
  <2> QED BY <2>1 DEF IsItem
<1>10. \A i \in 1 .. n : i < n => y.to < ps[i].from
  <2>1. SUFFICES ASSUME NEW i \in 1 .. n, i < n PROVE y.to < ps[i].from
    OBVIOUS
  <2>2. n \in i + 1 .. n
    BY <1>5, <2>1
  <2> QED BY <1>2, <2>2, Zenon DEF Turned
<1>11. y.from < Len(tx)
  <2>1. 1 \in 1 .. n /\ 1 < n
    BY <1>3, <1>5
  <2>2. y.to < ps[1].from
    BY <1>10, <2>1
  <2>3. /\ ps[1].from \in Nat /\ ps[1].to \in Nat /\ ps[1].from <= ps[1].to
        /\ y.from \in Nat /\ y.to \in Nat /\ y.from <= y.to
    BY <1>5, <1>6, <2>1
  <2> HIDE DEF y
  <2> QED BY ONLY <1>1, <1>7, <2>2, <2>3
<1> QED BY <1>3, <1>4, <1>5, <1>6, <1>7, <1>8, <1>9, <1>10, <1>11

\* The symbol below the operand ends in front of it; if that is an operator, so is the symbol.
LEMMA WalkBelow ==
  ASSUME NEW ss, NEW st, NEW b, NEW tx, NEW ps, NEW pr, NEW l, NEW m, Walked(ss, st, b, tx, ps, pr, l, m),
         ss[m - 1].key # "(", ss[m].from > 1, tx[ss[m].from - 1] \in Operator
  PROVE  ss[m - 1].key = tx[ss[m].from - 1]
<1> DEFINE y == ss[m - 1]
           i == m - 1
<1>0. Nested(ss, tx)
  BY Zenon DEF Walked, PWalk
<1>1. /\ tx \in Seq(TextKey) /\ Solid(ss, st, b, tx)
      /\ m = Len(ss) /\ m - 1 \in 1 .. m
      /\ ss[m].from = ss[m - 1].to + 1 /\ Nested(ss, tx)
  BY <1>0, WalkStack
<1>2. i \in 1 .. Len(ss) /\ y = ss[i]
  BY <1>1
<1> HIDE DEF i
<1>3. ss[i].to \in Nat /\ ss[i].from \in Nat
  BY <1>1, <1>2, SymbolIs
<1>4. tx[y.to] \in Operator /\ y.to > 0 /\ ss[m].from - 1 = y.to
  BY <1>1, <1>2, <1>3
<1>5. y.from > 0
  <2>1. ss[i].from = 0 => ss[i].to = 0
    BY <1>1, <1>2, SymbolsAre
  <2> QED BY <1>2, <1>3, <1>4, <2>1
<1>6. i \in b + 1 .. Len(ss)
  BY <1>1, <1>2, <1>5, SymbolsAre
<1>7. y.key \notin OperandKey
  <2>1. Item(ss[i], tx)
    BY <1>1, <1>2, NestedIs
  <2>2. y.key \in OperandKey => tx[y.to] \in {"id", "digit", ")"}
    BY <1>2, <1>5, <2>1, Zenon DEF Item
  <2>3. tx[y.to] \notin {"id", "digit", ")"}
    BY <1>4, GroundKeys DEF OperandKey
  <2> QED BY <2>2, <2>3
<1>8. ss[i].from = ss[i].to /\ tx[ss[i].from] = ss[i].key
  BY <1>1, <1>2, <1>6, <1>7, PlacedIs
<1> QED BY <1>2, <1>4, <1>8

\* What the walk took is ready to be applied.
LEMMA WalkReady ==
  ASSUME NEW ss, NEW st, NEW b, NEW tx, NEW ps, NEW pr, NEW l, NEW m, Walked(ss, st, b, tx, ps, pr, l, m),
         NEW l2, Halting(ss[m - 1], l, l2),
         NEW p2, Len(p2) = Len(ps) + 1, \A i \in 1 .. Len(ps) : p2[i] = ps[i], p2[Len(ps) + 1] = ss[m],
         NEW i \in 2 .. Len(ps), ps[i].key \in Operator
  PROVE  Ready(p2, tx, Len(pr), i)
<1> DEFINE d == Len(pr)
           n == Len(ps)
           y == ps[n]
           z == ss[m - 1]
           x == ps[i]
           t == ps[i - 1].to
           f == ss[m].from
<1>1. /\ tx \in Seq(TextKey) /\ Len(tx) \in Nat /\ Len(tx) > 0
      /\ m = Len(ss) /\ m \in 1 .. m /\ m - 1 \in 1 .. m
      /\ f = z.to + 1 /\ f \in Nat /\ ss[m].to \in Nat /\ f <= ss[m].to
  BY WalkStack
<1>2. /\ n \in Nat /\ n >= 2 /\ n \in 1 .. n
      /\ y.from = ss[m].to + 1
      /\ y.from \in At(tx, d) /\ l = Priority[tx[y.from]]
      /\ \A j \in 1 .. n : ps[j].from \in Nat /\ ps[j].to \in Nat
      /\ \A j \in 1 .. n : j < n => y.to < ps[j].from
      /\ \A j \in 1 .. n : ps[j].from <= ps[j].to
  BY WalkBack
<1>3. /\ l \in Nat /\ Kept(tx, d, f, ss[m].to, y.key) /\ y.key \in Operator /\ l = Priority[y.key]
      /\ Passed(ss, ps, tx, d, l, i)
  BY Zenon DEF Walked, PWalk
<1>4. i \in 1 .. n /\ i - 1 \in 1 .. n /\ i \in Nat
  BY <1>2
<1>5. p2[i] = x /\ p2[i - 1].to = t /\ p2[Len(p2)].from = f
  BY <1>4
<1>6. /\ x.from \in At(tx, d)
      /\ Kept(tx, d, y.from, t, x.key)
      /\ tx[t + 1] \in Operator => Priority[x.key] <= Priority[tx[t + 1]]
      /\ l <= Priority[x.key]
      /\ l < Priority[x.key] => Tighter(tx, d, x.from, l)
  BY <1>3 DEF Passed
<1>7. Kept(tx, d, f, t, x.key)
  <2>1. Kept(tx, d, f, ss[m].to, x.key)
    BY <1>1, <1>3, <1>6, KeptUp, ZenonT(60)
  <2>2. Kept(tx, d, ss[m].to + 1, t, x.key) /\ t \in Nat
    BY <1>2, <1>4, <1>6
  <2> HIDE DEF d, f, t, x
  <2> QED BY <1>1, <2>1, <2>2, KeptJoin
<1>8. ASSUME f > 1, tx[f - 1] \in Operator, Priority[tx[f - 1]] <= Priority[x.key]
      PROVE  \E u \in At(tx, d) :
               /\ f <= u /\ u < x.from /\ Priority[tx[u]] < Priority[tx[f - 1]]
               /\ Tighter(tx, d, x.from, Priority[tx[u]])
  <2>1. z.key = tx[f - 1]
    BY <1>8, WalkBelow DEF Halting
  <2>2. l < Priority[tx[f - 1]]
    BY <1>8, <2>1 DEF Halting
  <2>3. Priority[x.key] \in Nat /\ Priority[tx[f - 1]] \in Nat
    BY <1>8, OperatorsRank
  <2>4. l < Priority[x.key]
    BY <1>3, <1>8, <2>2, <2>3
  <2>5. i # n
    BY <1>3, <2>3, <2>4
  <2>6. y.from < x.from
    <3>1. y.to < x.from /\ y.from <= y.to /\ y.from \in Nat /\ y.to \in Nat /\ x.from \in Nat
      BY <1>2, <1>4, <2>5
    <3> QED BY ONLY <3>1
  <2>7. f <= y.from
    <3>1. y.from = ss[m].to + 1 /\ f \in Nat /\ ss[m].to \in Nat /\ f <= ss[m].to
      BY <1>1, <1>2
    <3> QED BY ONLY <3>1
  <2> QED BY <1>2, <1>6, <2>2, <2>4, <2>6, <2>7
<1> HIDE DEF d, n, y, z, x, t, f
<1>9. Ready(p2, tx, d, i)
  BY <1>5, <1>6, <1>7, <1>8 DEF Ready
<1> QED BY <1>9 DEF d

\* None of the operators behind binds looser than the token that came, or than
\* the symbol below, unless four priorities meet.
LEMMA WalkKept ==
  ASSUME NEW ss, NEW st, NEW b, NEW tx, NEW ps, NEW pr, NEW l, NEW m, Walked(ss, st, b, tx, ps, pr, l, m),
         NEW l2, Halting(ss[m - 1], l, l2),
         ss[m - 1].key \in Operator =>
           ss[m - 1].from \in At(tx, Len(pr)) /\ tx[ss[m - 1].from] = ss[m - 1].key
  PROVE  /\ Kept(tx, Len(pr), ss[m].from, Len(tx) - 1, tx[Len(tx)])
         /\ Kept(tx, Len(pr), ss[m].from, Len(tx) - 1, ss[m - 1].key)
<1> DEFINE d == Len(pr)
           n == Len(ps)
           y == ps[n]
           z == ss[m - 1]
           x == ps[2]
           f == ss[m].from
           r == Len(tx) - 1
           p2 == Append(ps, ss[m])
<1>1. /\ tx \in Seq(TextKey) /\ Len(tx) \in Nat /\ Len(tx) > 0 /\ m \in 1 .. m /\ m = Len(ss)
      /\ ss[m].to \in Nat
  BY WalkStack
<1>2. /\ ps \in Seq(Symbols) /\ n \in Nat /\ n >= 2
      /\ y.from \in At(tx, d) /\ l = Priority[tx[y.from]] /\ ps[1].to = r
  BY WalkBack
<1>3. /\ l \in Nat /\ Kept(tx, d, f, ss[m].to, y.key) /\ y.key \in Operator /\ l = Priority[y.key]
      /\ x.key \in Operator /\ y.from = ss[m].to + 1
      /\ \A i \in 2 .. n : ps[i].key \in Operator => Passed(ss, ps, tx, d, l, i)
  <2>1. y.from = ss[m].to + 1
    BY WalkBack
  <2>2. /\ l \in Nat /\ Kept(tx, d, f, ss[m].to, y.key) /\ y.key \in Operator /\ l = Priority[y.key]
        /\ x.key \in Operator
        /\ \A i \in 2 .. n : ps[i].key \in Operator => Passed(ss, ps, tx, d, l, i)
    BY Zenon DEF Walked, PWalk
  <2> QED BY <2>1, <2>2
<1>4. Passed(ss, ps, tx, d, l, 2)
  BY <1>2, <1>3
<1>5. /\ x.from \in At(tx, d) /\ Kept(tx, d, y.from, r, x.key)
      /\ tx[r + 1] \in Operator => Priority[x.key] <= Priority[tx[r + 1]]
      /\ l <= Priority[x.key]
      /\ l < Priority[x.key] => Tighter(tx, d, x.from, l)
  <2> DEFINE i == 2
  <2>1. ps[i - 1].to = r /\ ps[i] = x /\ Passed(ss, ps, tx, d, l, i)
    BY <1>2, <1>4
  <2> HIDE DEF i, r, x, d
  <2> QED BY <2>1, <1>2 DEF Passed
<1>6. Kept(tx, d, f, r, x.key)
  <2>1. Kept(tx, d, f, ss[m].to, x.key)
    BY <1>1, <1>3, <1>5, KeptUp
  <2>2. Kept(tx, d, ss[m].to + 1, r, x.key) /\ r \in Nat
    BY <1>1, <1>3, <1>5
  <2> HIDE DEF d, f, r, x
  <2> QED BY <1>1, <2>1, <2>2, KeptJoin
<1>7. Kept(tx, d, f, r, tx[Len(tx)])
  <2>1. tx[Len(tx)] \in Operator => Priority[x.key] <= Priority[tx[Len(tx)]]
    <3>1. r + 1 = Len(tx)
      BY <1>1
    <3> QED BY <1>5, <3>1
  <2> HIDE DEF d, f, r, x
  <2> QED BY <1>1, <1>3, <1>6, <2>1, KeptUp
<1>8. Kept(tx, d, f, r, z.key)
  <2>1. SUFFICES ASSUME z.key \in Operator, NEW q \in At(tx, d), f <= q, q <= r,
                        ~(Priority[tx[q]] <= Priority[z.key])
                 PROVE  Four(tx, d)
    BY DEF Kept
  <2>2. Priority[tx[q]] <= Priority[x.key] \/ Four(tx, d)
    BY <1>3, <1>6, <2>1 DEF Kept
  <2>3. l < Priority[z.key] /\ z.from \in At(tx, d) /\ tx[z.from] = z.key
    BY <2>1 DEF Halting
  <2>4. Priority[tx[q]] \in Nat /\ Priority[x.key] \in Nat /\ Priority[z.key] \in Nat
    BY <1>1, <1>3, <2>1, OperatorsRank, OperatorsArePlaces
  <2>5. CASE Priority[tx[q]] <= Priority[x.key]
    <3>1. l < Priority[x.key] /\ Priority[z.key] < Priority[tx[q]]
      <4> HIDE DEF x, z
      <4> QED BY ONLY <1>3, <2>1, <2>3, <2>4, <2>5
    <3>2. PICK s \in At(tx, d) : Priority[tx[s]] < l
      BY <1>5, <3>1 DEF Tighter
    <3>3. /\ s \in At(tx, d) /\ y.from \in At(tx, d) /\ z.from \in At(tx, d) /\ q \in At(tx, d)
          /\ Priority[tx[s]] < Priority[tx[y.from]]
          /\ Priority[tx[y.from]] < Priority[tx[z.from]]
          /\ Priority[tx[z.from]] < Priority[tx[q]]
      BY <1>2, <2>1, <2>3, <3>1, <3>2
    <3> HIDE DEF y, z, d
    <3> QED BY <3>3 DEF Four
  <2> QED BY <2>2, <2>5
<1> QED BY <1>7, <1>8

\* The stacks of the end of the walk.
LEMMA WalkCut ==
  ASSUME NEW ss, NEW st, NEW b, NEW tx, NEW ps, NEW pr, NEW l, NEW m, Walked(ss, st, b, tx, ps, pr, l, m),
         NEW l2, Halting(ss[m - 1], l, l2), NEW zs, Begins(zs, ss, m - 1),
         ss[m - 1].key \in Operator =>
           ss[m - 1].from \in At(tx, Len(pr)) /\ tx[ss[m - 1].from] = ss[m - 1].key
  PROVE  /\ Nested(zs, tx) /\ Height(zs, tx, Len(pr))
         /\ Settled(zs, tx, pr, l2, Len(pr)) /\ Met(tx, pr, l2, Len(pr), Len(tx) - 1)
<1> DEFINE d == Len(pr)
           z == ss[m - 1]
<1>1. /\ tx \in Seq(TextKey) /\ Len(tx) \in Nat /\ Len(tx) > 0 /\ Solid(ss, st, b, tx)
      /\ m = Len(ss) /\ m \in Nat /\ b \in 2 .. 3 /\ m \in b + 1 .. m /\ m \in 1 .. m /\ m - 1 \in 1 .. m
      /\ ss[m].from > 0 /\ Level(ss[m], tx) = d
      /\ ss[m].from \in Nat /\ ss[m].to \in Nat /\ ss[m].from <= ss[m].to
  BY WalkStack
<1>2. /\ Nested(ss, tx) /\ Settled(ss, tx, pr, l, d) /\ Met(tx, pr, l, d, Len(tx) - 1) /\ d \in Nat
      /\ ss[m].key \in OperandKey
  BY Zenon DEF Walked, PWalk
<1>3. Len(zs) = m - 1 /\ \A i \in 1 .. m - 1 : zs[i] = ss[i]
  BY DEF Begins
<1>4. Len(ss) \in Nat /\ m - 1 \in 0 .. Len(ss) /\ m \in 2 .. Len(ss) /\ m - 1 \in 1 .. m - 1
  BY <1>1
<1>5. Nested(zs, tx)
  BY <1>2, <1>3, <1>4, NestedCut
<1>6. Height(zs, tx, d)
  <2>1. zs[m - 1] = ss[m - 1]
    BY <1>3, <1>4
  <2>2. Height(zs, tx, Level(ss[m], tx))
    BY <1>1, <1>2, <1>3, <1>4, <2>1, HeightUnder
  <2> QED BY <1>1, <2>2
<1>7. Settled(zs, tx, pr, l2, d)
  <2>1. Settled(ss, tx, pr, l2, d)
    BY <1>1, <1>2, SettledOther
  <2>2. \A i \in (m - 1) + 1 .. Len(ss) : ss[i].key = "(" \/ ~(Level(ss[i], tx) < d)
    <3>1. SUFFICES ASSUME NEW i \in (m - 1) + 1 .. Len(ss) PROVE ~(Level(ss[i], tx) < d)
      OBVIOUS
    <3>2. i = m
      BY <1>1, <3>1
    <3> QED BY <1>1, <1>2, <3>2
  <2> QED BY <1>3, <1>4, <2>1, <2>2, SettledCut
<1>8. Met(tx, pr, l2, d, Len(tx) - 1)
  <2>1. CASE z.key \in Operator
    <3>1. z.from \in At(tx, d) /\ l2 = Priority[tx[z.from]]
      BY <2>1 DEF Halting
    <3>2. z.from <= Len(tx) - 1
      <4>1. z.from \in Nat /\ z.to \in Nat /\ z.from <= z.to
        <5> DEFINE i == m - 1
        <5>1. i \in 1 .. Len(ss)
          BY <1>1
        <5> HIDE DEF i
        <5>2. ss[i].from \in Nat /\ ss[i].to \in Nat /\ ss[i].from <= ss[i].to
          BY <1>1, <5>1, SymbolIs
        <5> QED BY <5>2 DEF i
      <4>2. ss[m].from = z.to + 1 /\ ss[m].to <= Len(tx)
        <5>1. ss[m].to <= Len(tx)
          BY <1>1, SymbolIs
        <5> QED BY <1>1, <5>1, WalkStack
      <4> QED BY <1>1, <4>1, <4>2, SMTT(30)
    <3> QED BY <1>2, <3>1, <3>2, MetOther
  <2>2. CASE z.key \notin Operator
    BY <1>2, <2>2 DEF Halting
  <2> QED BY <2>1, <2>2
<1> QED BY <1>5, <1>6, <1>7, <1>8

\* What the walk took is in order.
LEMMA PrecStopMore ==
  ASSUME NEW ss, NEW st, NEW b, NEW tx, NEW ps, NEW pr, NEW l, NEW m, Walked(ss, st, b, tx, ps, pr, l, m),
         NEW l2, Halting(ss[m - 1], l, l2), NEW zs, Begins(zs, ss, m - 1),
         NEW p2, Len(p2) = Len(ps) + 1, \A i \in 1 .. Len(ps) : p2[i] = ps[i], p2[Len(ps) + 1] = ss[m]
  PROVE  PClear(zs, p2, tx, pr, l2)
<1> DEFINE d == Len(pr)
           n == Len(ps)
           y == ps[n]
           z == ss[m - 1]
           f == ss[m].from
           r == Len(tx) - 1
<1>1. /\ tx \in Seq(TextKey) /\ Len(tx) \in Nat /\ Len(tx) > 0 /\ Solid(ss, st, b, tx)
      /\ m = Len(ss) /\ m \in Nat /\ b \in 2 .. 3 /\ m \in 1 .. m /\ m - 1 \in 1 .. m
      /\ ss[m].from > 0 /\ Level(ss[m], tx) = d
      /\ ss[m].from \in Nat /\ ss[m].to \in Nat /\ ss[m].from <= ss[m].to
  BY WalkStack
<1>2. /\ n \in Nat /\ n >= 2 /\ y.from = ss[m].to + 1
      /\ y.from \in At(tx, d) /\ l = Priority[tx[y.from]] /\ y.from < Len(tx)
  BY WalkBack
<1>3. /\ Nested(ss, tx) /\ Height(ss, tx, d) /\ Loose(tx, d) /\ ss[m].key \in OperandKey
      /\ Deep(tx, d, y.from, r) /\ tx[r] \in {"id", "digit", ")"} /\ l \in Nat
  BY Zenon DEF Walked, PWalk
<1>4. z.key \in Operator => z.from \in At(tx, d) /\ tx[z.from] = z.key
  <2>1. SUFFICES ASSUME z.key \in Operator PROVE z.from \in At(tx, d) /\ tx[z.from] = z.key
    OBVIOUS
  <2>2. tx \in Seq(TextKey) /\ Solid(ss, st, b, tx) /\ Nested(ss, tx) /\ Height(ss, tx, d)
        /\ m = Len(ss) /\ ss[m].key \in OperandKey /\ ss[m - 1].key \in Operator
    BY <1>1, <1>3, <2>1
  <2> HIDE DEF d
  <2> QED BY ONLY <2>2, TakenOff
<1>5. Nested(zs, tx) /\ Height(zs, tx, d) /\ Settled(zs, tx, pr, l2, d) /\ Met(tx, pr, l2, d, r)
  BY <1>4, WalkCut
<1>6. Kept(tx, d, f, r, tx[Len(tx)]) /\ Kept(tx, d, f, r, z.key)
  BY <1>4, WalkKept
<1>7. /\ z.key # "("
      /\ z.key \in Operator => l2 = Priority[z.key]
      /\ z.key \in Operator => l < Priority[z.key]
  BY DEF Halting
<1>8. z.key \in Operator => Tighter(tx, d, Len(tx), Priority[z.key])
  BY <1>2, <1>7, TighterBy
<1>9. z.key \in OperandKey => tx[f] = "(" /\ tx[z.to] # "id"
  <2>1. m \in 2 .. Len(ss)
    BY <1>1
  <2>2. OnTop(ss[m - 1], ss[m], tx)
    BY <1>3, <2>1, <1>1, NestedIs
  <2> QED BY <1>1, <1>3, <2>2, Zenon DEF OnTop
<1>10. Deep(tx, d, f, r)
  <2>1. Item(ss[m], tx)
    BY <1>1, <1>3, NestedIs
  <2>2. Deep(tx, d, f, ss[m].to)
    BY <1>1, <2>1, Zenon DEF Item
  <2>3. Deep(tx, d, ss[m].to + 1, r) /\ r \in Nat /\ f \in Nat /\ ss[m].to \in Nat
    BY <1>1, <1>2, <1>3
  <2> HIDE DEF d, f, r
  <2> QED BY <2>2, <2>3, DeepJoin
<1>11. \A i \in 2 .. n : ps[i].key \in Operator => Ready(p2, tx, d, i)
  BY WalkReady
<1>12. \A i \in 2 .. Len(p2) - 1 : p2[i].key \in Operator => Ready(p2, tx, d, i)
  <2>1. SUFFICES ASSUME NEW i \in 2 .. Len(p2) - 1, p2[i].key \in Operator PROVE Ready(p2, tx, d, i)
    OBVIOUS
  <2>2. i \in 2 .. n /\ i \in 1 .. n
    BY <1>2
  <2>3. ps[i].key \in Operator
    BY <2>1, <2>2
  <2> QED BY <1>11, <2>2, <2>3
<1>13. p2[Len(p2)].from = f /\ Len(p2) # 1 /\ zs[Len(zs)] = z
  <2>1. Len(p2) = n + 1 /\ p2[n + 1] = ss[m] /\ n \in Nat /\ n >= 2
    BY <1>2
  <2>2. Len(p2) # 1
    BY ONLY <2>1
  <2>3. m - 1 \in 1 .. m - 1
    BY <1>1
  <2> QED BY <2>1, <2>2, <2>3 DEF Begins
<1> HIDE DEF d, n, y, z, f, r
<1>14. PClear(zs, p2, tx, pr, l2)
  BY <1>3, <1>5, <1>6, <1>7, <1>8, <1>9, <1>10, <1>12, <1>13 DEF PClear, d, r
<1> QED BY <1>14

LEMMA PrecStop == ASSUME EInv, PInv, stop PROVE PInv'
<1> DEFINE value == symbol_stack[Len(symbol_stack)]
           punc == symbol_stack[Len(symbol_stack) - 1]
           m == Len(symbol_stack)
           n == Len(process_stack)
<1>1. Typed /\ \E b \in 2 .. 3 : AtWalking(b)
  BY WalkingIs, Zenon DEF stop
<1>2. PICK b \in 2 .. 3 : AtWalking(b)
  BY <1>1
<1>3. Top = value
  BY DEF Last, Top
<1>4. /\ pc = "walking" /\ ~Accepted(punc)
      /\ last_priority' = After(punc)
      /\ IF flag
         THEN /\ process_stack' = Append(process_stack, value)
              /\ symbol_stack' = Pop(symbol_stack, 1)
              /\ status_stack' = Pop(status_stack, 1)
              /\ pc' = "clearing"
         ELSE /\ pc' = "returned"
              /\ UNCHANGED <<process_stack, symbol_stack, status_stack>>
      /\ UNCHANGED <<priority_stack, current_input, flag, text, applied, before>>
  BY <1>3, Zenon DEF stop
<1>5. /\ symbol_stack \in Seq(Symbols) /\ process_stack \in Seq(Symbols)
      /\ status_stack \in Seq(Statuses) /\ Len(priority_stack) \in Nat
      /\ text \in Seq(TextKey) /\ Len(text) \in Nat
      /\ last_priority \in 1 .. 255
  BY <1>1, TypesAre
<1>6. /\ Base(b) /\ Busy(Ends) /\ Len(symbol_stack) > b
      /\ IF flag THEN Joins(symbol_stack, process_stack, 1, Len(text) - 1)
         ELSE /\ Len(process_stack) = 0 /\ status_stack[Len(status_stack)] = 2
              /\ symbol_stack[Len(symbol_stack)].to = Len(text) - 1
  BY <1>2, Zenon DEF AtWalking
<1>7. /\ Solid(symbol_stack, status_stack, b, text) /\ Turned(process_stack, text)
  BY <1>6, Zenon DEF Base
<1>8. /\ Bottom(symbol_stack, status_stack)
      /\ ~flag => PFirst(symbol_stack, text, priority_stack, last_priority)
      /\ flag => \/ Lost(process_stack, last_priority)
                 \/ PWalk(symbol_stack, process_stack, text, priority_stack, last_priority)
      /\ \A a \in applied : Fine(a, text)
  BY <1>4, WalkingHas
<1>9. \A a \in applied' : Fine(a, text')
  BY <1>4, <1>8
<1>10. /\ m \in Nat /\ m - 1 \in b .. m /\ m - 1 \in 1 .. m /\ m \in 1 .. m /\ b \in Nat
       /\ value \in Symbols /\ punc \in Symbols
  BY <1>6, <1>7, TopIs
<1>11. Halting(punc, last_priority, last_priority')
  <2>1. punc.key # "("
    <3>1. SUFFICES ASSUME punc.key = "(" PROVE FALSE
      OBVIOUS
    <3>2. is_punc(punc) /\ punc.key \in Prioritised
      <4>1. "(" \in Prioritised
        <5>1. <<"(", 1>> \in {"[", "]", "(", ")", "->", "."} \X {1}
          OBVIOUS
        <5>2. <<"(", 1>> \in PriorityRows
          BY <5>1, Zenon DEF PriorityRows
        <5>3. <<"(", 1>>[1] = "("
          OBVIOUS
        <5> QED BY <5>2, <5>3, Zenon DEF Prioritised
      <4> QED BY <3>1, <4>1, Keys DEF is_punc
    <3>3. Priority[punc.key] <= last_priority
      BY <1>5, <3>1, Tightest
    <3> QED BY <1>4, <3>2, <3>3 DEF Accepted
  <2>2. punc.key \in Operator =>
          last_priority < Priority[punc.key] /\ last_priority' = Priority[punc.key]
    <3>1. SUFFICES ASSUME punc.key \in Operator
                   PROVE  last_priority < Priority[punc.key] /\ last_priority' = Priority[punc.key]
      OBVIOUS
    <3>2. is_punc(punc) /\ punc.key \in Prioritised
      BY <3>1, Keys, Zenon DEF is_punc
    <3>3. Priority[punc.key] \in Nat /\ last_priority \in Nat
      BY <1>5, <3>1, OperatorsRank
    <3> QED BY <1>4, <3>2, <3>3 DEF Accepted, After
  <2>3. punc.key \notin Operator => last_priority' = last_priority
    <3>1. SUFFICES ASSUME punc.key \notin Operator PROVE punc.key \notin Prioritised
      BY <1>4 DEF After
    <3>2. CASE m - 1 = b
      <4>1. symbol_stack[m - 1].key \in Grounds
        <5>1. m - 1 \in 1 .. b
          BY <1>10, <3>2
        <5> QED BY <1>5, <1>7, <5>1, GroundIs
      <4> QED BY <4>1, Keys, Zenon DEF Grounds
    <3>3. CASE m - 1 # b
      <4> DEFINE i == m - 1
      <4>1. i \in b + 1 .. Len(symbol_stack) /\ symbol_stack[i] = punc
        BY <1>10, <3>3
      <4> HIDE DEF i
      <4>2. symbol_stack[i].key \in OperandKey \cup Operator \cup {"("}
        BY <1>5, <1>7, <4>1, PlacedIs
      <4>3. punc.key \in OperandKey
        BY <2>1, <3>1, <4>1, <4>2
      <4> QED BY <4>3, Keys, Zenon
    <3> QED BY <3>2, <3>3
  <2> QED BY <2>1, <2>2, <2>3 DEF Halting
<1>12. Len(text) > 0 /\ last_priority \in Nat
  BY <1>5, <1>6 DEF Busy
<1>13. CASE ~flag
  <2>1. PFirst(symbol_stack, text, priority_stack, last_priority)
    BY <1>8, <1>13
  <2>2. value.to = Len(text) - 1 /\ status_stack[Len(status_stack)] = 2
    BY <1>6, <1>13
  <2>3. value.key \in OperandKey
    BY <1>7, <2>2, StatusOnTop
  <2>4. PReturned(symbol_stack, text, priority_stack, last_priority', FALSE)
    BY <1>5, <1>6, <1>7, <1>11, <1>12, <2>1, <2>2, <2>3, PrecStopFirst
  <2>5. flag' = FALSE
    <3>1. flag \in BOOLEAN
      BY <1>1, Zenon DEF Typed
    <3> QED BY <1>4, <1>13, <3>1
  <2>6. PReturned(symbol_stack', text', priority_stack', last_priority', flag')
    BY <1>4, <1>13, <2>4, <2>5
  <2>7. Bottom(symbol_stack', status_stack') /\ pc' = "returned"
    BY <1>4, <1>8, <1>13
  <2> QED BY <1>9, <2>6, <2>7, ToReturned
<1>14. CASE flag
  <2>1. /\ process_stack' = Append(process_stack, value)
        /\ symbol_stack' = Pop(symbol_stack, 1)
        /\ status_stack' = Pop(status_stack, 1)
        /\ pc' = "clearing" /\ flag' = TRUE
    <3>1. flag \in BOOLEAN
      BY <1>1, Zenon DEF Typed
    <3> QED BY <1>4, <1>14, <3>1
  <2>2. /\ Begins(symbol_stack', symbol_stack, m - 1)
        /\ \A i \in 1 .. m - 1 : status_stack'[i] = status_stack[i]
    <3>1. Len(status_stack) = m
      BY <1>5, <1>7, SolidIs
    <3>2. 1 \in Nat /\ 1 <= Len(symbol_stack) /\ 1 <= Len(status_stack)
      BY <1>10, <3>1
    <3>3. Len(symbol_stack') = m - 1 /\ \A i \in 1 .. m - 1 : symbol_stack'[i] = symbol_stack[i]
      BY <1>5, <2>1, <3>2, PopIs, ZenonT(60)
    <3>4. \A i \in 1 .. Len(status_stack) - 1 : status_stack'[i] = status_stack[i]
      BY <1>5, <2>1, <3>2, PopIs
    <3> QED BY <3>1, <3>3, <3>4 DEF Begins
  <2>3. Bottom(symbol_stack', status_stack')
    <3> DEFINE k == m - 1
    <3>1. k \in Nat /\ k >= 2 /\ k <= Len(symbol_stack) /\ Len(symbol_stack) \in Nat
      BY <1>10
    <3>2. Len(symbol_stack') = k /\ (\A i \in 1 .. k : symbol_stack'[i] = symbol_stack[i])
          /\ \A i \in 1 .. k : status_stack'[i] = status_stack[i]
      BY <2>2 DEF Begins
    <3>3. Bottom(symbol_stack, status_stack)
      BY <1>8
    <3> HIDE DEF k
    <3> QED BY ONLY <3>1, <3>2, <3>3, BottomCut
  <2>4. /\ n \in Nat /\ Len(process_stack') = n + 1 /\ \A i \in 1 .. n : process_stack'[i] = process_stack[i]
        /\ process_stack'[n + 1] = value
    BY <1>5, <1>10, <2>1, PushIs
  <2>5. Joins(symbol_stack, process_stack, 1, Len(text) - 1)
    BY <1>6, <1>14
  <2>6. current_input'.key # ")"
    <3>1. text[Len(text)] # ")" /\ current_input.key = text[Len(text)]
      BY <1>6, GroundKeys DEF Busy, Ends, Symbol
    <3> QED BY <1>4, <3>1
  <2>7. CASE Lost(process_stack, last_priority)
    <3>1. n > 0 /\ n \in 1 .. n
      BY <2>4, <2>5 DEF Joins
    <3>2. Doomed(process_stack')
      BY <2>4, <2>7, <3>1 DEF Doomed, Lost
    <3> QED BY <1>9, <2>1, <2>3, <2>6, <3>2, ToClearing
  <2>8. CASE PWalk(symbol_stack, process_stack, text, priority_stack, last_priority)
    <3>1. Walked(symbol_stack, status_stack, b, text, process_stack, priority_stack, last_priority, m)
      BY <1>5, <1>6, <1>7, <1>12, <2>5, <2>8 DEF Walked
    <3>2. PClear(symbol_stack', process_stack', text, priority_stack, last_priority')
      BY ONLY <1>11, <2>2, <2>4, <3>1, PrecStopMore
    <3>3. PClear(symbol_stack', process_stack', text', priority_stack', last_priority')
      BY <1>4, <3>2
    <3> QED BY <1>9, <2>1, <2>3, <2>6, <3>3, ToClearing
  <2> QED BY <1>8, <1>14, <2>7, <2>8
<1> QED BY <1>13, <1>14

-----------------------------------------------------------------------------
(* clear_process_stack. *)

\* What is evaluated outside of parentheses is in order.
LEMMA EvaluatedFine ==
  ASSUME NEW ss, NEW ps, NEW tx \in Seq(TextKey), Turned(ps, tx), NEW n, n = Len(ps), n > 1,
         ps[n - 1].key \in Operator, ps[n - 1].key \in Punchation, ps[1].to = Len(tx) - 1,
         NEW pr, NEW l, PClear(ss, ps, tx, pr, l), NEW g
  PROVE  Fine(Applied(ps, g), tx)
<1> DEFINE d == Len(pr)
           a == Applied(ps, g)
           x == ps[n - 1]
           f == ps[n].from
           t == ps[n - 2].to
<1>1. /\ n \in Nat /\ n >= 3 /\ ps \in Seq(Symbols) /\ x.from = x.to
      /\ \A i \in n - 2 .. n :
           /\ i \in 1 .. n /\ ps[i] \in Symbols /\ ps[i].from \in Nat /\ ps[i].to \in Nat
           /\ ps[i].from > 0 /\ ps[i].from <= ps[i].to /\ ps[i].to <= Len(tx)
  BY BackIs
<1>2. n \in n - 2 .. n /\ n - 1 \in n - 2 .. n /\ n - 2 \in n - 2 .. n /\ n - 1 \in 2 .. n - 1
      /\ n - 1 \in 1 .. n /\ (n - 1) - 1 = n - 2 /\ 1 \in 1 .. n /\ n - 2 \in 1 .. n
  BY <1>1
<1>3. Ready(ps, tx, d, n - 1)
  <2>1. \A i \in 2 .. Len(ps) - 1 : ps[i].key \in Operator => Ready(ps, tx, d, i)
    BY Zenon DEF PClear
  <2> QED BY <1>2, <2>1
<1>4. a.at = x.from /\ a.from = f /\ a.to = t /\ a.grouped = g
  BY DEF Applied
<1>5. tx[x.from] = x.key
  <2>1. IsItem(x, tx)
    BY <1>2, Zenon DEF Turned
  <2>2. x.key \notin OperandKey
    BY GroundKeys
  <2> QED BY <2>1, <2>2 DEF IsItem
<1>6. f \in Nat /\ t \in Nat /\ f > 0
  BY <1>1, <1>2
<1>7. t < Len(tx) /\ Len(tx) \in Nat
  <2>1. Len(tx) \in Nat
    OBVIOUS
  <2>2. \A i \in 1 .. n : \A j \in i + 1 .. n : ps[j].to < ps[i].from
    BY Zenon DEF Turned
  <2>3. ps[1].from \in Nat /\ ps[1].to \in Nat /\ ps[1].from <= ps[1].to
    <3>1. Within(ps[1], Len(tx))
      BY <1>2, Zenon DEF Turned, Stretches
    <3> QED BY <1>1, <1>2, <3>1, SymbolAt DEF Within
  <2>4. CASE n - 2 = 1
    <3>1. t = ps[1].to
      BY <2>4
    <3>2. ps[1].to = Len(tx) - 1
      OBVIOUS
    <3> HIDE DEF t
    <3> QED BY ONLY <2>1, <3>1, <3>2
  <2>5. CASE n - 2 # 1
    <3>1. n - 2 \in 1 + 1 .. n
      BY <1>1, <2>5
    <3>2. t < ps[1].from
      BY <1>2, <2>2, <3>1
    <3>3. ps[1].to = Len(tx) - 1
      OBVIOUS
    <3> HIDE DEF t
    <3> QED BY ONLY <1>6, <2>1, <2>3, <3>2, <3>3
  <2> QED BY <2>1, <2>4, <2>5
<1>8. /\ x.from \in At(tx, d)
      /\ Kept(tx, d, f, t, x.key)
      /\ tx[t + 1] \in Operator => Priority[x.key] <= Priority[tx[t + 1]]
      /\ f > 1 /\ tx[f - 1] \in Operator /\ Priority[tx[f - 1]] <= Priority[x.key] =>
           \E y \in At(tx, d) :
             /\ f <= y /\ y < x.from /\ Priority[tx[y]] < Priority[tx[f - 1]]
             /\ Tighter(tx, d, x.from, Priority[tx[y]])
  <2> DEFINE i == n - 1
  <2>1. i - 1 = n - 2 /\ ps[i] = x /\ ps[Len(ps)].from = f /\ Ready(ps, tx, d, i)
    BY <1>2, <1>3
  <2> HIDE DEF i, x, d, f
  <2> QED BY <2>1, SMTT(30) DEF Ready
<1>9. DepthIn(tx, a.at) = d
  BY <1>4, <1>8 DEF At
<1>10. f - 1 \in At(tx, d) => f > 1 /\ tx[f - 1] \in Operator
  BY <1>6 DEF At
<1>11. t + 1 \in At(tx, d) => tx[t + 1] \in Operator
  BY DEF At
<1> HIDE DEF a, x, f, t, d
<1>12. /\ a.to < Len(tx) /\ a.at \in At(tx, d)
       /\ Kept(tx, d, a.from, a.to, tx[a.at])
       /\ a.to + 1 \in At(tx, d) => Priority[tx[a.at]] <= Priority[tx[a.to + 1]]
       /\ a.from - 1 \in At(tx, d) /\ Priority[tx[a.from - 1]] <= Priority[tx[a.at]] =>
            \E y \in At(tx, d) :
              /\ a.from <= y /\ y < a.at /\ Priority[tx[y]] < Priority[tx[a.from - 1]]
              /\ Tighter(tx, d, a.at, Priority[tx[y]])
  BY <1>4, <1>5, <1>7, <1>8, <1>10, <1>11
<1>13. Fine(a, tx)
  BY <1>9, <1>12 DEF Fine
<1> QED BY <1>13 DEF a

\* The value takes their place.
LEMMA ClearGoesOn ==
  ASSUME NEW ss, NEW ps, NEW tx, NEW pr, NEW l, PClear(ss, ps, tx, pr, l),
         NEW n \in Nat, n = Len(ps), n - 2 > 0,
         NEW zp, Len(zp) = n - 2, \A i \in 1 .. n - 3 : zp[i] = ps[i], zp[n - 2].key = "value",
         zp[n - 2].from = ps[n].from
  PROVE  PClear(ss, zp, tx, pr, l)
<1> DEFINE d == Len(pr)
           f == ps[n].from
<1>1. zp[Len(zp)].from = f /\ ps[Len(ps)].from = f
  OBVIOUS
<1>2. \A i \in 2 .. Len(ps) - 1 : ps[i].key \in Operator => Ready(ps, tx, d, i)
  BY Zenon DEF PClear
<1>3. \A i \in 2 .. Len(zp) - 1 : zp[i].key \in Operator => Ready(zp, tx, d, i)
  <2>1. SUFFICES ASSUME NEW i \in 2 .. Len(zp) - 1, zp[i].key \in Operator PROVE Ready(zp, tx, d, i)
    OBVIOUS
  <2>2. i \in 2 .. Len(ps) - 1 /\ i \in 1 .. n - 3 /\ i - 1 \in 1 .. n - 3
    OBVIOUS
  <2>3. zp[i] = ps[i] /\ zp[i - 1] = ps[i - 1]
    BY <2>2
  <2>4. Ready(ps, tx, d, i)
    BY <1>2, <2>1, <2>2, <2>3
  <2> HIDE DEF d, f
  <2> QED BY <1>1, <2>3, <2>4 DEF Ready
<1>4. Len(zp) = 1 => zp[1].key = "value"
  OBVIOUS
<1> HIDE DEF d, f
<1> QED BY <1>1, <1>3, <1>4 DEF PClear, d

LEMMA PrecEvaluate == ASSUME EInv, PInv, evaluate PROVE PInv'
<1> DEFINE g == current_input.key = ")"
           ps == process_stack
           n == Len(process_stack)
<1>1. Typed /\ \E b \in 2 .. 3 : AtClearing(b)
  BY ClearingIs, Zenon DEF evaluate
<1>2. PICK b \in 2 .. 3 : AtClearing(b)
  BY <1>1
<1>3. /\ pc = "clearing" /\ Len(process_stack) > 1
      /\ UNCHANGED <<symbol_stack, status_stack, priority_stack, last_priority,
                     current_input, flag, text, before>>
  BY Zenon DEF evaluate
<1>4. /\ process_stack \in Seq(Symbols)
      /\ text \in Seq(TextKey) /\ Len(text) \in Nat
  BY <1>1, TypesAre
<1>5. /\ Bottom(symbol_stack, status_stack)
      /\ current_input.key # ")" =>
           /\ flag
           /\ \/ Doomed(process_stack)
              \/ PClear(symbol_stack, process_stack, text, priority_stack, last_priority)
      /\ current_input.key = ")" =>
           /\ PInside(symbol_stack, process_stack, text, priority_stack, last_priority)
           /\ Last(symbol_stack).key \in OperandKey => Last(symbol_stack).key = "digit"
      /\ \A a \in applied : Fine(a, text)
  BY <1>3, ClearingHas
<1>6. CASE Rejected
  <2>1. pc' = "threw" /\ UNCHANGED applied
    BY <1>6, Zenon DEF evaluate
  <2>2. \A a \in applied' : Fine(a, text')
    BY <1>3, <1>5, <2>1
  <2> QED BY <2>1, <2>2, ToTheEnd DEF Running
<1>7. CASE ~Rejected
  <2>1. process_stack[n - 1].key \in Punchation /\ process_stack[n - 1].key \in Emitted
    BY <1>7, Zenon DEF Rejected, is_punc, punc_of_lhs
  <2>2. /\ process_stack' = Append(Pop(process_stack, 3), Symbol("value", lhs.from, rhs.to))
        /\ applied' = applied \cup
             {[at |-> punc_of_lhs.from, from |-> lhs.from, to |-> rhs.to,
               grouped |-> current_input.key = ")"]}
        /\ pc' = pc
    BY <1>7, Zenon DEF evaluate
  <2>3. lhs = process_stack[Len(process_stack)]
    BY Zenon DEF Last, lhs
  <2>4. process_stack' = Shrunk(process_stack)
    BY <2>2, <2>3, Zenon DEF Shrunk, Value, rhs
  <2>5. applied' = applied \cup {Applied(process_stack, g)}
    BY <2>2, <2>3, Zenon DEF Applied, rhs, punc_of_lhs
  <2> HIDE DEF g
  <2>6. Turned(process_stack, text)
    BY <1>2, Zenon DEF AtClearing, Base
  <2>7. /\ Len(process_stack') = n - 2 /\ n - 2 > 0 /\ n \in Nat
        /\ \A i \in 1 .. n - 3 : process_stack'[i] = process_stack[i]
        /\ process_stack'[n - 2] = Value(process_stack)
        /\ Value(process_stack).from = process_stack[n].from
    BY <1>3, <1>4, <2>1, <2>4, <2>6, ShrunkIs
  <2>8. process_stack'[n - 2].key = "value" /\ process_stack'[n - 2].from = process_stack[n].from
    BY <2>7 DEF Value, Symbol
  <2>9. CASE g
    <3>1. Fine(Applied(process_stack, g), text)
      BY <2>9 DEF Fine, Applied
    <3>2. \A a \in applied' : Fine(a, text')
      BY <1>3, <1>5, <2>5, <3>1
    <3>3. current_input.key = ")" /\ pc' = "clearing"
      BY <1>3, <2>2, <2>9 DEF g
    <3>4. process_stack'[Len(process_stack')].from = process_stack[Len(process_stack)].from
      BY <2>7, <2>8
    <3>5. PInside(symbol_stack, process_stack, text, priority_stack, last_priority)
      BY <1>5, <3>3
    <3>6. PInside(symbol_stack, process_stack', text, priority_stack, last_priority)
      BY <3>4, <3>5 DEF PInside
    <3>7. PInside(symbol_stack', process_stack', text', priority_stack', last_priority')
      BY <1>3, <3>6
    <3>8. Bottom(symbol_stack', status_stack') /\ current_input'.key = ")"
          /\ (Last(symbol_stack').key \in OperandKey => Last(symbol_stack').key = "digit")
      BY <1>3, <1>5, <3>3
    <3> QED BY <3>2, <3>3, <3>7, <3>8, ToInside
  <2>10. CASE ~g
    <3>1. current_input.key # ")" /\ pc' = "clearing"
      BY <1>3, <2>2, <2>10 DEF g
    <3>2. ~Doomed(process_stack)
      BY <2>1 DEF Doomed
    <3>3. flag /\ PClear(symbol_stack, process_stack, text, priority_stack, last_priority)
      BY <1>5, <3>1, <3>2
    <3>4. process_stack[n - 1].key \in Operator
      <4>1. n - 1 \in 1 .. n
        BY <1>3, <2>7
      <4>2. IsItem(process_stack[n - 1], text)
        BY <2>6, <4>1, Zenon DEF Turned
      <4>3. process_stack[n - 1].key \notin OperandKey
        BY <2>1, Keys
      <4>4. process_stack[n - 1].key # "("
        BY <2>1, Tightest
      <4> QED BY <4>2, <4>3, <4>4 DEF IsItem
    <3>5. process_stack[1].to = Len(text) - 1
      <4>1. ~Inside
        BY <3>1 DEF Inside, Busy, Symbol
      <4>2. Joins(symbol_stack, process_stack, 1, Len(text) - 1)
        BY <1>2, <4>1, Zenon DEF AtClearing
      <4> QED BY <4>2 DEF Joins
    <3>6. Fine(Applied(process_stack, g), text)
      BY <1>3, <1>4, <2>1, <2>6, <3>3, <3>4, <3>5, EvaluatedFine
    <3>7. \A a \in applied' : Fine(a, text')
      BY <1>3, <1>5, <2>5, <3>6
    <3>8. PClear(symbol_stack, process_stack', text, priority_stack, last_priority)
      BY ONLY <2>7, <2>8, <3>3, ClearGoesOn
    <3>9. PClear(symbol_stack', process_stack', text', priority_stack', last_priority')
      BY <1>3, <3>8
    <3>10. Bottom(symbol_stack', status_stack') /\ current_input'.key # ")" /\ flag' = TRUE
      <4>1. flag \in BOOLEAN
        BY <1>1, Zenon DEF Typed
      <4> QED BY <1>3, <1>5, <3>1, <3>3, <4>1
    <3> QED BY <3>1, <3>7, <3>9, <3>10, ToClearing
  <2> QED BY <2>9, <2>10
<1> QED BY <1>6, <1>7

-----------------------------------------------------------------------------
(* The value goes back. *)

\* Outside of parentheses.
LEMMA ValueFits ==
  ASSUME NEW ss, NEW ps, NEW tx \in Seq(TextKey), NEW pr, Len(pr) \in Nat, NEW l,
         PClear(ss, ps, tx, pr, l), Len(ps) = 1, ps[1].from > 0, ps[1].to = Len(tx) - 1
  PROVE  Fits(ps[1], ss[Len(ss)], tx, Len(pr)) /\ ps[1].key = "value"
<1> DEFINE x == ps[1]
           y == ss[Len(ss)]
           d == Len(pr)
           r == Len(tx) - 1
<1>1. /\ x.key = "value"
      /\ y.key \in OperandKey => tx[x.from] = "(" /\ tx[y.to] # "id"
      /\ Kept(tx, d, x.from, r, y.key)
      /\ Deep(tx, d, x.from, r) /\ tx[r] \in {"id", "digit", ")"}
  BY Zenon DEF PClear
<1>2. x.key \notin Operator /\ x.key # "("
  BY <1>1, GroundKeys DEF OperandKey
<1>3. Level(x, tx) = d
  BY <1>1 DEF Deep, Level
<1>4. x.to = r /\ x.from > 0 /\ d \in Nat
  OBVIOUS
<1> HIDE DEF x, y, d, r
<1>5. Item(x, tx)
  BY <1>1, <1>2, <1>3, <1>4 DEF Item
<1>6. \A f, t : Kept(tx, d, f, t, x.key)
  BY <1>2, KeptOther
<1> QED BY <1>1, <1>3, <1>4, <1>5, <1>6 DEF Fits, x, y, d

LEMMA ValueReturned ==
  ASSUME NEW ss, NEW st, NEW b, NEW tx \in Seq(TextKey), Solid(ss, st, b, tx),
         NEW ps, NEW pr, Len(pr) \in Nat, NEW l,
         PClear(ss, ps, tx, pr, l), Len(ps) = 1, ps[1].from > 0, ps[1].to = Len(tx) - 1,
         NEW zs, Len(zs) = Len(ss) + 1, \A i \in 1 .. Len(ss) : zs[i] = ss[i], zs[Len(zs)] = ps[1]
  PROVE  PReturned(zs, tx, pr, l, TRUE)
<1> DEFINE x == ps[1]
           y == ss[Len(ss)]
           d == Len(pr)
           r == Len(tx) - 1
           n == Len(zs)
<1>1. Fits(x, y, tx, d) /\ x.key = "value"
  BY ValueFits
<1>2. /\ Nested(ss, tx) /\ Height(ss, tx, d)
      /\ Settled(ss, tx, pr, l, d) /\ Met(tx, pr, l, d, r) /\ Loose(tx, d)
      /\ y.key # "("
      /\ y.key \in Operator => l = Priority[y.key] /\ Tighter(tx, d, Len(tx), Priority[y.key])
      /\ Kept(tx, d, ps[Len(ps)].from, r, tx[Len(tx)])
  BY Zenon DEF PClear
<1>3. x.key \notin Operator /\ x.key # "("
  BY <1>1, GroundKeys DEF OperandKey
<1>4. Len(ss) \in Nat /\ n = Len(ss) + 1 /\ n > 1 /\ n - 1 = Len(ss) /\ Len(ss) \in 1 .. Len(ss)
  <2>1. Len(ss) \in Nat /\ b \in 2 .. 3 /\ b <= Len(ss)
    BY SolidIs
  <2> QED BY <2>1
<1>5. zs[n] = x /\ zs[n - 1] = y
  BY <1>4
<1>6. Nested(zs, tx) /\ Height(zs, tx, d)
  <2>1. Fits(zs[Len(zs)], ss[Len(ss)], tx, d) /\ Climbing(ss, zs[Len(zs)], tx)
    BY <1>1, <1>3, <1>5 DEF Climbing
  <2>2. zs[Len(zs)].key # "("
    BY <1>3, <1>5
  <2> QED BY <1>2, <2>1, <2>2, NestedPush
<1>7. Settled(zs, tx, pr, l, d + 1)
  <2>1. Settled(zs, tx, pr, l, d)
    BY <1>2, <1>3, <1>4, <1>5, SettledPush
  <2>2. Level(zs[n], tx) = d /\ zs[n].key # "("
    BY <1>1, <1>3, <1>5 DEF Fits
  <2>3. \A i \in 1 .. n : zs[i].key \in Operator => Level(zs[i], tx) \in Int
    <3>1. SUFFICES ASSUME NEW i \in 1 .. n, zs[i].key \in Operator PROVE Level(zs[i], tx) \in Int
      OBVIOUS
    <3>2. i # n
      BY <1>3, <1>5, <3>1
    <3>3. i \in 1 .. Len(ss)
      BY <1>4, <3>2
    <3>4. ss[i].key \in Operator
      BY <3>1, <3>3
    <3>5. Level(ss[i], tx) \in Int
      BY <3>3, <3>4, SymbolsAre
    <3> QED BY <3>3, <3>5
  <2>4. \A i \in n - 1 .. n : zs[i].key \in Operator => Left(zs[i], tx, l)
    <3>1. SUFFICES ASSUME NEW i \in n - 1 .. n, zs[i].key \in Operator PROVE Left(zs[i], tx, l)
      OBVIOUS
    <3>2. i # n
      BY <1>3, <1>5, <3>1
    <3>3. i = n - 1
      <4>1. n \in Nat /\ i \in n - 1 .. n
        BY <1>4
      <4> HIDE DEF n
      <4> QED BY ONLY <3>2, <4>1
    <3>4. zs[i] = y
      BY <1>5, <3>3
    <3>5. y.key \in Operator
      BY <3>1, <3>4
    <3>6. l = Priority[y.key]
      BY <1>2, <3>5
    <3>7. Left(y, tx, l)
      BY <3>6, Zenon DEF Left
    <3> QED BY <3>4, <3>7
  <2>5. n \in Nat
    BY <1>4
  <2> QED BY <1>4, <2>1, <2>2, <2>3, <2>4, <2>5, SettledTop
<1>8. Whole(zs, tx, pr, l, r)
  BY <1>2, <1>6, <1>7, Zenon DEF Whole
<1>9. Kept(tx, d, x.from, x.to, tx[Len(tx)])
  BY <1>2
<1> HIDE DEF x, y, d, r, n
<1> QED BY <1>2, <1>5, <1>8, <1>9 DEF PReturned, d, r, n

\* What stood between parentheses, and they themselves.
LEMMA ClosedStretch ==
  ASSUME NEW ss, NEW st, NEW b, NEW tx \in Seq(TextKey), Solid(ss, st, b, tx), tx[Len(tx)] = ")",
         NEW ps, NEW pr, Len(pr) \in Nat, NEW l, PInside(ss, ps, tx, pr, l),
         ps[Len(ps)].from = ss[Len(ss)].to + 2, NEW g \in Nat, g = ss[Len(ss)].to + 1, g > 0, g + 1 < Len(tx),
         tx[g] = "("
  PROVE  /\ Deep(tx, Len(pr) - 1, g, Len(tx)) /\ None(tx, Len(pr) - 1, g, Len(tx))
         /\ Len(pr) - 1 \in Nat
<1> DEFINE d == Len(pr)
           n == Len(tx)
<1>1. /\ Nested(ss, tx) /\ Height(ss, tx, d - 1)
      /\ \A q \in ps[Len(ps)].from .. n - 1 : DepthIn(tx, q) >= d
      /\ DepthIn(tx, n - 1) = d /\ tx[n - 1] # "("
  BY Zenon DEF PInside
<1>2. n \in Nat /\ n - 1 \in Nat /\ n - 1 > 0 /\ (n - 1) + 1 = n /\ d \in Nat
  <2>1. Len(tx) \in Nat
    OBVIOUS
  <2> QED BY <2>1
<1>3. DepthIn(tx, g) = d - 1
  <2>1. \A p : p = ss[Len(ss)].to + 1 => (tx[p] # ")" => DepthIn(tx, p) = d - 1)
    BY <1>1, LongerSame, NextDepth
  <2> QED BY <2>1
<1>4. DepthIn(tx, n) = d - 1
  <2> DEFINE i == n - 1
  <2>1. i \in Nat /\ i > 0 /\ i + 1 = n /\ tx[i] # "(" /\ tx[n] = ")" /\ DepthIn(tx, i) = d
    BY <1>1, <1>2
  <2> HIDE DEF i, n, d
  <2>2. tx[i] # "(" /\ tx[i + 1] = ")" => DepthIn(tx, i + 1) = DepthIn(tx, i) - 1
    BY <2>1, DepthNext
  <2>3. tx[i + 1] = ")"
    BY <2>1
  <2>4. DepthIn(tx, i + 1) = d - 1
    BY <2>1, <2>2, <2>3
  <2> QED BY <2>1, <2>4
<1>5. d - 1 \in Nat
  <2>1. d - 1 >= 0
    BY <1>1, HeightIs
  <2> QED BY <1>2, <2>1
<1>6. \A q \in g .. n : q = g \/ q = n \/ (DepthIn(tx, q) >= d)
  <2>1. SUFFICES ASSUME NEW q \in g .. n, q # g, q # n PROVE DepthIn(tx, q) >= d
    OBVIOUS
  <2>2. ps[Len(ps)].from = g + 1
    <3>1. Len(ss) \in 1 .. Len(ss)
      <4>1. Len(ss) \in Nat /\ b \in 2 .. 3 /\ b <= Len(ss)
        BY SolidIs
      <4> QED BY <4>1
    <3>2. ss[Len(ss)].to \in Nat
      BY <3>1, SymbolIs
    <3> QED BY <3>2
  <2>3. q \in g + 1 .. n - 1
    <3>1. g \in Nat /\ q \in g .. n
      OBVIOUS
    <3> HIDE DEF n
    <3> QED BY ONLY <1>2, <2>1, <3>1
  <2> QED BY <1>1, <2>2, <2>3
<1>7. \A q \in g .. n : q \in Nat /\ q > 0 /\ DepthIn(tx, q) \in Int
  <2>1. SUFFICES ASSUME NEW q \in g .. n PROVE q \in Nat /\ q > 0 /\ DepthIn(tx, q) \in Int
    OBVIOUS
  <2>2. q \in Nat /\ q > 0
    BY <1>2
  <2> QED BY <2>2, DepthType
<1> HIDE DEF d, n
<1>8. \A q \in g .. n : DepthIn(tx, q) >= d - 1
  BY <1>2, <1>3, <1>4, <1>6, <1>7, SMTT(30)
<1>9. Deep(tx, d - 1, g, n)
  BY <1>3, <1>4, <1>8 DEF Deep
<1>10. None(tx, d - 1, g, n)
  <2>1. SUFFICES ASSUME NEW q \in At(tx, d - 1), g <= q, q <= n PROVE FALSE
    BY DEF None
  <2>2. q \in Nat /\ tx[q] \in Operator /\ DepthIn(tx, q) = d - 1
    BY OperatorsArePlaces
  <2>3. q \in g .. n
    BY <1>2, <2>1, <2>2
  <2>4. tx[g] \notin Operator /\ tx[n] \notin Operator
    BY GroundKeys DEF n
  <2>5. DepthIn(tx, q) >= d
    BY <1>6, <2>2, <2>3, <2>4
  <2> QED BY <1>2, <2>2, <2>5
<1> QED BY <1>5, <1>9, <1>10 DEF d, n

\* The priority of "(" comes back.
LEMMA ValueReading ==
  ASSUME NEW zs, NEW zt, NEW c, NEW tx \in Seq(TextKey), Solid(zs, zt, c, tx),
         NEW pr, Len(pr) \in Nat, Len(pr) - 1 \in Nat, NEW l,
         Nested(zs, tx), Height(zs, tx, Len(pr) - 1), Settled(zs, tx, pr, l, Len(pr)),
         Met(tx, pr, l, Len(pr) - 1, Len(tx) - 1), Len(tx) > 0,
         None(tx, Len(pr) - 1, zs[Len(zs)].from, zs[Len(zs)].to),
         NEW p2, NEW l2, Len(p2) = Len(pr) - 1,
         \A e \in Nat : e < Len(pr) => SavedAt(p2, l2, e) = SavedAt(pr, l, e)
  PROVE  PReading(zs, tx, p2, l2)
<1> DEFINE d == Len(pr)
           e == Len(p2)
           n == Len(tx)
<1>1. d \in Nat /\ e \in Nat /\ e = d - 1 /\ e + 1 = d /\ n \in Nat /\ n - 1 \in Nat /\ n - 1 <= n
  <2>1. Len(tx) \in Nat
    OBVIOUS
  <2> QED BY <2>1
<1>2. Settled(zs, tx, p2, l2, e + 1)
  <2>1. \A i \in 1 .. Len(zs) : zs[i].key \in Operator /\ Level(zs[i], tx) < d =>
          Level(zs[i], tx) < d /\ SavedAt(p2, l2, Level(zs[i], tx)) = SavedAt(pr, l, Level(zs[i], tx))
    <3>1. SUFFICES ASSUME NEW i \in 1 .. Len(zs), zs[i].key \in Operator, Level(zs[i], tx) < d
                   PROVE  SavedAt(p2, l2, Level(zs[i], tx)) = SavedAt(pr, l, Level(zs[i], tx))
      OBVIOUS
    <3>2. zs[i].from > 0
      BY <3>1, SymbolsAre
    <3>3. Level(zs[i], tx) \in Int /\ 0 <= Level(zs[i], tx)
      BY <3>2, HeightIs
    <3>4. Level(zs[i], tx) \in Nat
      BY <3>3
    <3> DEFINE e0 == Level(zs[i], tx)
    <3>5. e0 \in Nat /\ e0 < d
      BY <3>1, <3>4
    <3> HIDE DEF e0
    <3>6. SavedAt(p2, l2, e0) = SavedAt(pr, l, e0)
      BY <3>5
    <3> QED BY <3>6 DEF e0
  <2>2. Settled(zs, tx, p2, l2, d)
    BY <2>1, SettledAs
  <2> QED BY <1>1, <2>2
<1>3. Met(tx, p2, l2, e, n)
  <2>1. \A h \in 0 .. e : h \in 0 .. e /\ SavedAt(p2, l2, h) = SavedAt(pr, l, h)
    <3>1. \A h \in 0 .. e : h \in Nat /\ h < d
      BY <1>1
    <3> QED BY <3>1
  <2>2. Met(tx, pr, l, e, n - 1)
    OBVIOUS
  <2> HIDE DEF e, n
  <2>3. Met(tx, p2, l2, e, n - 1)
    BY <2>1, <2>2, Zenon DEF Met
  <2> QED BY <1>1, <2>3, MetMore
<1>4. Height(zs, tx, e)
  OBVIOUS
<1>5. None(tx, e, zs[Len(zs)].from, zs[Len(zs)].to)
  OBVIOUS
<1>6. Nested(zs, tx)
  OBVIOUS
<1>7. Whole(zs, tx, p2, l2, n)
  BY <1>2, <1>3, <1>4, <1>6, Zenon DEF Whole
<1> QED BY <1>5, <1>7 DEF PReading

\* It and what it stands on when "(" was closed.
Closed(ss, st, b, tx, ps, pr, l, g) ==
  /\ tx \in Seq(TextKey) /\ Solid(ss, st, b, tx) /\ tx[Len(tx)] = ")"
  /\ Len(pr) \in Nat /\ PInside(ss, ps, tx, pr, l)
  /\ ps[Len(ps)].from = ss[Len(ss)].to + 2
  /\ g \in Nat /\ g = ss[Len(ss)].to + 1 /\ g > 0 /\ g + 1 < Len(tx) /\ tx[g] = "("

LEMMA ClosedIsDeep ==
  ASSUME NEW ss, NEW st, NEW b, NEW tx, NEW ps, NEW pr, NEW l, NEW g, Closed(ss, st, b, tx, ps, pr, l, g)
  PROVE  /\ Deep(tx, Len(pr) - 1, g, Len(tx)) /\ None(tx, Len(pr) - 1, g, Len(tx))
         /\ Len(pr) \in Nat /\ Len(pr) - 1 \in Nat
         /\ tx \in Seq(TextKey) /\ Solid(ss, st, b, tx) /\ tx[Len(tx)] = ")" /\ tx[g] = "("
         /\ Len(tx) \in Nat /\ Len(tx) > 0 /\ g > 0 /\ g \in Nat /\ g <= Len(tx)
         /\ g = ss[Len(ss)].to + 1
<1>1. /\ tx \in Seq(TextKey) /\ Solid(ss, st, b, tx) /\ tx[Len(tx)] = ")"
      /\ Len(pr) \in Nat /\ PInside(ss, ps, tx, pr, l)
      /\ ps[Len(ps)].from = ss[Len(ss)].to + 2
      /\ g \in Nat /\ g = ss[Len(ss)].to + 1 /\ g > 0 /\ g + 1 < Len(tx) /\ tx[g] = "("
  BY Zenon DEF Closed
<1>2. /\ Deep(tx, Len(pr) - 1, g, Len(tx)) /\ None(tx, Len(pr) - 1, g, Len(tx))
      /\ Len(pr) - 1 \in Nat
  BY ONLY <1>1, ClosedStretch
<1>3. Len(tx) \in Nat /\ Len(tx) > 0 /\ g <= Len(tx)
  <2>1. Len(tx) \in Nat
    BY <1>1
  <2> QED BY <1>1, <2>1
<1> QED BY <1>1, <1>2, <1>3

\* A value that stands for nothing but what is between parentheses.
LEMMA GroupReading ==
  ASSUME NEW ss, NEW st, NEW b, NEW tx, NEW ps, NEW pr, NEW l, NEW g, Closed(ss, st, b, tx, ps, pr, l, g),
         ss[Len(ss)].key \in OperandKey => ss[Len(ss)].key = "digit",
         NEW zs, NEW zt, NEW c, Solid(zs, zt, c, tx),
         Len(zs) = Len(ss) + 1, \A i \in 1 .. Len(ss) : zs[i] = ss[i],
         zs[Len(zs)].key \in OperandKey, zs[Len(zs)].from = g, zs[Len(zs)].to = Len(tx),
         NEW p2, NEW l2, Len(p2) = Len(pr) - 1,
         \A e \in Nat : e < Len(pr) => SavedAt(p2, l2, e) = SavedAt(pr, l, e)
  PROVE  PReading(zs, tx, p2, l2)
<1> DEFINE x == zs[Len(zs)]
           y == ss[Len(ss)]
           d == Len(pr) - 1
           n == Len(tx)
<1>1. /\ Deep(tx, d, g, n) /\ None(tx, d, g, n)
      /\ Len(pr) \in Nat /\ d \in Nat
      /\ tx \in Seq(TextKey) /\ Solid(ss, st, b, tx) /\ tx[n] = ")" /\ tx[g] = "("
      /\ Len(tx) \in Nat /\ Len(tx) > 0 /\ g > 0
  BY ClosedIsDeep
<1>2. /\ Nested(ss, tx) /\ Height(ss, tx, d)
      /\ Settled(ss, tx, pr, l, Len(pr)) /\ Met(tx, pr, l, d, n - 1)
  <2>1. PInside(ss, ps, tx, pr, l)
    BY DEF Closed
  <2> QED BY <2>1, Zenon DEF PInside
<1>3. Len(ss) \in Nat /\ Len(ss) \in 1 .. Len(ss)
  <2>1. Len(ss) \in Nat /\ b \in 2 .. 3 /\ b <= Len(ss)
    BY <1>1, SolidIs
  <2> QED BY <2>1
<1>4. x.key \notin Operator /\ x.key # "("
  BY GroundKeys
<1>5. Level(x, tx) = d
  BY <1>1 DEF Deep, Level
<1>6. Item(y, tx) /\ (y.from > 0 <=> Len(ss) > b) /\ (y.key \in OperandKey => y.from > 0)
  BY <1>1, <1>2, <1>3, NestedIs, SymbolsAre
<1>7. y.key \in OperandKey => tx[y.to] # "id"
  BY <1>6, Zenon DEF Item
<1>8. x.from = g /\ x.to = n /\ x.key \in OperandKey
  OBVIOUS
<1> HIDE DEF x, y, d, n
<1>9. Item(x, tx)
  BY <1>1, <1>4, <1>5, <1>8 DEF Item
<1>10. \A f, t : Kept(tx, d, f, t, x.key)
  BY <1>4, KeptOther
<1>11. \A k : Kept(tx, d, x.from, x.to, k)
  BY <1>1, <1>8, KeptNone
<1>12. Fits(x, y, tx, d)
  BY <1>1, <1>5, <1>7, <1>8, <1>9, <1>10, <1>11 DEF Fits
<1>13. Nested(zs, tx) /\ Height(zs, tx, d)
  <2>1. Fits(zs[Len(zs)], ss[Len(ss)], tx, d) /\ Climbing(ss, zs[Len(zs)], tx)
    BY <1>4, <1>12 DEF x, y, Climbing
  <2>2. zs[Len(zs)].key # "("
    BY <1>4 DEF x
  <2> QED BY <1>1, <1>2, <2>1, <2>2, NestedPush
<1>14. Settled(zs, tx, pr, l, Len(pr))
  <2>1. zs[Len(zs)].key \notin Operator
    BY <1>4 DEF x
  <2> QED BY <1>2, <1>3, <2>1, SettledPush
<1>15. None(tx, d, zs[Len(zs)].from, zs[Len(zs)].to)
  BY <1>1, <1>8 DEF x
<1> QED BY <1>1, <1>2, <1>13, <1>14, <1>15, ValueReading DEF d, n

\* A value that stands for the name of a function, too.
LEMMA CallFits ==
  ASSUME NEW ss, NEW st, NEW b, NEW tx, NEW ps, NEW pr, NEW l, NEW g, Closed(ss, st, b, tx, ps, pr, l, g),
         NEW m, m = Len(ss), ss[m].key = "id",
         NEW x, x = Symbol("value", ss[m].from, Len(tx))
  PROVE  /\ Fits(x, ss[m - 1], tx, Len(pr) - 1) /\ None(tx, Len(pr) - 1, x.from, x.to)
         /\ Level(ss[m], tx) = Len(pr) - 1 /\ ss[m].from > 0
         /\ x.key \notin Operator \cup {"("} /\ x.from = ss[m].from
         /\ m \in Nat /\ m \in 1 .. Len(ss) /\ m \in 2 .. Len(ss) /\ m - 1 \in b .. Len(ss) /\ b \in 2 .. 3
<1> DEFINE y == ss[m]
           z == ss[m - 1]
           d == Len(pr) - 1
           n == Len(tx)
<1>1. /\ Deep(tx, d, g, n) /\ None(tx, d, g, n)
      /\ Len(pr) \in Nat /\ d \in Nat
      /\ tx \in Seq(TextKey) /\ Solid(ss, st, b, tx) /\ tx[n] = ")" /\ tx[g] = "("
      /\ n \in Nat /\ n > 0 /\ g > 0 /\ g \in Nat /\ g <= n /\ g = y.to + 1
  BY ClosedIsDeep
<1>2. Nested(ss, tx) /\ Height(ss, tx, d)
  <2>1. PInside(ss, ps, tx, pr, l)
    BY DEF Closed
  <2> QED BY <2>1, Zenon DEF PInside
<1>3. m \in Nat /\ m \in 1 .. Len(ss) /\ b \in 2 .. 3 /\ b <= m
  <2>1. Len(ss) \in Nat /\ b \in 2 .. 3 /\ b <= Len(ss)
    BY <1>1, SolidIs
  <2> QED BY <2>1
<1>4. y.key \in OperandKey
  BY DEF OperandKey
<1>5. y.from > 0 /\ m \in b + 1 .. Len(ss)
  BY <1>1, <1>3, <1>4, SymbolsAre
<1>6. m \in 2 .. Len(ss) /\ m - 1 \in b .. Len(ss)
  BY <1>3, <1>5
<1>7. y.from \in Nat /\ y.to \in Nat /\ y.from <= y.to
  BY <1>1, <1>3, SymbolIs
<1>8. Level(y, tx) = d
  <2>1. y.key # "("
    OBVIOUS
  <2> QED BY <1>2, <1>5, <2>1 DEF Height
<1>9. Item(y, tx) /\ OnTop(z, y, tx)
  BY <1>1, <1>2, <1>3, <1>5, <1>6, NestedIs, Pairs
<1>10. Deep(tx, d, y.from, y.to) /\ None(tx, d, y.from, y.to)
  BY <1>5, <1>8, <1>9, Zenon DEF Item
<1>11. Deep(tx, d, y.from, n)
  <2>1. Deep(tx, d, y.to + 1, n)
    BY <1>1
  <2> QED BY <1>1, <1>7, <1>10, <2>1, DeepJoin
<1>12. None(tx, d, y.from, n)
  <2>1. \A q \in At(tx, d) : q \in Nat
    BY <1>1, OperatorsArePlaces
  <2>2. \A q \in At(tx, d) : ~(y.from <= q /\ q <= y.to) /\ ~(g <= q /\ q <= n)
    BY <1>1, <1>10 DEF None
  <2>3. y.from \in Nat /\ y.to \in Nat /\ g = y.to + 1 /\ n \in Nat
    BY <1>1, <1>7
  <2> HIDE DEF d, n, y
  <2>4. \A q \in At(tx, d) : ~(y.from <= q /\ q <= n)
    BY ONLY <2>1, <2>2, <2>3
  <2> QED BY <2>4 DEF None
<1>13. y.key \in OperandKey /\ z.key \in OperandKey => tx[y.from] = "(" /\ tx[z.to] # "id"
  BY <1>5, <1>9, Zenon DEF OnTop
<1>14. x.key = "value" /\ x.from = y.from /\ x.to = n
  BY DEF Symbol
<1>15. x.key \notin Operator /\ x.key # "("
  BY <1>14, GroundKeys DEF OperandKey
<1> HIDE DEF y, z, d, n
<1>16. Level(x, tx) = d
  BY <1>8, <1>14 DEF Level
<1>17. Item(x, tx)
  BY <1>1, <1>11, <1>14, <1>15, <1>16 DEF Item
<1>18. \A f, t : Kept(tx, d, f, t, x.key)
  BY <1>15, KeptOther
<1>19. \A k : Kept(tx, d, x.from, x.to, k)
  BY <1>12, <1>14, KeptNone
<1>20. Fits(x, z, tx, d)
  BY <1>4, <1>5, <1>13, <1>14, <1>16, <1>17, <1>18, <1>19 DEF Fits
<1>21. None(tx, d, x.from, x.to)
  BY <1>12, <1>14
<1> QED BY <1>3, <1>5, <1>6, <1>8, <1>14, <1>15, <1>20, <1>21 DEF y, z, d, n

LEMMA CallReading ==
  ASSUME NEW ss, NEW st, NEW b, NEW tx, NEW ps, NEW pr, NEW l, NEW g, Closed(ss, st, b, tx, ps, pr, l, g),
         NEW m, m = Len(ss), ss[m].key = "id",
         NEW zs, NEW zt, NEW c, Solid(zs, zt, c, tx),
         Len(zs) = m, \A i \in 1 .. m - 1 : zs[i] = ss[i],
         zs[m] = Symbol("value", ss[m].from, Len(tx)),
         NEW p2, NEW l2, Len(p2) = Len(pr) - 1,
         \A e \in Nat : e < Len(pr) => SavedAt(p2, l2, e) = SavedAt(pr, l, e)
  PROVE  PReading(zs, tx, p2, l2)
<1> DEFINE x == zs[m]
           d == Len(pr) - 1
           n == Len(tx)
           ys == SubSeq(ss, 1, m - 1)
           yt == SubSeq(st, 1, m - 1)
<1>1. /\ Len(pr) \in Nat /\ d \in Nat
      /\ tx \in Seq(TextKey) /\ Solid(ss, st, b, tx)
      /\ Len(tx) \in Nat /\ Len(tx) > 0
  BY ClosedIsDeep
<1>2. /\ Nested(ss, tx) /\ Height(ss, tx, d)
      /\ Settled(ss, tx, pr, l, Len(pr)) /\ Met(tx, pr, l, d, n - 1)
  <2>1. PInside(ss, ps, tx, pr, l)
    BY DEF Closed
  <2> QED BY <2>1, Zenon DEF PInside
<1>3. /\ Fits(x, ss[m - 1], tx, d) /\ None(tx, d, x.from, x.to)
      /\ Level(ss[m], tx) = d /\ ss[m].from > 0
      /\ x.key \notin Operator \cup {"("} /\ x.from = ss[m].from
      /\ m \in Nat /\ m \in 1 .. Len(ss) /\ m \in 2 .. Len(ss) /\ m - 1 \in b .. Len(ss) /\ b \in 2 .. 3
  BY CallFits
<1>4. m - 1 \in 0 .. Len(ss) /\ m - 1 \in 1 .. m - 1 /\ (m - 1) + 1 = m /\ ss \in Seq(Symbols)
  <2>1. ss \in Seq(Symbols)
    BY <1>1, SolidIs
  <2> QED BY <1>3, <2>1
<1>5. Len(ys) = m - 1 /\ \A i \in 1 .. m - 1 : ys[i] = ss[i]
  BY <1>4, CutIs
<1>6. Solid(ys, yt, b, tx)
  BY <1>1, <1>3, SolidCut
<1> HIDE DEF ys, yt, x
<1>7. Nested(ys, tx)
  BY <1>2, <1>3, <1>4, <1>5, NestedCut
<1>8. Height(ys, tx, d)
  <2>1. ys[m - 1] = ss[m - 1]
    BY <1>4, <1>5
  <2>2. Height(ys, tx, Level(ss[m], tx))
    BY <1>1, <1>2, <1>3, <1>5, <2>1, HeightUnder
  <2> QED BY <1>3, <2>2
<1>9. Nested(zs, tx) /\ Height(zs, tx, d)
  <2>1. zs[Len(zs)] = x /\ ys[Len(ys)] = ss[m - 1]
    BY <1>4, <1>5 DEF x
  <2>2. Len(zs) = Len(ys) + 1 /\ \A i \in 1 .. Len(ys) : zs[i] = ys[i]
    BY <1>4, <1>5
  <2>3. Fits(zs[Len(zs)], ys[Len(ys)], tx, d)
    BY <1>3, <2>1
  <2>4. Climbing(ys, zs[Len(zs)], tx)
    BY <1>3, <2>1 DEF Climbing
  <2>5. zs[Len(zs)].key # "("
    BY <1>3, <2>1
  <2> QED BY <1>1, <1>6, <1>7, <1>8, <2>2, <2>3, <2>4, <2>5, NestedPush
<1>10. Settled(zs, tx, pr, l, Len(pr))
  <2>1. Level(zs[Len(ss)], tx) = Level(ss[Len(ss)], tx)
    BY <1>3 DEF x, Level
  <2>2. ss[Len(ss)].key # "(" /\ zs[Len(ss)].key \notin Operator \cup {"("}
    BY <1>3 DEF x
  <2>3. Len(zs) = Len(ss) /\ Len(ss) \in Nat /\ \A i \in 1 .. Len(ss) - 1 : zs[i] = ss[i]
    BY <1>3
  <2> QED BY <1>2, <2>1, <2>2, <2>3, SettledSwap
<1>11. None(tx, d, zs[Len(zs)].from, zs[Len(zs)].to)
  BY <1>3 DEF x
<1> QED BY <1>1, <1>2, <1>9, <1>10, <1>11, ValueReading DEF d, n

\* The stretch on process_stack is not empty.
LEMMA JoinsTo ==
  ASSUME NEW ps, NEW tx \in Seq(TextKey), Turned(ps, tx), Len(ps) > 0
  PROVE  /\ ps[Len(ps)].from \in Nat /\ ps[Len(ps)].from > 0 /\ ps[1].to \in Nat
         /\ ps[Len(ps)].from <= ps[1].to
<1> DEFINE n == Len(ps)
<1>1. ps \in Seq(Symbols)
  BY DEF Turned, Stretches
<1>2. n \in Nat /\ n \in 1 .. n /\ 1 \in 1 .. n
  BY <1>1
<1>3. \A i \in 1 .. n : /\ ps[i].from \in Nat /\ ps[i].to \in Nat
                        /\ ps[i].from > 0 /\ ps[i].from <= ps[i].to
  <2>1. SUFFICES ASSUME NEW i \in 1 .. n
                 PROVE  /\ ps[i].from \in Nat /\ ps[i].to \in Nat
                        /\ ps[i].from > 0 /\ ps[i].from <= ps[i].to
    OBVIOUS
  <2>2. IsItem(ps[i], tx) /\ Within(ps[i], Len(tx))
    BY <2>1, Zenon DEF Turned, Stretches
  <2>3. ps[i].from \in Nat /\ ps[i].to \in Nat
    BY <1>1, SymbolAt
  <2> QED BY <2>2, <2>3 DEF IsItem, Within
<1>4. CASE n = 1
  BY <1>2, <1>3, <1>4
<1>5. CASE n # 1
  <2>1. n \in 1 + 1 .. n
    <3> HIDE DEF n
    <3> QED BY ONLY <1>2, <1>5
  <2>2. ps[n].to < ps[1].from
    <3>1. \A i \in 1 .. n : \A j \in i + 1 .. n : ps[j].to < ps[i].from
      BY Zenon DEF Turned
    <3> QED BY <1>2, <2>1, <3>1
  <2> DEFINE f == ps[n].from
             t == ps[n].to
             u == ps[1].from
             v == ps[1].to
  <2>3. f \in Nat /\ t \in Nat /\ u \in Nat /\ v \in Nat /\ f > 0 /\ f <= t /\ t < u /\ u <= v
    BY <1>2, <1>3, <2>2
  <2> HIDE DEF f, t, u, v
  <2>4. f \in Nat /\ f > 0 /\ v \in Nat /\ f <= v
    BY ONLY <2>3
  <2> QED BY <2>4 DEF f, t, u, v
<1> QED BY <1>4, <1>5

LEMMA InsideIsClosed ==
  ASSUME Typed, NEW b, Solid(symbol_stack, status_stack, b, text), Turned(process_stack, text), Inside,
         PInside(symbol_stack, process_stack, text, priority_stack, last_priority),
         NEW g, g = symbol_stack[Len(symbol_stack)].to + 1
  PROVE  /\ Closed(symbol_stack, status_stack, b, text, process_stack, priority_stack, last_priority, g)
         /\ Len(priority_stack) > 0 /\ Len(text) > 0
         /\ current_input.to = Len(text) /\ current_input.key = ")"
         /\ process_stack[1].to = Len(text) - 1
         /\ process_stack[Len(process_stack)].from = g + 1
<1>1. text \in Seq(TextKey) /\ Len(text) \in Nat /\ priority_stack \in Seq(1 .. 255)
      /\ symbol_stack \in Seq(Symbols)
  BY TypesAre
<1>2. /\ Busy({")"}) /\ Joins(symbol_stack, process_stack, 2, Len(text) - 1)
      /\ text[symbol_stack[Len(symbol_stack)].to + 1] = "("
      /\ Saved(symbol_stack, 1, priority_stack)
  BY Zenon DEF Inside
<1>3. Len(text) > 0 /\ text[Len(text)] = ")" /\ current_input = Symbol(text[Len(text)], Len(text), Len(text))
  BY <1>2, Zenon DEF Busy
<1>4. /\ Len(process_stack) > 0 /\ process_stack[1].to = Len(text) - 1
      /\ process_stack[Len(process_stack)].from = symbol_stack[Len(symbol_stack)].to + 2
  BY <1>2, Zenon DEF Joins
<1>5. /\ process_stack[Len(process_stack)].from \in Nat
      /\ process_stack[Len(process_stack)].from <= process_stack[1].to
  BY <1>1, <1>4, JoinsTo
<1>6. symbol_stack[Len(symbol_stack)].to \in Nat
  <2>1. Len(symbol_stack) \in Nat /\ b \in 2 .. 3 /\ b <= Len(symbol_stack)
    BY <1>1, SolidIs
  <2>2. Len(symbol_stack) \in 1 .. Len(symbol_stack)
    BY <2>1
  <2> QED BY <1>1, <2>2, SymbolAt
<1>7. g \in Nat /\ g > 0 /\ g + 1 < Len(text) /\ text[g] = "("
      /\ process_stack[Len(process_stack)].from = g + 1
  <2> DEFINE t == symbol_stack[Len(symbol_stack)].to
             f == process_stack[Len(process_stack)].from
             u == process_stack[1].to
             n == Len(text)
  <2>1. t \in Nat /\ g = t + 1 /\ f = t + 2 /\ f <= u /\ u = n - 1 /\ n \in Nat
    BY <1>1, <1>4, <1>5, <1>6
  <2> HIDE DEF t, f, u, n
  <2>2. g \in Nat /\ g > 0 /\ g + 1 < n /\ f = g + 1
    BY ONLY <2>1
  <2> QED BY <1>2, <2>2 DEF f, n
<1>8. Len(priority_stack) \in Nat /\ Len(priority_stack) > 0
  <2>1. Cardinality(Parens(symbol_stack)) \in Nat
    BY <1>1, ParensCount
  <2>2. Cardinality(Parens(symbol_stack)) + 1 <= Len(priority_stack) /\ Len(priority_stack) \in Nat
    BY <1>1, <1>2 DEF Saved
  <2> HIDE DEF Parens
  <2> QED BY <2>1, <2>2
<1>9. Closed(symbol_stack, status_stack, b, text, process_stack, priority_stack, last_priority, g)
  BY <1>1, <1>3, <1>4, <1>7, <1>8, Zenon DEF Closed
<1>10. current_input.to = Len(text) /\ current_input.key = ")"
  BY <1>3 DEF Symbol
<1> QED BY <1>3, <1>4, <1>7, <1>8, <1>9, <1>10

\* The stacks that the invariant speaks of after a step.
LEMMA SolidAfter ==
  ASSUME EInv', pc' \in {"reading", "returned"}
  PROVE  \E b \in 2 .. 3 : Solid(symbol_stack', status_stack', b, text')
<1>1. pc' \in Running
  BY DEF Running
<1>2. PICK b \in 2 .. 3 : Phases(b)'
  BY <1>1, Zenon DEF EInv
<1>3. Base(b)'
  BY <1>2, Zenon DEF Phases, AtReading, AtWalking, AtReturned, AtClearing, AtCalling
<1> QED BY <1>3, Zenon DEF Base

LEMMA PrecPushValue == ASSUME EInv, PInv, push_value PROVE PInv'
<1> DEFINE inside == process_stack[1]
           value == IF current_input.key = ")"
                    THEN [inside EXCEPT !.from = @ - 1, !.to = @ + 1] ELSE inside
           ss == symbol_stack
<1>1. Typed /\ \E b \in 2 .. 3 : AtClearing(b)
  BY ClearingIs, Zenon DEF push_value
<1>2. PICK b \in 2 .. 3 : AtClearing(b)
  BY <1>1
<1>3. /\ pc = "clearing" /\ Len(process_stack) = 1
      /\ Pushed(value, 2)
      /\ IF current_input.key = ")"
         THEN leave_parentheses /\ pc' = "reading"
         ELSE pc' = "returned" /\ UNCHANGED <<priority_stack, last_priority>>
      /\ UNCHANGED <<current_input, flag, text, applied, before>>
  BY Zenon DEF push_value
<1>4. /\ symbol_stack \in Seq(Symbols) /\ process_stack \in Seq(Symbols)
      /\ status_stack \in Seq(Statuses) /\ priority_stack \in Seq(1 .. 255)
      /\ text \in Seq(TextKey) /\ Len(text) \in Nat /\ Len(priority_stack) \in Nat
  BY <1>1, TypesAre
<1>5. /\ Solid(symbol_stack, status_stack, b, text) /\ Turned(process_stack, text)
      /\ Inside \/ (Busy(Ends) /\ Joins(symbol_stack, process_stack, 1, Len(text) - 1))
  BY <1>2, Zenon DEF AtClearing, Base
<1>6. /\ Bottom(symbol_stack, status_stack)
      /\ current_input.key # ")" =>
           /\ flag
           /\ \/ Doomed(process_stack)
              \/ PClear(symbol_stack, process_stack, text, priority_stack, last_priority)
      /\ current_input.key = ")" =>
           /\ PInside(symbol_stack, process_stack, text, priority_stack, last_priority)
           /\ Last(symbol_stack).key \in OperandKey => Last(symbol_stack).key = "digit"
      /\ \A a \in applied : Fine(a, text)
  BY <1>3, ClearingHas
<1>7. /\ inside \in Symbols /\ inside.from \in Nat /\ inside.to \in Nat
      /\ inside.from > 0 /\ inside.key \in OperandKey
  <2>1. 1 \in 1 .. Len(process_stack) /\ Len(process_stack) > 0
    BY <1>3
  <2>2. IsItem(inside, text) /\ inside.key \in OperandKey
    BY <1>5, <2>1, Zenon DEF Turned
  <2>3. inside \in Symbols /\ inside.from \in Nat /\ inside.to \in Nat
    BY <1>4, <2>1, SymbolAt
  <2> QED BY <2>2, <2>3 DEF IsItem
<1>8. /\ symbol_stack' = Append(symbol_stack, value) /\ status_stack' = Append(status_stack, 2)
      /\ text' = text /\ current_input' = current_input /\ applied' = applied /\ flag' = flag
  BY <1>3 DEF Pushed
<1>9. \A a \in applied' : Fine(a, text')
  BY <1>6, <1>8
<1>10. EInv'
  BY StepPushValue
<1>11. pc' \in {"reading", "returned"}
  BY <1>3
<1>12. PICK c \in 2 .. 3 : Solid(symbol_stack', status_stack', c, text)
  BY <1>8, <1>10, <1>11, SolidAfter
<1> HIDE DEF value
<1>13. ASSUME value \in Symbols, value.from # 0
       PROVE  /\ Len(symbol_stack') = Len(ss) + 1 /\ symbol_stack'[Len(symbol_stack')] = value
              /\ \A i \in 1 .. Len(ss) : symbol_stack'[i] = ss[i]
              /\ Bottom(symbol_stack', status_stack')
  BY <1>4, <1>5, <1>6, <1>8, <1>13, StackPushed
<1>14. CASE Inside
  <2> DEFINE g == ss[Len(ss)].to + 1
  <2>1. current_input.key = ")"
    BY <1>14, Zenon DEF Inside, Busy, Symbol
  <2>2. PInside(symbol_stack, process_stack, text, priority_stack, last_priority)
        /\ (Last(symbol_stack).key \in OperandKey => Last(symbol_stack).key = "digit")
    BY <1>6, <2>1
  <2>3. /\ Closed(symbol_stack, status_stack, b, text, process_stack, priority_stack, last_priority, g)
        /\ Len(priority_stack) > 0 /\ Len(text) > 0
        /\ inside.to = Len(text) - 1 /\ inside.from = g + 1
    BY <1>1, <1>3, <1>5, <1>14, <2>2, InsideIsClosed
  <2>4. g \in Nat /\ g > 0
    BY <2>3 DEF Closed
  <2>5. value = [inside EXCEPT !.from = inside.from - 1, !.to = inside.to + 1]
    BY <2>1 DEF value
  <2> HIDE DEF g, inside
  <2>6. inside.from - 1 = g /\ inside.to + 1 = Len(text)
    BY <1>4, <1>7, <2>3, <2>4
  <2>7. value \in Symbols /\ value.key = inside.key /\ value.from = g /\ value.to = Len(text)
    BY ONLY <1>4, <1>7, <2>4, <2>5, <2>6 DEF Symbols
  <2>8. /\ Len(symbol_stack') = Len(ss) + 1 /\ symbol_stack'[Len(symbol_stack')] = value
        /\ \A i \in 1 .. Len(ss) : symbol_stack'[i] = ss[i]
        /\ Bottom(symbol_stack', status_stack')
    BY <1>13, <2>4, <2>7
  <2>9. last_priority' = Last(priority_stack) /\ priority_stack' = Pop(priority_stack, 1)
        /\ pc' = "reading"
    BY <1>3, <2>1 DEF leave_parentheses
  <2>10. /\ Len(priority_stack') = Len(priority_stack) - 1
         /\ \A e \in Nat : e < Len(priority_stack) =>
              SavedAt(priority_stack', last_priority', e) = SavedAt(priority_stack, last_priority, e)
    BY <1>4, <2>3, <2>9, SavedLeave
  <2>11. ss[Len(ss)].key \in OperandKey => ss[Len(ss)].key = "digit"
    BY <2>2 DEF Last
  <2>12. /\ symbol_stack'[Len(symbol_stack')].key \in OperandKey
         /\ symbol_stack'[Len(symbol_stack')].from = g /\ symbol_stack'[Len(symbol_stack')].to = Len(text)
    BY <1>7, <2>7, <2>8
  <2>13. PReading(symbol_stack', text, priority_stack', last_priority')
    BY <1>12, <2>3, <2>8, <2>10, <2>11, <2>12, GroupReading, SMTT(30)
  <2>14. PReading(symbol_stack', text', priority_stack', last_priority')
    BY <1>8, <2>13
  <2> QED BY <1>9, <2>8, <2>9, <2>14, ToReading
<1>15. CASE ~Inside
  <2>1. Busy(Ends) /\ Joins(symbol_stack, process_stack, 1, Len(text) - 1)
    BY <1>5, <1>15
  <2>2. current_input.key # ")"
    <3>1. text[Len(text)] # ")" /\ current_input.key = text[Len(text)]
      BY <2>1, GroundKeys DEF Busy, Ends, Symbol
    <3> QED BY <3>1
  <2>3. inside.to = Len(text) - 1
    BY <2>1 DEF Joins
  <2>4. value = inside
    BY <2>2 DEF value
  <2>5. flag /\ PClear(symbol_stack, process_stack, text, priority_stack, last_priority)
    <3>1. ~Doomed(process_stack)
      BY <1>3 DEF Doomed
    <3> QED BY <1>6, <2>2, <3>1
  <2>6. /\ Len(symbol_stack') = Len(ss) + 1 /\ symbol_stack'[Len(symbol_stack')] = inside
        /\ \A i \in 1 .. Len(ss) : symbol_stack'[i] = ss[i]
        /\ Bottom(symbol_stack', status_stack')
    BY <1>7, <1>13, <2>4
  <2>7. pc' = "returned" /\ priority_stack' = priority_stack /\ last_priority' = last_priority
    BY <1>3, <2>2
  <2>8. PReturned(symbol_stack', text, priority_stack, last_priority, TRUE)
    BY <1>3, <1>4, <1>5, <1>7, <2>3, <2>5, <2>6, ValueReturned
  <2>9. flag' = TRUE
    <3>1. flag \in BOOLEAN
      BY <1>1, Zenon DEF Typed
    <3> QED BY <1>8, <2>5, <3>1
  <2>10. PReturned(symbol_stack', text', priority_stack', last_priority', flag')
    BY <1>8, <2>7, <2>8, <2>9
  <2> QED BY <1>9, <2>6, <2>7, <2>10, ToReturned
<1> QED BY <1>14, <1>15

LEMMA PrecCall == ASSUME EInv, PInv, reduce_operatorbrace PROVE PInv'
<1> DEFINE ss == symbol_stack
           m == Len(symbol_stack)
           g == symbol_stack[Len(symbol_stack)].to + 1
           x == Symbol("value", ss[m].from, Len(text))
           zs == Pop(symbol_stack, 1)
           zt == Pop(status_stack, 1)
<1>1. Typed /\ \E b \in 2 .. 3 : AtCalling(b)
  BY CallingIs, Zenon DEF reduce_operatorbrace
<1>2. PICK b \in 2 .. 3 : AtCalling(b)
  BY <1>1
<1>3. /\ pc = "calling"
      /\ symbol_stack' = Append(zs, Symbol("value", ss[m].from, current_input.to))
      /\ status_stack' = Append(zt, 2)
      /\ leave_parentheses
      /\ pc' = "reading"
      /\ UNCHANGED <<current_input, flag, text, applied, before>>
  BY Zenon DEF reduce_operatorbrace, Top, Last
<1>4. /\ symbol_stack \in Seq(Symbols) /\ status_stack \in Seq(Statuses)
      /\ priority_stack \in Seq(1 .. 255) /\ text \in Seq(TextKey) /\ Len(text) \in Nat
  BY <1>1, TypesAre
<1>5. /\ Solid(symbol_stack, status_stack, b, text) /\ Turned(process_stack, text) /\ Inside
      /\ ss[m].key = "id"
  BY <1>2, Zenon DEF AtCalling, Base
<1>6. /\ Bottom(symbol_stack, status_stack)
      /\ PInside(symbol_stack, process_stack, text, priority_stack, last_priority)
      /\ \A a \in applied : Fine(a, text)
  BY <1>3, CallingHas
<1>7. /\ Closed(symbol_stack, status_stack, b, text, process_stack, priority_stack, last_priority, g)
      /\ Len(priority_stack) > 0 /\ Len(text) > 0 /\ current_input.to = Len(text)
  BY <1>1, <1>5, <1>6, InsideIsClosed
<1>8. EInv'
  BY StepCall
<1>9. PICK c \in 2 .. 3 : Solid(symbol_stack', status_stack', c, text)
  BY <1>3, <1>8, SolidAfter
<1> HIDE DEF g
<1>10. /\ ss[m].from > 0 /\ m \in Nat /\ m - 1 \in b .. Len(ss) /\ m \in 1 .. Len(ss)
       /\ m - 1 \in Nat /\ m - 1 >= 2 /\ Len(status_stack) = m
  <2>1. /\ ss[m].from > 0 /\ m \in Nat /\ m - 1 \in b .. Len(ss) /\ m \in 1 .. Len(ss)
    BY <1>5, <1>7, CallFits
  <2>2. Len(status_stack) = m
    BY <1>4, <1>5, SolidIs
  <2> QED BY <2>1, <2>2
<1>11. /\ zs = SubSeq(symbol_stack, 1, m - 1) /\ zt = SubSeq(status_stack, 1, m - 1)
       /\ zs \in Seq(Symbols) /\ Len(zs) = m - 1
       /\ \A i \in 1 .. m - 1 : zs[i] = symbol_stack[i]
       /\ \A i \in 1 .. m - 1 : zt[i] = status_stack[i]
  <2>1. 1 \in Nat /\ 1 <= Len(symbol_stack) /\ 1 <= Len(status_stack)
    BY <1>10
  <2>2. /\ zs = SubSeq(symbol_stack, 1, m - 1) /\ zs \in Seq(Symbols) /\ Len(zs) = m - 1
        /\ \A i \in 1 .. m - 1 : zs[i] = symbol_stack[i]
    BY <1>4, <2>1, PopIs, ZenonT(60)
  <2>3. zt = SubSeq(status_stack, 1, Len(status_stack) - 1)
        /\ \A i \in 1 .. Len(status_stack) - 1 : zt[i] = status_stack[i]
    BY <1>4, <2>1, PopIs, ZenonT(60)
  <2> QED BY <1>10, <2>2, <2>3, Zenon
<1>12. symbol_stack' = Append(zs, x)
  BY <1>3, <1>7
<1>13. x \in Symbols /\ x.from # 0
  <2>1. ss[m].from \in Nat
    BY <1>4, <1>10, SymbolAt
  <2> DEFINE f == ss[m].from
             t == Len(text)
  <2>2. f \in Nat /\ t \in Nat /\ x = Symbol("value", f, t) /\ f > 0
    BY <1>4, <1>10, <2>1
  <2> HIDE DEF f, t, x
  <2>3. x \in Symbols /\ x.from # 0
    BY ONLY <2>2 DEF Symbol, Symbols
  <2> QED BY <2>3
<1> HIDE DEF m, x, zs, zt
<1>14. Solid(zs, zt, b, text)
  BY <1>4, <1>5, <1>10, <1>11, SolidCut
<1>15. Bottom(zs, zt)
  <2> DEFINE n == m - 1
  <2>1. n \in Nat /\ n >= 2 /\ n <= Len(ss) /\ Len(ss) \in Nat
    BY <1>10 DEF m
  <2>2. Len(zs) = n /\ (\A i \in 1 .. n : zs[i] = ss[i]) /\ (\A i \in 1 .. n : zt[i] = status_stack[i])
    BY <1>11
  <2> HIDE DEF n
  <2> QED BY <1>6, <2>1, <2>2, BottomCut
<1>16. /\ Len(symbol_stack') = Len(zs) + 1 /\ symbol_stack'[Len(symbol_stack')] = x
       /\ \A i \in 1 .. Len(zs) : symbol_stack'[i] = zs[i]
       /\ Bottom(symbol_stack', status_stack')
  BY <1>3, <1>4, <1>12, <1>13, <1>14, <1>15, StackPushed
<1>17. /\ Len(symbol_stack') = m /\ symbol_stack'[m] = x
       /\ \A i \in 1 .. m - 1 : symbol_stack'[i] = ss[i]
  <2>1. (m - 1) + 1 = m
    BY <1>10
  <2> QED BY <1>11, <1>16, <2>1
<1>18. last_priority' = Last(priority_stack) /\ priority_stack' = Pop(priority_stack, 1)
  BY <1>3 DEF leave_parentheses
<1>19. /\ Len(priority_stack') = Len(priority_stack) - 1
       /\ \A e \in Nat : e < Len(priority_stack) =>
            SavedAt(priority_stack', last_priority', e) = SavedAt(priority_stack, last_priority, e)
  BY <1>4, <1>7, <1>18, SavedLeave
<1>20. symbol_stack'[m] = Symbol("value", ss[m].from, Len(text))
  BY <1>17 DEF x
<1>21. PReading(symbol_stack', text, priority_stack', last_priority')
  <2>1. m = Len(ss)
    BY DEF m
  <2>2. Closed(ss, status_stack, b, text, process_stack, priority_stack, last_priority, g)
        /\ ss[m].key = "id" /\ Solid(symbol_stack', status_stack', c, text)
    BY <1>5, <1>7, <1>9 DEF m
  <2> QED BY ONLY <1>17, <1>19, <1>20, <2>1, <2>2, CallReading, SMTT(30)
<1>22. PReading(symbol_stack', text', priority_stack', last_priority')
       /\ \A a \in applied' : Fine(a, text')
  BY <1>3, <1>6, <1>21
<1> QED BY <1>3, <1>16, <1>22, ToReading

LEMMA PrecThrow == ASSUME EInv, PInv, no_such_function PROVE PInv'
<1>1. pc = "calling" /\ pc' = "threw" /\ UNCHANGED <<text, applied>>
  BY Zenon DEF no_such_function
<1>2. \A a \in applied' : Fine(a, text')
  BY <1>1, CallingHas
<1> QED BY <1>1, <1>2, ToTheEnd DEF Running

-----------------------------------------------------------------------------
(* A statement ends. *)

\* What stands below the last value: an operator, an operand or nothing.
LEMMA BelowTheValue ==
  ASSUME NEW ss, NEW st, NEW b, NEW tx \in Seq(TextKey), Solid(ss, st, b, tx), NEW m, m = Len(ss), m > b,
         NEW pr, Len(pr) \in Nat, NEW l, PReturned(ss, tx, pr, l, FALSE), ss[m].key \in OperandKey
  PROVE  \/ m = b + 1
         \/ \E p, q \in 1 .. Len(tx) :
              /\ p < q /\ tx[p] \in Operator /\ tx[q] \in Operator
              /\ DepthIn(tx, p) = DepthIn(tx, q) /\ Priority[tx[p]] < Priority[tx[q]]
         \/ \E p \in 1 .. Len(tx) - 1 : tx[p] \in {"digit", ")"} /\ tx[p + 1] = "("
<1> DEFINE x == ss[m]
           y == ss[m - 1]
           d == Len(pr)
<1>1. /\ Whole(ss, tx, pr, l, Len(tx) - 1) /\ y.key # "("
      /\ y.key \in Operator => Tighter(tx, d, y.from, Priority[y.key])
  BY Zenon DEF PReturned
<1>2. Nested(ss, tx) /\ Height(ss, tx, d)
  BY <1>1, Zenon DEF Whole
<1>3. m \in Nat /\ b \in 2 .. 3 /\ m \in b + 1 .. Len(ss) /\ m \in 1 .. Len(ss) /\ m - 1 \in 1 .. Len(ss)
      /\ m \in 2 .. Len(ss)
  <2>1. Len(ss) \in Nat /\ b \in 2 .. 3 /\ b <= Len(ss)
    BY SolidIs
  <2> QED BY <2>1
<1>4. x.from > 0 /\ x.from \in 1 .. Len(tx) /\ x.from = y.to + 1
  BY <1>3, SymbolsAre, PlacedIs
<1>5. CASE y.from = 0
  <2>1. ~(m - 1 > b)
    BY <1>3, <1>5, SymbolsAre
  <2> QED BY <1>3, <2>1
<1>6. CASE y.from # 0
  <2>1. y.from > 0
    <3>1. y.from \in Nat
      BY <1>3, SymbolIs
    <3> QED BY <1>6, <3>1
  <2>2. m - 1 \in b + 1 .. Len(ss) /\ y.from \in 1 .. Len(tx) /\ y.to \in 1 .. Len(tx)
    BY <1>3, <2>1, SymbolsAre
  <2>3. y.key \in OperandKey \cup Operator
    <3> DEFINE i == m - 1
    <3>1. i \in b + 1 .. Len(ss) /\ y = ss[i]
      BY <2>2
    <3> HIDE DEF i
    <3>2. ss[i].key \in OperandKey \cup Operator \cup {"("}
      BY <3>1, PlacedIs
    <3> QED BY <1>1, <3>1, <3>2
  <2>4. CASE y.key \in Operator
    <3>1. tx[y.from] = y.key
      <4> DEFINE i == m - 1
      <4>1. i \in b + 1 .. Len(ss) /\ y = ss[i]
        BY <2>2
      <4>2. y.key \notin OperandKey
        BY <2>4, GroundKeys
      <4> HIDE DEF i
      <4>3. ss[i].key \notin OperandKey => tx[ss[i].from] = ss[i].key
        BY <4>1, PlacedIs
      <4> QED BY <4>1, <4>2, <4>3
    <3>2. Level(x, tx) = d
      <4>1. x.key # "("
        BY GroundKeys
      <4> QED BY <1>2, <1>4, <4>1 DEF Height
    <3>3. Level(y, tx) = d
      <4>1. y.from > 0 /\ y.key # "(" => Level(y, tx) = Level(x, tx)
        BY <1>2, <1>3, <1>4, Pairs
      <4> QED BY <1>1, <2>1, <3>2, <4>1
    <3>4. DepthIn(tx, y.from) = d
      BY <3>3 DEF Level
    <3>5. PICK s \in At(tx, d) : s < y.from /\ Priority[tx[s]] < Priority[y.key]
      BY <1>1, <2>4 DEF Tighter
    <3>6. s \in 1 .. Len(tx) /\ tx[s] \in Operator /\ DepthIn(tx, s) = d
      BY OperatorsArePlaces
    <3> HIDE DEF y, d
    <3> QED BY <2>2, <2>4, <3>1, <3>4, <3>5, <3>6
  <2>5. CASE y.key \in OperandKey
    <3>1. OnTop(y, x, tx)
      BY <1>2, <1>3, <1>4, Pairs
    <3>2. tx[x.from] = "(" /\ tx[y.to] # "id"
      BY <1>4, <2>5, <3>1, Zenon DEF OnTop
    <3>3. Item(y, tx)
      BY <1>2, <1>3, NestedIs
    <3>4. tx[y.to] \in {"id", "digit", ")"}
      BY <2>1, <2>5, <3>3, Zenon DEF Item
    <3>5. y.to \in 1 .. Len(tx) - 1
      BY <1>4, <2>2
    <3> QED BY <1>4, <3>2, <3>4, <3>5
  <2> QED BY <2>3, <2>4, <2>5
<1> QED BY <1>5, <1>6

\* What BelowTheValue needs of a state and what it gives, each as one fact.
Finished(ss, st, b, tx, pr, l) ==
  /\ tx \in Seq(TextKey) /\ Len(pr) \in Nat /\ Solid(ss, st, b, tx) /\ Len(ss) > b
  /\ PReturned(ss, tx, pr, l, FALSE) /\ ss[Len(ss)].key \in OperandKey
LeftOver(ss, b, tx) ==
  \/ Len(ss) = b + 1
  \/ \E p, q \in 1 .. Len(tx) :
       /\ p < q /\ tx[p] \in Operator /\ tx[q] \in Operator
       /\ DepthIn(tx, p) = DepthIn(tx, q) /\ Priority[tx[p]] < Priority[tx[q]]
  \/ \E p \in 1 .. Len(tx) - 1 : tx[p] \in {"digit", ")"} /\ tx[p + 1] = "("

\* Below the value of a finished statement there is nothing, or the text is out of the language.
LEMMA FinishedLeaves ==
  ASSUME NEW ss, NEW st, NEW b, NEW tx, NEW pr, NEW l, Finished(ss, st, b, tx, pr, l)
  PROVE  LeftOver(ss, b, tx)
<1> DEFINE m == Len(ss)
<1>1. /\ tx \in Seq(TextKey) /\ Len(pr) \in Nat /\ Solid(ss, st, b, tx) /\ m > b
      /\ PReturned(ss, tx, pr, l, FALSE) /\ ss[m].key \in OperandKey
  BY Zenon DEF Finished
<1>2. m = Len(ss)
  OBVIOUS
<1> HIDE DEF m
<1>3. \/ m = b + 1
      \/ \E p, q \in 1 .. Len(tx) :
           /\ p < q /\ tx[p] \in Operator /\ tx[q] \in Operator
           /\ DepthIn(tx, p) = DepthIn(tx, q) /\ Priority[tx[p]] < Priority[tx[q]]
      \/ \E p \in 1 .. Len(tx) - 1 : tx[p] \in {"digit", ")"} /\ tx[p + 1] = "("
  BY ONLY <1>1, <1>2, BelowTheValue, ZenonT(60)
<1> QED BY <1>2, <1>3, Zenon DEF LeftOver

LEMMA PrecFinish == ASSUME EInv, PInv, finish PROVE PInv'
<1> DEFINE ss == symbol_stack
           st == status_stack
           m == Len(symbol_stack)
           returns == st[Len(st) - 1] = 16
<1>1. /\ pc = "returned" /\ ~flag /\ pc' \in {"returns", "done"} /\ UNCHANGED <<text, applied>>
      /\ returns => symbol_stack' = Pop(ss, 2)
      /\ ~returns => \E k \in 0 .. m \div 2 : 2 * k + 1 < m /\ symbol_stack' = Pop(ss, 2 * k + 1)
  BY Zenon DEF finish
<1>2. /\ Bottom(ss, st)
      /\ PReturned(ss, text, priority_stack, last_priority, flag)
      /\ \A a \in applied : Fine(a, text)
  BY <1>1, ReturnedHas
<1>3. text \in Seq(TextKey) /\ Len(priority_stack) \in Nat
  BY <1>1, ReturnedStack
<1>4. PICK b \in 2 .. 3 : Solid(ss, st, b, text) /\ m > b /\ ss[m].key \in OperandKey
  BY <1>1, ReturnedStack
<1>5. flag = FALSE
  BY <1>1, Zenon DEF EInv, Typed
<1>6. \/ m = b + 1
      \/ \E p, q \in 1 .. Len(text) :
           /\ p < q /\ text[p] \in Operator /\ text[q] \in Operator
           /\ DepthIn(text, p) = DepthIn(text, q) /\ Priority[text[p]] < Priority[text[q]]
      \/ \E p \in 1 .. Len(text) - 1 : text[p] \in {"digit", ")"} /\ text[p + 1] = "("
  <2>1. PReturned(ss, text, priority_stack, last_priority, FALSE)
    BY <1>2, <1>5
  <2>2. Finished(ss, st, b, text, priority_stack, last_priority)
    BY <1>3, <1>4, <2>1, Zenon DEF Finished
  <2>3. LeftOver(ss, b, text)
    <3> HIDE DEF ss, st, m
    <3> QED BY <2>2, FinishedLeaves
  <2> QED BY <2>3, Zenon DEF LeftOver
<1>7. m = b + 1 => symbol_stack' = <<Outer("fn"), Outer("LBRACES")>>
  <2>1. SUFFICES ASSUME m = b + 1 PROVE symbol_stack' = <<Outer("fn"), Outer("LBRACES")>>
    OBVIOUS
  <2>2. ss \in Seq(Symbols) /\ Len(st) = m /\ m \in Nat
    BY <1>3, <1>4, SolidIs
  <2>3. ss[1] = Outer("fn") /\ ss[2] = Outer("LBRACES") /\ st[2] = 15
        /\ (m > 2 /\ ss[3].from = 0 => st[3] = 16)
    BY <1>2 DEF Bottom
  <2>4. Len(st) - 1 = b
    BY <2>1, <2>2
  <2>5. \E n \in Nat : n <= m /\ m - n = 2 /\ symbol_stack' = Pop(ss, n)
    <3>1. CASE returns
      <4>1. b = 3
        BY <2>3, <2>4, <3>1
      <4>2. 2 \in Nat /\ 2 <= m /\ m - 2 = 2
        BY <2>1, <4>1
      <4> QED BY <1>1, <3>1, <4>2
    <3>2. CASE ~returns
      <4>1. b = 2
        <5>1. SUFFICES ASSUME b = 3 PROVE FALSE
          OBVIOUS
        <5>2. 3 \in 1 .. b
          BY <5>1
        <5>3. ss[3].from = 0
          BY <1>3, <1>4, <5>2, GroundIs
        <5>4. m > 2
          BY <2>1, <5>1
        <5>5. st[3] = 16
          BY <2>3, <5>3, <5>4
        <5>6. Len(st) - 1 = 3
          BY <2>4, <5>1
        <5>7. st[Len(st) - 1] = 16
          BY <5>5, <5>6
        <5> QED BY <3>2, <5>7
      <4>2. m = 3
        BY <2>1, <4>1
      <4>3. PICK k \in 0 .. m \div 2 : 2 * k + 1 < m /\ symbol_stack' = Pop(ss, 2 * k + 1)
        BY <1>1, <3>2
      <4>4. k \in Nat
        BY <4>2, <4>3
      <4>5. k = 0
        <5>1. 2 * k + 1 < 3
          BY <4>2, <4>3
        <5> QED BY ONLY <4>4, <5>1
      <4>6. symbol_stack' = Pop(ss, 1)
        BY <4>3, <4>5
      <4>7. 1 \in Nat /\ 1 <= m /\ m - 1 = 2
        BY <4>2
      <4> QED BY <4>6, <4>7
    <3> QED BY <3>1, <3>2
  <2>6. PICK n \in Nat : n <= m /\ m - n = 2 /\ symbol_stack' = Pop(ss, n)
    BY <2>5
  <2>7. symbol_stack' \in Seq(Symbols) /\ Len(symbol_stack') = 2
        /\ symbol_stack'[1] = ss[1] /\ symbol_stack'[2] = ss[2]
    <3>1. /\ Pop(ss, n) \in Seq(Symbols) /\ Len(Pop(ss, n)) = Len(ss) - n
          /\ \A i \in 1 .. Len(ss) - n : Pop(ss, n)[i] = ss[i]
      BY <2>2, <2>6, PopIs
    <3>2. 1 \in 1 .. Len(ss) - n /\ 2 \in 1 .. Len(ss) - n /\ Len(ss) - n = 2
      BY <2>6
    <3> QED BY <2>6, <3>1, <3>2
  <2> DEFINE z == symbol_stack'
             f == Outer("fn")
             h == Outer("LBRACES")
  <2>8. z \in Seq(Symbols) /\ Len(z) = 2 /\ z[1] = f /\ z[2] = h
    BY <2>3, <2>7
  <2> HIDE DEF z, f, h
  <2>9. z = <<f, h>>
    BY ONLY <2>8
  <2> QED BY <2>9 DEF z, f, h
<1>8. StatementsComplete'
  <2>1. text' = text
    BY <1>1
  <2>2. DOMAIN text = 1 .. Len(text)
    BY <1>3
  <2>3. \A i : Depth(i)' = DepthIn(text, i)
    BY <2>1 DEF Depth, DepthIn, Places
  <2>4. CASE m = b + 1
    BY <1>7, <2>4 DEF StatementsComplete
  <2>5. CASE \E p, q \in 1 .. Len(text) :
               /\ p < q /\ text[p] \in Operator /\ text[q] \in Operator
               /\ DepthIn(text, p) = DepthIn(text, q) /\ Priority[text[p]] < Priority[text[q]]
    <3>1. PICK p \in 1 .. Len(text), q \in 1 .. Len(text) :
               /\ p < q /\ text[p] \in Operator /\ text[q] \in Operator
               /\ DepthIn(text, p) = DepthIn(text, q) /\ Priority[text[p]] < Priority[text[q]]
      BY <2>5
    <3>2. p \in DOMAIN text' /\ q \in DOMAIN text' /\ {text'[p], text'[q]} \subseteq Operator
          /\ p < q /\ Depth(p)' = Depth(q)' /\ Priority[text'[p]] < Priority[text'[q]]
      BY <2>1, <2>2, <2>3, <3>1
    <3> QED BY <3>2, Zenon DEF StatementsComplete
  <2>6. CASE \E p \in 1 .. Len(text) - 1 : text[p] \in {"digit", ")"} /\ text[p + 1] = "("
    BY <2>1, <2>6, Zenon DEF StatementsComplete
  <2> QED BY <1>6, <2>4, <2>5, <2>6
<1>9. pc' \notin Running
  BY <1>1 DEF Running
<1>10. \A a \in applied' : Fine(a, text')
  BY <1>1, <1>2
<1> QED BY <1>8, <1>9, <1>10 DEF PInv

-----------------------------------------------------------------------------
(* The invariant. *)

LEMMA FirstPrec == ASSUME Init PROVE PInv
<1>1. /\ symbol_stack \in Starts
      /\ status_stack = [i \in DOMAIN symbol_stack |-> StatusOf(symbol_stack[i].key)]
      /\ priority_stack = <<>> /\ last_priority = 255
      /\ pc = "reading" /\ text = <<>> /\ applied = {}
  BY Zenon DEF Init
<1>2. Bottom(symbol_stack, status_stack)
  <2>1. StatusOf("fn") = 14 /\ StatusOf("LBRACES") = 15 /\ StatusOf("return") = 16
    BY DEF StatusOf
  <2>2. Outer("fn").key = "fn" /\ Outer("LBRACES").key = "LBRACES" /\ Outer("return").key = "return"
    BY DEF Outer, Symbol
  <2> HIDE DEF Outer
  <2>3. CASE symbol_stack = <<Outer("fn"), Outer("LBRACES")>>
    <3>1. DOMAIN symbol_stack = 1 .. 2 /\ Len(symbol_stack) = 2
          /\ symbol_stack[1] = Outer("fn") /\ symbol_stack[2] = Outer("LBRACES")
      BY <2>3
    <3>2. status_stack[1] = 14 /\ status_stack[2] = 15
      BY <1>1, <2>1, <2>2, <3>1
    <3> QED BY <3>1, <3>2 DEF Bottom
  <2>4. CASE symbol_stack = <<Outer("fn"), Outer("LBRACES"), Outer("return")>>
    <3>1. DOMAIN symbol_stack = 1 .. 3
          /\ symbol_stack[1] = Outer("fn") /\ symbol_stack[2] = Outer("LBRACES")
          /\ symbol_stack[3] = Outer("return")
      BY <2>4
    <3>2. status_stack[1] = 14 /\ status_stack[2] = 15 /\ status_stack[3] = 16
      BY <1>1, <2>1, <2>2, <3>1
    <3> QED BY <3>1, <3>2, Zenon DEF Bottom
  <2> QED BY <1>1, <2>3, <2>4 DEF Starts
<1> DEFINE m == Len(symbol_stack)
<1>3. m \in 2 .. 3 /\ \A i \in 1 .. m : symbol_stack[i].from = 0 /\ symbol_stack[i].key \in Grounds
  BY <1>1, StartIs DEF Grounds
<1>4. /\ m \in 1 .. m
      /\ \A i \in 1 .. m : \A j \in 1 .. i - 1 : j \in 1 .. m
      /\ \A i \in 2 .. m : i \in 1 .. m /\ i - 1 \in 1 .. m
  BY <1>3
<1>5. \A i \in 1 .. m : /\ symbol_stack[i].key \notin Operator /\ symbol_stack[i].key \notin OperandKey
                        /\ symbol_stack[i].key # "(" /\ ~(symbol_stack[i].from > 0)
  <2>1. ~(0 > 0)
    OBVIOUS
  <2> QED BY <1>3, <2>1, GroundKeys
<1> HIDE DEF m
<1>6. Nested(symbol_stack, text)
  <2>1. \A i \in 1 .. m : Item(symbol_stack[i], text)
    BY <1>5, Zenon DEF Item
  <2>2. \A i \in 2 .. m : OnTop(symbol_stack[i - 1], symbol_stack[i], text)
    BY <1>4, <1>5, Zenon DEF OnTop
  <2>3. \A i \in 1 .. m : \A j \in 1 .. i - 1 :
          /\ Over(symbol_stack[j], symbol_stack[i], text)
          /\ Climb(symbol_stack[j], symbol_stack[i], text)
          /\ ~(symbol_stack[j].from > 0)
    BY <1>4, <1>5, Zenon DEF Over, Climb
  <2> QED BY <2>1, <2>2, <2>3, Zenon DEF Nested, m
<1>7. Len(priority_stack) = 0 /\ Len(text) = 0
  BY <1>1
<1>8. Height(symbol_stack, text, Len(priority_stack))
  BY <1>4, <1>5, <1>7, Zenon DEF Height, m
<1>9. Settled(symbol_stack, text, priority_stack, last_priority, Len(priority_stack) + 1)
  BY <1>5, Zenon DEF Settled, m
<1>10. Met(text, priority_stack, last_priority, Len(priority_stack), Len(text))
  <2>1. \A d \in 0 .. 0 : d = 0
    OBVIOUS
  <2> QED BY <1>1, <1>7, <2>1, Zenon DEF Met, SavedAt
<1>11. PReading(symbol_stack, text, priority_stack, last_priority)
  BY <1>4, <1>5, <1>6, <1>8, <1>9, <1>10, Zenon DEF PReading, Whole, m
<1>12. \A a \in applied : Fine(a, text)
  BY <1>1
<1> QED BY <1>1, <1>2, <1>11, <1>12 DEF PInv, PPhases, StatementsComplete

LEMMA PrecStep == ASSUME EInv, PInv, [Next]_vars PROVE PInv'
<1>1. CASE UNCHANGED vars
  <2>1. UNCHANGED <<symbol_stack, status_stack, process_stack, priority_stack, last_priority,
                    current_input, flag, pc, text, applied>>
    BY <1>1, Zenon DEF vars, machine
  <2>2. PPhases => PPhases'
    BY <2>1, Zenon DEF PPhases
  <2>3. StatementsComplete'
    BY <2>1, Zenon DEF PInv, StatementsComplete, Depth
  <2> QED BY <2>1, <2>2, <2>3, Zenon DEF PInv
<1>2. CASE Token
  BY <1>2, PrecShift, PrecEnter, PrecPush, PrecSolve, PrecClose, Zenon DEF Token
<1>3. CASE Solving
  BY <1>3, PrecAbsorb, PrecStop, PrecEvaluate, PrecPushValue, PrecCall, PrecThrow,
     PrecPushAfter, PrecLoop, PrecFinish, Zenon DEF Solving
<1> QED BY <1>1, <1>2, <1>3 DEF Next

LEMMA PInvariant == Spec => []PInv
<1>1. Init => PInv
  BY FirstPrec
<1>2. EInv /\ PInv /\ [Next]_vars => PInv'
  BY PrecStep
<1> QED BY <1>1, <1>2, Invariant, PTL DEF Spec

-----------------------------------------------------------------------------
(* What the invariant gives. *)

\* Depth and Beside of the properties are DepthIn and At.
LEMMA BesideIs ==
  ASSUME text \in Seq(TextKey), NEW p, NEW i, NEW j
  PROVE  /\ Depth(p) = DepthIn(text, p)
         /\ \A q : q \in Beside(p, i, j) <=> q \in i .. j /\ q \in At(text, DepthIn(text, p))
<1>1. \A q : Depth(q) = DepthIn(text, q)
  BY Zenon DEF Depth, DepthIn, Places
<1>2. DOMAIN text = 1 .. Len(text)
  OBVIOUS
<1> QED BY <1>1, <1>2 DEF Beside, At

LEMMA FourAre ==
  ASSUME text \in Seq(TextKey), NEW p, Four(text, DepthIn(text, p))
  PROVE  FourPriorities(p)
<1>1. \A q \in At(text, DepthIn(text, p)) : q \in Beside(p, 1, Len(text))
  BY BesideIs, OperatorsArePlaces
<1> QED BY <1>1, Zenon DEF Four, FourPriorities

\* What Fine says, part by part.
LEMMA FineIs ==
  ASSUME text \in Seq(TextKey), NEW a, Fine(a, text), ~a.grouped
  PROVE  LET d == DepthIn(text, a.at)
             p == Priority[text[a.at]]
             f == a.from - 1
         IN
         /\ a.at \in At(text, d)
         /\ \A q \in At(text, d) :
              a.from <= q /\ q <= a.to => Priority[text[q]] <= p \/ FourPriorities(a.at)
         /\ a.to + 1 \in At(text, d) => p <= Priority[text[a.to + 1]]
         /\ f \in At(text, d) /\ Priority[text[f]] <= p =>
              \E y, t \in At(text, d) :
                /\ a.from <= y /\ y < a.at /\ t < a.at
                /\ Priority[text[t]] < Priority[text[y]] /\ Priority[text[y]] < Priority[text[f]]
<1> DEFINE d == DepthIn(text, a.at)
           p == Priority[text[a.at]]
           f == a.from - 1
<1>1. /\ a.at \in At(text, d) /\ Kept(text, d, a.from, a.to, text[a.at])
      /\ a.to + 1 \in At(text, d) => p <= Priority[text[a.to + 1]]
      /\ f \in At(text, d) /\ Priority[text[f]] <= p =>
           \E y \in At(text, d) :
             /\ a.from <= y /\ y < a.at /\ Priority[text[y]] < Priority[text[f]]
             /\ Tighter(text, d, a.at, Priority[text[y]])
  BY Zenon DEF Fine
<1>2. text[a.at] \in Operator
  BY <1>1, OperatorsArePlaces
<1>3. \A q \in At(text, d) :
        a.from <= q /\ q <= a.to => Priority[text[q]] <= p \/ FourPriorities(a.at)
  BY <1>1, <1>2, FourAre, Zenon DEF Kept
<1>4. f \in At(text, d) /\ Priority[text[f]] <= p =>
        \E y, t \in At(text, d) :
          /\ a.from <= y /\ y < a.at /\ t < a.at
          /\ Priority[text[t]] < Priority[text[y]] /\ Priority[text[y]] < Priority[text[f]]
  BY <1>1, Zenon DEF Tighter
<1> QED BY <1>1, <1>3, <1>4, Zenon

LEMMA FineIsTightest ==
  ASSUME text \in Seq(TextKey), NEW a, a.from \in Nat, a.to \in Nat, Fine(a, text), ~a.grouped
  PROVE  TightestFirst(a) \/ FourPriorities(a.at)
<1> SUFFICES ASSUME ~FourPriorities(a.at) PROVE TightestFirst(a)
  OBVIOUS
<1> DEFINE d == DepthIn(text, a.at)
           p == Priority[text[a.at]]
           f == a.from - 1
<1>1. /\ a.at \in At(text, d)
      /\ \A q \in At(text, d) : a.from <= q /\ q <= a.to => Priority[text[q]] <= p
      /\ a.to + 1 \in At(text, d) => p <= Priority[text[a.to + 1]]
      /\ f \in At(text, d) /\ Priority[text[f]] <= p =>
           \E y, t \in At(text, d) :
             /\ a.from <= y /\ y < a.at /\ t < a.at
             /\ Priority[text[t]] < Priority[text[y]] /\ Priority[text[y]] < Priority[text[f]]
  BY FineIs, Zenon
<1>2. \A q : \A i, j : q \in Beside(a.at, i, j) <=> q \in i .. j /\ q \in At(text, d)
  BY BesideIs
<1> HIDE DEF d
<1>3. ASSUME NEW q \in Beside(a.at, a.from, a.to) PROVE Priority[text[q]] <= p
  BY <1>1, <1>2
<1>4. ASSUME NEW q \in Beside(a.at, f, f) PROVE Priority[text[q]] >= p
  <2>1. q = f /\ f \in At(text, d)
    BY <1>2, <1>4
  <2>2. p \in Nat /\ Priority[text[f]] \in Nat
    BY <1>1, <2>1, OperatorsArePlaces
  <2>3. SUFFICES ASSUME Priority[text[f]] < p PROVE FALSE
    BY <2>1, <2>2
  <2>4. PICK y \in At(text, d), t \in At(text, d) :
          Priority[text[t]] < Priority[text[y]] /\ Priority[text[y]] < Priority[text[f]]
    BY <1>1, <2>1, <2>2, <2>3
  <2>5. Four(text, d)
    BY <1>1, <2>1, <2>3, <2>4, Zenon DEF Four
  <2> QED BY <2>5, FourAre DEF d
<1>5. ASSUME NEW q \in Beside(a.at, a.to + 1, a.to + 1) PROVE Priority[text[q]] >= p
  <2>1. q = a.to + 1 /\ q \in At(text, d)
    BY <1>2, <1>5
  <2>2. p \in Nat /\ Priority[text[q]] \in Nat
    BY <1>1, <2>1, OperatorsArePlaces
  <2> QED BY <1>1, <2>1, <2>2
<1> QED BY <1>3, <1>4, <1>5, Zenon DEF TightestFirst

LEMMA FineIsLeftFirst ==
  ASSUME text \in Seq(TextKey), NEW a, a.from \in Nat, a.at \in Nat, Fine(a, text), ~a.grouped,
         NEW e \in Beside(a.at, a.from - 1, a.from - 1), Priority[text[e]] = Priority[text[a.at]]
  PROVE  \E p \in Beside(a.at, a.from, a.at - 1) : \E t \in Beside(a.at, 1, a.at - 1) :
           /\ Priority[text[t]] < Priority[text[p]]
           /\ Priority[text[p]] < Priority[text[a.at]]
<1> DEFINE d == DepthIn(text, a.at)
           f == a.from - 1
<1>1. /\ a.at \in At(text, d)
      /\ f \in At(text, d) /\ Priority[text[f]] <= Priority[text[a.at]] =>
           \E y, t \in At(text, d) :
             /\ a.from <= y /\ y < a.at /\ t < a.at
             /\ Priority[text[t]] < Priority[text[y]] /\ Priority[text[y]] < Priority[text[f]]
  BY FineIs, Zenon
<1>2. \A q : \A i, j : q \in Beside(a.at, i, j) <=> q \in i .. j /\ q \in At(text, d)
  BY BesideIs
<1> HIDE DEF d
<1>3. e = f /\ f \in At(text, d)
  BY <1>2
<1>4. Priority[text[a.at]] \in Nat
  BY <1>1, OperatorsArePlaces
<1>5. PICK y \in At(text, d), t \in At(text, d) :
        /\ a.from <= y /\ y < a.at /\ t < a.at
        /\ Priority[text[t]] < Priority[text[y]] /\ Priority[text[y]] < Priority[text[f]]
  BY <1>1, <1>3, <1>4
<1>6. y \in Nat /\ t \in Nat /\ t > 0
  BY OperatorsArePlaces
<1>7. y \in a.from .. a.at - 1 /\ t \in 1 .. a.at - 1
  BY <1>5, <1>6
<1> QED BY <1>2, <1>3, <1>5, <1>7, Zenon

\* What is known of an evaluation outside of parentheses.
LEMMA AppliedIsFine ==
  ASSUME EInv, PInv, NEW a \in applied
  PROVE  text \in Seq(TextKey) /\ a.at \in Nat /\ a.from \in Nat /\ a.to \in Nat /\ Fine(a, text)
<1>1. /\ text \in Seq(TextKey)
      /\ applied \subseteq [at : 1 .. Len(text), from : 1 .. Len(text),
                            to : 1 .. Len(text), grouped : BOOLEAN]
  BY Zenon DEF EInv, Typed
<1>2. a.at \in 1 .. Len(text) /\ a.from \in 1 .. Len(text) /\ a.to \in 1 .. Len(text)
  BY <1>1
<1>3. Fine(a, text)
  BY Zenon DEF PInv
<1> QED BY <1>1, <1>2, <1>3

LEMMA PrioritiesHold == ASSUME EInv, PInv PROVE PrioritiesAreKept
<1>1. ASSUME NEW a \in applied, ~a.grouped PROVE TightestFirst(a) \/ FourPriorities(a.at)
  <2>1. text \in Seq(TextKey) /\ a.from \in Nat /\ a.to \in Nat /\ Fine(a, text)
    BY AppliedIsFine
  <2> QED BY <1>1, <2>1, FineIsTightest
<1> QED BY <1>1, Zenon DEF PrioritiesAreKept

LEMMA LeftHolds == ASSUME EInv, PInv PROVE LeftFirst
<1>1. ASSUME NEW a \in applied, ~a.grouped, NEW e \in Beside(a.at, a.from - 1, a.from - 1),
             Priority[text[e]] = Priority[text[a.at]]
      PROVE  \E p \in Beside(a.at, a.from, a.at - 1) : \E t \in Beside(a.at, 1, a.at - 1) :
               /\ Priority[text[t]] < Priority[text[p]]
               /\ Priority[text[p]] < Priority[text[a.at]]
  <2>1. text \in Seq(TextKey) /\ a.at \in Nat /\ a.from \in Nat /\ Fine(a, text)
    BY AppliedIsFine
  <2> QED BY <1>1, <2>1, FineIsLeftFirst
<1> QED BY <1>1, Zenon DEF LeftFirst

-----------------------------------------------------------------------------
(* The theorems. *)

\* Outside of parentheses every operator is applied where precedence wants it,
\* in whatever order check_priority, back_ward_solve_expr and clear_process_stack
\* meet the operators, unless those side by side have four priorities or more.
THEOREM PrioritiesKept == Spec => []PrioritiesAreKept
<1>1. EInv /\ PInv => PrioritiesAreKept
  BY PrioritiesHold
<1> QED BY <1>1, Invariant, PInvariant, PTL

\* Outside of parentheses, of two neighbouring operators of equal priority the
\* left one is applied first, unless the right one has an operator in its left
\* operand that binds tighter than it and looser than one in front of it.
THEOREM LeftIsFirst == Spec => []LeftFirst
<1>1. EInv /\ PInv => LeftFirst
  BY LeftHolds
<1> QED BY <1>1, Invariant, PInvariant, PTL

\* A statement that reduce_returnexpression or reduce_semicolon ends leaves
\* nothing on symbol_stack but the function it stands in, unless an operator of
\* it binds looser than one to its left or a "(" follows a literal or a ")".
THEOREM StatementsAreComplete == Spec => []StatementsComplete
<1>1. PInv => StatementsComplete
  BY Zenon DEF PInv
<1> QED BY <1>1, PInvariant, PTL
=============================================================================
