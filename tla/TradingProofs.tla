---------------------------- MODULE TradingProofs ---------------------------
(***************************************************************************)
(* What is proved of the paper account of src/paper_account.py, traded on  *)
(* by a sequence of fills (PaperTrading) and by the passes of the workflow *)
(* (TradingPass), for all values of the constants: first the arithmetic of *)
(* one fill, then each program, its invariant in named parts.              *)
(***************************************************************************)
EXTENDS TradingPass, PaperTrading, NumberLemmas, TLAPS

(* An account as fills leave it: nothing is left of a position that was     *)
(* closed, and a spot account never owes.                                   *)
Sane(a) ==
  /\ a \in Account
  /\ a.qty = 0 => a.avg = 0 /\ a.margin = 0
  /\ instrument = "spot" => a.cash >= 0 /\ a.qty >= 0 /\ a.margin = 0

(* What the account owns at its entry price, less what realized profit      *)
(* explains; only fees, and the rounding of a spot entry price, take of it. *)
Explained(a) == a.cash + a.margin - a.realized
Worth(a) == Explained(a) + (IF instrument = "spot" THEN a.qty * a.avg ELSE 0)

FeesAreCharged == FeeDiv \in 1..Unit

-----------------------------------------------------------------------------
(* The notional, the fee and the initial margin of a fill.                  *)
LEMMA Amounts ==
  ASSUME NEW q \in Nat, NEW px \in Nat
  PROVE  /\ Notional(q, px) \in Nat /\ Fee(q, px) \in Nat /\ InitialMargin(q, px) \in Nat
         /\ FeesAreCharged /\ q > 0 /\ px > 0 => Fee(q, px) >= 1
<1>1. Notional(q, px) \in Nat
  BY FillConstants DEF Notional
<1>2. InitialMargin(q, px) \in Nat
  BY <1>1, FillConstants, DivBounds DEF InitialMargin
<1>3. Fee(q, px) \in Nat
  <2>1. CASE FeeDiv = 0
    BY <2>1 DEF Fee
  <2>2. CASE FeeDiv # 0
    BY <1>1, <2>2, FillConstants, DivBounds DEF Fee
  <2> QED
    BY <2>1, <2>2
<1>4. ASSUME FeesAreCharged, q > 0, px > 0
      PROVE  Fee(q, px) >= 1
  <2>1. FeeDiv \in Nat \ {0} /\ FeeDiv <= Unit /\ Unit \in Nat \ {0}
    BY <1>4, FillConstants DEF FeesAreCharged
  <2>2. Notional(q, px) >= Unit
    <3>1. q * px \in Nat /\ q * px >= 1
      BY <1>4
    <3> DEFINE n == q * px
    <3> HIDE DEF n
    <3>2. n * Unit >= 1 * Unit
      BY <2>1, <3>1 DEF n
    <3> QED
      BY <2>1, <3>2 DEF Notional, n
  <2>3. FeeDiv * 1 <= Notional(q, px)
    BY <1>1, <2>1, <2>2
  <2> QED
    BY <1>1, <2>1, <2>3, DivAtLeast DEF Fee
<1> QED
  BY <1>1, <1>2, <1>3, <1>4

(* The average entry price lies between nothing and all that was paid.      *)
LEMMA Blends ==
  ASSUME NEW a \in Account, NEW q \in Nat \ {0}, NEW px \in Nat, a.qty >= 0
  PROVE  /\ Blend(a, q, px) \in Nat
         /\ (a.qty + q) * Blend(a, q, px) <= a.avg * a.qty + Notional(q, px)
<1>1. a.avg \in Nat /\ a.qty \in Nat /\ Notional(q, px) \in Nat
  <2>1. a.avg \in Nat /\ a.qty \in Nat
    BY DEF Account
  <2>2. q \in Nat
    OBVIOUS
  <2> QED
    BY <2>1, <2>2, Amounts
<1>2. a.avg * a.qty \in Nat
  BY <1>1
<1>3. a.avg * a.qty + Notional(q, px) \in Nat /\ a.qty + q \in Nat \ {0}
  BY <1>1, <1>2
<1> QED
  BY <1>3, DivBounds DEF Blend

(* A share of the margin is not more than all of it, and all of it is all.  *)
LEMMA Shares ==
  ASSUME NEW m \in Nat, NEW q \in Nat, NEW size \in Nat \ {0}, q <= size
  PROVE  /\ (m * q) \div size \in Nat /\ (m * q) \div size <= m
         /\ q = size => (m * q) \div size = m
<1>1. m * q \in Nat /\ m * q <= size * m
  BY Z3
<1>2. (m * q) \div size \in Nat /\ (m * q) \div size <= m
  BY <1>1, DivAtMost, DivBounds
<1>3. ASSUME q = size PROVE (m * q) \div size = m
  <2>1. size * m <= m * q
    BY <1>3
  <2>2. m <= (m * q) \div size
    BY <1>1, <2>1, DivAtLeast
  <2> QED
    BY <1>2, <2>2
<1> QED
  BY <1>2, <1>3

-----------------------------------------------------------------------------
(* Opening moves cash into margin and pays the fee.                         *)
LEMMA Opens ==
  ASSUME NEW a \in Account, NEW sign \in {1, -1}, NEW q \in Nat \ {0}, NEW px \in Nat,
         NEW avg \in Nat, sign * a.qty >= 0,
         NEW f, f = Opened(a, sign, q, px, avg)
  PROVE  /\ f.ok \in BOOLEAN /\ (~f.ok => f.acct = a)
         /\ f.ok => /\ f.acct \in Account /\ f.acct.qty # 0
                    /\ f.fee = Fee(q, px)
                    /\ Explained(f.acct) + f.fee = Explained(a)
         /\ a.cash >= InitialMargin(q, px) + Fee(q, px) => f.ok
<1> DEFINE need == InitialMargin(q, px) + Fee(q, px)
           b == [a EXCEPT !.cash = @ - need, !.margin = @ + InitialMargin(q, px),
                          !.qty = @ + sign * q, !.avg = avg]
<1>1. Fee(q, px) \in Nat /\ InitialMargin(q, px) \in Nat
  BY Amounts
<1>2. f = IF a.cash < need THEN Refused(a) ELSE Booked(b, Fee(q, px))
  BY DEF Opened
<1>3. CASE a.cash < need
  <2>1. f.ok = FALSE /\ f.acct = a
    BY <1>2, <1>3 DEF Refused
  <2>2. ~(a.cash >= need)
    BY <1>1, <1>3 DEF Account
  <2> HIDE DEF need
  <2> QED
    BY <2>1, <2>2 DEF need
<1>4. CASE ~(a.cash < need)
  <2>1. f.ok = TRUE /\ f.acct = b /\ f.fee = Fee(q, px)
    BY <1>2, <1>4 DEF Booked
  <2>2. /\ a.cash - need \in Int
        /\ a.margin + InitialMargin(q, px) \in Nat
        /\ a.qty + sign * q \in Int /\ a.qty + sign * q # 0
    BY <1>1 DEF Account
  <2>3. b \in Account
    <3> HIDE DEF need
    <3> QED
      BY <2>2 DEF Account
  <2>4. /\ b.cash = a.cash - need /\ b.margin = a.margin + InitialMargin(q, px)
        /\ b.realized = a.realized /\ b.qty = a.qty + sign * q
    BY DEF Account
  <2>5. Explained(b) + Fee(q, px) = Explained(a)
    BY <1>1, <2>4 DEF Explained, Account
  <2> HIDE DEF b
  <2> QED
    BY <2>1, <2>2, <2>3, <2>4, <2>5
<1> QED
  BY <1>3, <1>4

(* Closing moves margin into cash and adds the profit it realizes, less the *)
(* fee; closing everything releases the whole margin.                       *)
LEMMA Closes ==
  ASSUME NEW a \in Account, NEW sign \in {1, -1}, NEW q \in Nat, NEW px \in Nat,
         sign * a.qty > 0, q <= sign * a.qty,
         NEW b, b = Closed(a, sign, q, px)
  PROVE  /\ b \in Account /\ b.qty = a.qty - sign * q
         /\ b.qty = 0 => b.avg = 0 /\ b.margin = 0
         /\ Explained(b) + Fee(q, px) = Explained(a)
<1> DEFINE size == sign * a.qty
           released == (a.margin * q) \div size
           pnl == sign * q * (px * Unit - a.avg)
           left == a.qty - sign * q
<1>1. Fee(q, px) \in Nat
  BY Amounts
<1>2. /\ size \in Nat \ {0} /\ left \in Int /\ (left = 0 <=> q = size)
      /\ a.cash \in Int /\ a.margin \in Nat /\ a.realized \in Int /\ a.avg \in Nat /\ a.qty \in Int
  BY DEF Account
<1>3. released \in Nat /\ released <= a.margin /\ (left = 0 => released = a.margin)
  <2> HIDE DEF size, left
  <2>1. q <= size
    BY DEF size
  <2> QED
    BY <1>2, <2>1, Shares
<1>4. pnl \in Int
  <2>1. px * Unit - a.avg \in Int
    BY <1>2, FillConstants
  <2>2. sign * q \in Int
    OBVIOUS
  <2> QED
    BY <2>1, <2>2
<1>5. b = [a EXCEPT !.cash = @ + released + pnl - Fee(q, px), !.realized = @ + pnl,
                    !.qty = left, !.avg = IF left = 0 THEN 0 ELSE @,
                    !.margin = IF left = 0 THEN 0 ELSE @ - released]
  BY DEF Closed
<1> HIDE DEF released, pnl, left, size
<1>6. /\ b.cash = a.cash + released + pnl - Fee(q, px) /\ b.realized = a.realized + pnl
      /\ b.qty = left /\ b.avg = (IF left = 0 THEN 0 ELSE a.avg)
      /\ b.margin = IF left = 0 THEN 0 ELSE a.margin - released
  BY <1>5 DEF Account
<1>7. b \in Account
  <2>1. /\ a.cash + released + pnl - Fee(q, px) \in Int
        /\ a.realized + pnl \in Int
        /\ (IF left = 0 THEN 0 ELSE a.avg) \in Nat
        /\ (IF left = 0 THEN 0 ELSE a.margin - released) \in Nat
    BY <1>1, <1>2, <1>3, <1>4
  <2> DEFINE newAvg == IF left = 0 THEN 0 ELSE a.avg
             newMargin == IF left = 0 THEN 0 ELSE a.margin - released
  <2>2. b = [a EXCEPT !.cash = @ + released + pnl - Fee(q, px), !.realized = @ + pnl,
                      !.qty = left, !.avg = newAvg, !.margin = newMargin]
    BY <1>5
  <2>3. newAvg \in Nat /\ newMargin \in Nat
    BY <2>1
  <2> HIDE DEF newAvg, newMargin
  <2> QED
    BY <1>2, <2>1, <2>2, <2>3 DEF Account
<1>8. Explained(b) + Fee(q, px) = Explained(a)
  BY <1>1, <1>2, <1>3, <1>4, <1>6 DEF Explained
<1> QED
  BY <1>6, <1>7, <1>8 DEF left

(* A fill against the position closes at most all of it and opens the rest. *)
LEMMA Flips ==
  ASSUME NEW a \in Account, NEW sign \in {1, -1}, NEW q \in Nat \ {0}, NEW px \in Nat \ {0},
         sign * a.qty > 0,
         NEW f, f = Flipped(a, sign, q, px)
  PROVE  /\ f.ok \in BOOLEAN /\ (~f.ok => f.acct = a)
         /\ f.ok => /\ f.acct \in Account /\ (f.acct.qty = 0 => f.acct.avg = 0 /\ f.acct.margin = 0)
                    /\ f.fee \in Nat /\ (FeesAreCharged => f.fee >= 1)
                    /\ Explained(f.acct) + f.fee = Explained(a)
         /\ q <= sign * a.qty => f.ok
<1> DEFINE size == sign * a.qty
           part == Least(q, size)
           after == Closed(a, sign, part, px)
           rest == Opened(after, -sign, q - part, px, px * Unit)
<1>1. /\ part \in Nat \ {0} /\ part <= size /\ q - part \in Nat
      /\ size \in Nat \ {0} /\ (q <= size <=> q = part) /\ (q # part => part = size)
  BY DEF Least, Account
<1>2. /\ after \in Account /\ Explained(after) + Fee(part, px) = Explained(a)
      /\ after.qty = a.qty - sign * part
      /\ after.qty = 0 => after.avg = 0 /\ after.margin = 0
  <2>1. part \in Nat /\ part <= sign * a.qty /\ px \in Nat
    BY <1>1
  <2>2. after = Closed(a, sign, part, px)
    OBVIOUS
  <2> HIDE DEF part, after
  <2> QED
    BY <2>1, <2>2, Closes
<1>3. Fee(part, px) \in Nat /\ Fee(q - part, px) \in Nat /\ (FeesAreCharged => Fee(part, px) >= 1)
  <2>1. part \in Nat /\ part > 0 /\ q - part \in Nat /\ px \in Nat /\ px > 0
    BY <1>1
  <2> HIDE DEF part
  <2> QED
    BY <2>1, Amounts
<1>4. f = IF q = part THEN Booked(after, Fee(part, px))
          ELSE IF rest.ok THEN Booked(rest.acct, Fee(part, px) + rest.fee)
          ELSE Refused(a)
  BY DEF Flipped
<1> HIDE DEF after, rest, part
<1>5. CASE q = part
  <2>1. f.ok = TRUE /\ f.acct = after /\ f.fee = Fee(part, px)
    BY <1>4, <1>5 DEF Booked
  <2> QED
    BY <1>2, <1>3, <2>1
<1>6. CASE q # part
  <2>1. -sign \in {1, -1} /\ px * Unit \in Nat /\ after.qty = 0 /\ q - part \in Nat \ {0}
    <3>1. px * Unit \in Nat
      BY FillConstants
    <3>2. after.qty = 0
      BY <1>1, <1>2, <1>6 DEF Account
    <3> QED
      BY <1>1, <1>6, <3>1, <3>2
  <2>2. /\ rest.ok \in BOOLEAN
        /\ rest.ok => /\ rest.acct \in Account /\ rest.acct.qty # 0
                      /\ rest.fee = Fee(q - part, px)
                      /\ Explained(rest.acct) + rest.fee = Explained(after)
    <3>1. (-sign) * after.qty >= 0
      BY <2>1
    <3> DEFINE back == -sign
               more == q - part
               avg == px * Unit
    <3>2. rest = Opened(after, back, more, px, avg)
      BY DEF rest
    <3>3. back \in {1, -1} /\ more \in Nat \ {0} /\ avg \in Nat /\ back * after.qty >= 0 /\ px \in Nat
      BY <2>1, <3>1
    <3> HIDE DEF back, more, avg
    <3>4. /\ rest.ok \in BOOLEAN
          /\ rest.ok => /\ rest.acct \in Account /\ rest.acct.qty # 0
                        /\ rest.fee = Fee(more, px)
                        /\ Explained(rest.acct) + rest.fee = Explained(after)
      BY <1>2, <3>2, <3>3, Opens
    <3> QED
      BY <3>4 DEF more
  <2>3. CASE ~rest.ok
    <3>1. f.ok = FALSE /\ f.acct = a
      BY <1>4, <1>6, <2>3 DEF Refused
    <3> QED
      BY <1>1, <1>6, <3>1
  <2>4. CASE rest.ok
    <3>1. f.ok = TRUE /\ f.acct = rest.acct /\ f.fee = Fee(part, px) + rest.fee
      BY <1>4, <1>6, <2>4 DEF Booked
    <3>2. Explained(rest.acct) \in Int /\ Explained(after) \in Int /\ Explained(a) \in Int
      BY <1>2, <2>2, <2>4 DEF Explained, Account
    <3>3. f.fee \in Nat /\ (FeesAreCharged => f.fee >= 1)
      BY <1>3, <2>2, <2>4, <3>1
    <3>4. Explained(f.acct) + f.fee = Explained(a)
      BY <1>2, <1>3, <2>2, <2>4, <3>1, <3>2
    <3> QED
      BY <2>2, <2>4, <3>1, <3>3, <3>4
  <2> QED
    BY <2>2, <2>3, <2>4
<1> QED
  BY <1>5, <1>6

(* What a fill of a spot account leaves.                                    *)
LEMMA SpotFills ==
  ASSUME instrument = "spot", NEW a, Sane(a), NEW q \in Nat \ {0}, NEW px \in Nat \ {0},
         NEW side \in {"buy", "sell"},
         NEW f, f = (IF side = "buy" THEN SpotBuy(a, q, px) ELSE SpotSell(a, q, px))
  PROVE  /\ f.ok \in BOOLEAN /\ (~f.ok => f.acct = a)
         /\ f.ok => /\ Sane(f.acct) /\ f.fee = Fee(q, px)
                    /\ Worth(f.acct) + f.fee <= Worth(a)
         /\ side = "buy" /\ Notional(q, px) + Fee(q, px) <= a.cash => f.ok
         /\ side = "sell" /\ q <= a.qty => f.ok
<1>1. /\ a \in Account /\ a.cash \in Nat /\ a.qty \in Nat /\ a.avg \in Nat /\ a.margin = 0
      /\ a.realized \in Int
  BY DEF Sane, Account
<1>2. /\ Notional(q, px) \in Nat /\ Fee(q, px) \in Nat /\ px \in Nat /\ q \in Nat
      /\ Fee(q, px) <= Notional(q, px)
  <2>1. px \in Nat /\ q \in Nat
    OBVIOUS
  <2>2. Notional(q, px) \in Nat /\ Fee(q, px) \in Nat
    BY <2>1, Amounts
  <2>3. Fee(q, px) <= Notional(q, px)
    <3>1. CASE FeeDiv = 0
      BY <2>2, <3>1 DEF Fee
    <3>2. CASE FeeDiv # 0
      <4> DEFINE n == Notional(q, px)
      <4>1. FeeDiv \in Nat \ {0} /\ n \in Nat
        BY <2>2, <3>2, FillConstants
      <4> HIDE DEF n
      <4>2. n <= FeeDiv * n
        BY <4>1
      <4>3. n \div FeeDiv <= n
        BY <4>1, <4>2, DivAtMost
      <4> QED
        BY <3>2, <4>3 DEF Fee, n
    <3> QED
      BY <3>1, <3>2
  <2> QED
    BY <2>1, <2>2, <2>3
<1>3. CASE side = "buy"
  <2> DEFINE cost == Notional(q, px) + Fee(q, px)
             price == Blend(a, q, px)
             b == [a EXCEPT !.cash = @ - cost, !.avg = price, !.qty = @ + q]
  <2>1. f = IF a.cash < cost THEN Refused(a) ELSE Booked(b, Fee(q, px))
    BY <1>3 DEF SpotBuy
  <2>2. price \in Nat /\ (a.qty + q) * price <= a.avg * a.qty + Notional(q, px)
    BY <1>1, <1>2, Blends
  <2>3. CASE a.cash < cost
    <3>1. f.ok = FALSE /\ f.acct = a
      BY <2>1, <2>3 DEF Refused
    <3>2. ~(cost <= a.cash)
      BY <1>1, <1>2, <2>3
    <3> QED
      BY <1>3, <3>1, <3>2
  <2>4. CASE ~(a.cash < cost)
    <3>1. f.ok = TRUE /\ f.acct = b /\ f.fee = Fee(q, px)
      BY <2>1, <2>4 DEF Booked
    <3>2. a.cash - cost \in Nat /\ a.qty + q \in Nat \ {0}
      BY <1>1, <1>2, <2>4
    <3> DEFINE cash2 == a.cash - cost
               qty2 == a.qty + q
    <3>3. b = [a EXCEPT !.cash = cash2, !.avg = price, !.qty = qty2]
      OBVIOUS
    <3>a. cash2 \in Int /\ qty2 \in Int
      BY <3>2
    <3> HIDE DEF cost, price, cash2, qty2
    <3>b. b \in Account
      BY <1>1, <2>2, <3>3, <3>a DEF Account
    <3>4. /\ b.cash = a.cash - cost /\ b.qty = a.qty + q /\ b.avg = price
          /\ b.margin = 0 /\ b.realized = a.realized
      BY <1>1, <3>3 DEF Account, cash2, qty2
    <3> HIDE DEF b
    <3>5. Sane(b)
      BY <3>2, <3>b, <3>4 DEF Sane
    <3>6. b.qty * b.avg <= a.qty * a.avg + Notional(q, px)
      BY <1>1, <2>2, <3>4
    <3>7. b.qty * b.avg \in Int /\ a.qty * a.avg \in Int
      BY <1>1, <2>2, <3>2, <3>4
    <3>8. Worth(b) + Fee(q, px) <= Worth(a)
      BY <1>1, <1>2, <3>4, <3>6, <3>7 DEF Worth, Explained, cost
    <3> QED
      BY <1>3, <3>1, <3>5, <3>8
  <2> QED
    BY <2>3, <2>4
<1>4. CASE side = "sell"
  <2> DEFINE left == a.qty - q
             gain == q * (px * Unit - a.avg)
             price == IF left = 0 THEN 0 ELSE a.avg
             b == [a EXCEPT !.cash = @ + Notional(q, px) - Fee(q, px), !.realized = @ + gain,
                            !.qty = left, !.avg = price]
  <2>1. f = IF left < 0 THEN Refused(a) ELSE Booked(b, Fee(q, px))
    BY <1>4 DEF SpotSell
  <2>2. CASE left < 0
    <3>1. f.ok = FALSE /\ f.acct = a
      BY <2>1, <2>2 DEF Refused
    <3>2. ~(q <= a.qty)
      BY <1>1, <1>2, <2>2
    <3> QED
      BY <1>4, <3>1, <3>2
  <2>3. CASE ~(left < 0)
    <3>1. f.ok = TRUE /\ f.acct = b /\ f.fee = Fee(q, px)
      BY <2>1, <2>3 DEF Booked
    <3>2. /\ left \in Nat /\ price \in Nat /\ (left = 0 => price = 0)
          /\ a.cash + Notional(q, px) - Fee(q, px) \in Nat
      BY <1>1, <1>2, <2>3
    <3>3. gain \in Int /\ gain = Notional(q, px) - q * a.avg /\ q * a.avg \in Int
      <4>1. px * Unit \in Int /\ q * a.avg \in Int
        BY <1>1, FillConstants
      <4>2. gain = q * (px * Unit) - q * a.avg
        BY <1>1, <4>1
      <4>3. Notional(q, px) = q * (px * Unit)
        BY FillConstants DEF Notional
      <4> QED
        BY <1>2, <4>1, <4>2, <4>3
    <3>4. left * price = a.qty * a.avg - q * a.avg /\ left * price \in Int /\ a.qty * a.avg \in Int
      <4>1. (a.qty - q) * a.avg = a.qty * a.avg - q * a.avg /\ a.qty * a.avg \in Int
        BY <1>1
      <4>2. CASE left = 0
        BY <1>1, <4>1, <4>2
      <4>3. CASE left # 0
        BY <1>1, <4>1, <4>3
      <4> QED
        BY <4>2, <4>3
    <3> DEFINE cash2 == a.cash + Notional(q, px) - Fee(q, px)
               gained == a.realized + gain
    <3>a. b = [a EXCEPT !.cash = cash2, !.realized = gained, !.qty = left, !.avg = price]
      OBVIOUS
    <3>b. cash2 \in Int /\ gained \in Int /\ left \in Int /\ price \in Nat
      BY <1>1, <3>2, <3>3
    <3> HIDE DEF left, gain, price, cash2, gained
    <3>5. b \in Account
      BY <1>1, <3>a, <3>b DEF Account
    <3>6. /\ b.cash = a.cash + Notional(q, px) - Fee(q, px) /\ b.qty = left /\ b.avg = price
          /\ b.margin = 0 /\ b.realized = a.realized + gain
      BY <1>1, <3>a DEF Account, cash2, gained
    <3> HIDE DEF b
    <3>7. Sane(b)
      BY <3>2, <3>5, <3>6 DEF Sane
    <3>8. Worth(b) + Fee(q, px) <= Worth(a)
      BY <1>1, <1>2, <3>3, <3>4, <3>6 DEF Worth, Explained
    <3> QED
      BY <1>4, <3>1, <3>7, <3>8
  <2> QED
    BY <2>2, <2>3
<1> QED
  BY <1>3, <1>4

(* A perpetual position opened or added to.                                 *)
LEMMA PerpOpens ==
  ASSUME instrument = "perp", NEW a, Sane(a), NEW q \in Nat \ {0}, NEW px \in Nat \ {0},
         NEW sign \in {1, -1}, sign * a.qty >= 0, NEW avg \in Nat,
         NEW f, f = Opened(a, sign, q, px, avg)
  PROVE  /\ f.ok \in BOOLEAN /\ (~f.ok => f.acct = a)
         /\ f.ok => /\ Sane(f.acct) /\ f.fee \in Nat /\ (FeesAreCharged => f.fee >= 1)
                    /\ Explained(f.acct) + f.fee = Explained(a)
         /\ InitialMargin(q, px) + Fee(q, px) <= a.cash => f.ok
<1>1. a \in Account /\ a.cash \in Int
  BY DEF Sane, Account
<1>2. q \in Nat /\ px \in Nat /\ q > 0 /\ px > 0
  OBVIOUS
<1>3. Fee(q, px) \in Nat /\ (FeesAreCharged => Fee(q, px) >= 1) /\ InitialMargin(q, px) \in Nat
  BY <1>2, Amounts
<1>4. /\ f.ok \in BOOLEAN /\ (~f.ok => f.acct = a)
      /\ f.ok => /\ f.acct \in Account /\ f.acct.qty # 0
                 /\ f.fee = Fee(q, px)
                 /\ Explained(f.acct) + f.fee = Explained(a)
      /\ a.cash >= InitialMargin(q, px) + Fee(q, px) => f.ok
  BY <1>1, <1>2, Opens
<1>5. InitialMargin(q, px) + Fee(q, px) <= a.cash => f.ok
  BY <1>1, <1>3, <1>4
<1> QED
  BY <1>3, <1>4, <1>5 DEF Sane

(* What a fill of a perpetual account leaves.                               *)
LEMMA PerpFills ==
  ASSUME instrument = "perp", NEW a, Sane(a), NEW q \in Nat \ {0}, NEW px \in Nat \ {0},
         NEW side \in {"buy", "sell"},
         NEW f, f = (IF side = "buy" THEN PerpBuy(a, q, px) ELSE PerpSell(a, q, px))
  PROVE  /\ f.ok \in BOOLEAN /\ (~f.ok => f.acct = a)
         /\ f.ok => /\ Sane(f.acct) /\ f.fee \in Nat /\ (FeesAreCharged => f.fee >= 1)
                    /\ Explained(f.acct) + f.fee = Explained(a)
         /\ LET against == IF side = "buy" THEN -a.qty ELSE a.qty
            IN  IF against > 0 THEN q <= against => f.ok
                               ELSE InitialMargin(q, px) + Fee(q, px) <= a.cash => f.ok
<1>1. a \in Account /\ a.qty \in Int /\ a.avg \in Nat /\ a.cash \in Int /\ px * Unit \in Nat
  BY FillConstants DEF Sane, Account
<1>2. Fee(q, px) \in Nat /\ (FeesAreCharged => Fee(q, px) >= 1) /\ InitialMargin(q, px) \in Nat
  <2>1. q \in Nat /\ px \in Nat /\ q > 0 /\ px > 0
    OBVIOUS
  <2> QED
    BY <2>1, Amounts
<1>3. ASSUME NEW sign \in {1, -1}, sign * a.qty >= 0, NEW avg \in Nat, f = Opened(a, sign, q, px, avg)
      PROVE  /\ f.ok \in BOOLEAN /\ (~f.ok => f.acct = a)
             /\ f.ok => /\ Sane(f.acct) /\ f.fee \in Nat /\ (FeesAreCharged => f.fee >= 1)
                        /\ Explained(f.acct) + f.fee = Explained(a)
             /\ InitialMargin(q, px) + Fee(q, px) <= a.cash => f.ok
  BY <1>1, <1>3, PerpOpens
<1>4. ASSUME NEW sign \in {1, -1}, sign * a.qty > 0, f = Flipped(a, sign, q, px)
      PROVE  /\ f.ok \in BOOLEAN /\ (~f.ok => f.acct = a)
             /\ f.ok => /\ Sane(f.acct) /\ f.fee \in Nat /\ (FeesAreCharged => f.fee >= 1)
                        /\ Explained(f.acct) + f.fee = Explained(a)
             /\ q <= sign * a.qty => f.ok
  <2>1. /\ f.ok \in BOOLEAN /\ (~f.ok => f.acct = a)
        /\ f.ok => /\ f.acct \in Account /\ (f.acct.qty = 0 => f.acct.avg = 0 /\ f.acct.margin = 0)
                   /\ f.fee \in Nat /\ (FeesAreCharged => f.fee >= 1)
                   /\ Explained(f.acct) + f.fee = Explained(a)
        /\ q <= sign * a.qty => f.ok
    BY <1>1, <1>4, Flips
  <2> QED
    BY <2>1 DEF Sane
<1>5. CASE side = "buy" /\ a.qty >= 0
  <2>1. f = Opened(a, 1, q, px, Blend(a, q, px)) /\ Blend(a, q, px) \in Nat
    BY <1>1, <1>5, Blends DEF PerpBuy
  <2>2. 1 * a.qty >= 0 /\ ~(-a.qty > 0)
    BY <1>1, <1>5
  <2> QED
    BY <1>3, <1>5, <2>1, <2>2
<1>6. CASE side = "buy" /\ ~(a.qty >= 0)
  <2> DEFINE short == -1
  <2>1. f = Flipped(a, short, q, px)
    BY <1>6 DEF PerpBuy
  <2>2. short \in {1, -1} /\ short * a.qty > 0 /\ short * a.qty = -a.qty
    BY <1>1, <1>6
  <2> HIDE DEF short
  <2> QED
    BY <1>4, <1>6, <2>1, <2>2
<1>7. CASE side = "sell" /\ a.qty <= 0
  <2> DEFINE short == -1
  <2>1. f = Opened(a, short, q, px, px * Unit)
    BY <1>7 DEF PerpSell
  <2>2. short \in {1, -1} /\ short * a.qty >= 0 /\ ~(a.qty > 0)
    BY <1>1, <1>7
  <2> HIDE DEF short
  <2> QED
    BY <1>1, <1>3, <1>7, <2>1, <2>2
<1>8. CASE side = "sell" /\ ~(a.qty <= 0)
  <2>1. f = Flipped(a, 1, q, px) /\ 1 * a.qty > 0 /\ 1 * a.qty = a.qty
    BY <1>1, <1>8 DEF PerpSell
  <2> QED
    BY <1>4, <1>8, <2>1
<1> QED
  BY <1>5, <1>6, <1>7, <1>8

(* Any fill of the account: it is refused and changes nothing, or leaves an *)
(* account that is worth its fee less, at most.                             *)
LEMMA Fills ==
  ASSUME instrument \in {"spot", "perp"}, Sane(acct), NEW q \in Nat \ {0}, NEW px \in Nat \ {0},
         NEW side \in {"buy", "sell"},
         NEW f, f = Fill(side, q, px)
  PROVE  /\ f.ok \in BOOLEAN /\ (~f.ok => f.acct = acct)
         /\ f.ok => /\ Sane(f.acct) /\ f.fee \in Nat /\ (FeesAreCharged => f.fee >= 1)
                    /\ Worth(f.acct) + f.fee <= Worth(acct)
                    /\ instrument = "perp" => Explained(f.acct) + f.fee = Explained(acct)
<1>1. q \in Nat /\ px \in Nat /\ q > 0 /\ px > 0
  OBVIOUS
<1>2. Fee(q, px) \in Nat /\ (FeesAreCharged => Fee(q, px) >= 1)
  BY <1>1, Amounts
<1>3. CASE instrument = "spot"
  <2>1. f = IF side = "buy" THEN SpotBuy(acct, q, px) ELSE SpotSell(acct, q, px)
    BY <1>3 DEF Fill
  <2>2. /\ f.ok \in BOOLEAN /\ (~f.ok => f.acct = acct)
        /\ f.ok => Sane(f.acct) /\ f.fee = Fee(q, px) /\ Worth(f.acct) + f.fee <= Worth(acct)
    BY <1>3, <2>1, SpotFills
  <2> QED
    BY <1>2, <1>3, <2>2
<1>4. CASE instrument = "perp"
  <2>1. f = IF side = "buy" THEN PerpBuy(acct, q, px) ELSE PerpSell(acct, q, px)
    BY <1>4 DEF Fill
  <2>2. /\ f.ok \in BOOLEAN /\ (~f.ok => f.acct = acct)
        /\ f.ok => /\ Sane(f.acct) /\ f.fee \in Nat /\ (FeesAreCharged => f.fee >= 1)
                   /\ Explained(f.acct) + f.fee = Explained(acct)
    BY <1>4, <2>1, PerpFills
  <2>3. \A a \in Account : Explained(a) \in Int
    BY DEF Explained, Account
  <2>4. f.ok => Worth(f.acct) + f.fee <= Worth(acct)
    BY <1>4, <2>2, <2>3 DEF Worth, Sane
  <2> QED
    BY <2>2, <2>4
<1> QED
  BY <1>3, <1>4

-----------------------------------------------------------------------------
(* What a fill does to the equity of a perpetual account.                   *)

(* The entry price of a position that was added to is a quotient.  Floats   *)
(* have it to fifteen digits, the model only if it is a whole number.       *)
Exact(a, q, px) ==
  a.qty >= 0 => (a.qty + q) * Blend(a, q, px) = a.avg * a.qty + Notional(q, px)
QuotientsAreExact == \A px \in Price, q \in Qty : Exact(acct, q, px)

(* Not so much leverage that a margin is less than one unit of money.       *)
MarginIsCharged == Leverage <= Unit

Backed(a) == (a.margin = 0) = (a.qty = 0)
Marked(a, px) == a.cash + a.margin + a.qty * (px * Unit - a.avg)

LEMMA MarginOfOne ==
  ASSUME MarginIsCharged, NEW q \in Nat \ {0}, NEW px \in Nat \ {0}
  PROVE  InitialMargin(q, px) >= 1
<1>1. Unit \in Nat \ {0} /\ Leverage \in Nat \ {0} /\ Leverage <= Unit
  BY FillConstants DEF MarginIsCharged
<1>2. Notional(q, px) \in Nat /\ Notional(q, px) >= Unit
  <2> DEFINE n == q * px
  <2>1. n \in Nat /\ n >= 1
    OBVIOUS
  <2> HIDE DEF n
  <2>2. n * Unit \in Nat /\ n * Unit >= 1 * Unit
    BY <1>1, <2>1
  <2> QED
    BY <1>1, <2>2 DEF Notional, n
<1>3. Leverage * 1 <= Notional(q, px)
  BY <1>1, <1>2
<1> QED
  BY <1>1, <1>2, <1>3, DivAtLeast DEF InitialMargin

(* A part of the position leaves a part of the margin.                      *)
LEMMA ShareLeaves ==
  ASSUME NEW m \in Nat \ {0}, NEW q \in Nat, NEW size \in Nat \ {0}, q < size
  PROVE  (m * q) \div size < m
<1> DEFINE n == m * q
           d == n \div size
<1>1. n \in Nat /\ n < size * m
  BY Z3
<1> HIDE DEF n
<1>2. d \in Nat /\ size * d <= n
  BY <1>1, DivBounds
<1> HIDE DEF d
<1>3. size * d < size * m
  <2>1. size * d \in Nat /\ size * m \in Nat
    BY <1>2
  <2> QED
    BY <1>1, <1>2, <2>1
<1>4. ~(d >= m)
  <2> SUFFICES ASSUME d >= m PROVE FALSE
    OBVIOUS
  <2>1. size * d >= size * m
    BY <1>2
  <2> QED
    BY <1>2, <1>3, <2>1
<1> QED
  BY <1>2, <1>4 DEF d, n

(* Opening at an average that values old and new at what was paid.          *)
LEMMA OpensAtCost ==
  ASSUME NEW a \in Account, NEW sign \in {1, -1}, NEW q \in Nat \ {0}, NEW px \in Nat \ {0},
         NEW avg \in Nat, sign * a.qty >= 0,
         NEW f, f = Opened(a, sign, q, px, avg), f.ok
  PROVE  /\ (a.qty + sign * q) * avg = a.qty * a.avg + sign * q * (px * Unit)
              => Marked(f.acct, px) = Marked(a, px) - Fee(q, px)
         /\ MarginIsCharged => Backed(f.acct)
<1> DEFINE im == InitialMargin(q, px)
           need == im + Fee(q, px)
           more == a.qty + sign * q
           locked == a.margin + im
           cash2 == a.cash - need
           b == [a EXCEPT !.cash = cash2, !.margin = locked, !.qty = more, !.avg = avg]
<1>1. Fee(q, px) \in Nat /\ im \in Nat /\ px * Unit \in Nat
  BY Amounts, FillConstants
<1>2. f = IF a.cash < need THEN Refused(a) ELSE Booked(b, Fee(q, px))
  BY DEF Opened
<1>3. f.acct = b
  BY <1>2 DEF Refused, Booked
<1>4. b.cash = a.cash - need /\ b.margin = locked /\ b.qty = more /\ b.avg = avg
  BY DEF Account
<1>5. /\ a.cash \in Int /\ a.margin \in Nat /\ a.qty \in Int /\ a.avg \in Nat
      /\ more \in Int /\ more # 0
  BY DEF Account
<1>6. ASSUME MarginIsCharged PROVE Backed(b)
  BY <1>1, <1>4, <1>5, <1>6, MarginOfOne DEF Backed
<1>7. ASSUME more * avg = a.qty * a.avg + sign * q * (px * Unit)
      PROVE  Marked(b, px) = Marked(a, px) - Fee(q, px)
  <2> DEFINE P == px * Unit
             k == sign * q
  <2>1. k \in Int /\ P \in Int /\ more = a.qty + k
    BY <1>1
  <2>2. Marked(b, px) = a.cash - need + locked + more * (P - avg)
    BY <1>4 DEF Marked
  <2>3. Marked(a, px) = a.cash + a.margin + a.qty * (P - a.avg)
    BY DEF Marked
  <2>4. more * avg = a.qty * a.avg + k * P
    BY <1>7
  <2> HIDE DEF P, k, more
  <2>5. more * (P - avg) = more * P - more * avg /\ more * P = a.qty * P + k * P
    BY <1>5, <2>1
  <2>6. a.qty * (P - a.avg) = a.qty * P - a.qty * a.avg
    BY <1>5, <2>1
  <2>7. /\ a.qty * P \in Int /\ k * P \in Int /\ a.qty * a.avg \in Int /\ more * avg \in Int
    BY <1>5, <2>1
  <2>8. more * (P - avg) = a.qty * (P - a.avg)
    BY <2>4, <2>5, <2>6, <2>7
  <2>9. a.qty * (P - a.avg) \in Int
    BY <1>5, <2>1
  <2> HIDE DEF im
  <2> QED
    BY <1>1, <1>5, <2>2, <2>3, <2>8, <2>9
<1> HIDE DEF b
<1> QED
  BY <1>3, <1>6, <1>7 DEF more

(* Closing turns what the position is worth into cash.                      *)
LEMMA ClosesAtValue ==
  ASSUME NEW a \in Account, NEW sign \in {1, -1}, NEW q \in Nat, NEW px \in Nat \ {0},
         sign * a.qty > 0, q <= sign * a.qty,
         NEW b, b = Closed(a, sign, q, px)
  PROVE  /\ Marked(b, px) = Marked(a, px) - Fee(q, px)
         /\ Backed(a) => Backed(b)
<1> DEFINE size == sign * a.qty
           n == a.margin * q
           released == n \div size
           P == px * Unit
           k == sign * q
           pnl == k * (P - a.avg)
           left == a.qty - k
<1>1. Fee(q, px) \in Nat /\ P \in Nat /\ k \in Int
  BY Amounts, FillConstants
<1>2. /\ size \in Nat \ {0} /\ left \in Int /\ (left = 0 <=> q = size) /\ q <= size
      /\ a.cash \in Int /\ a.margin \in Nat /\ a.avg \in Nat /\ a.qty \in Int
  BY DEF Account
<1>3. /\ released \in Nat /\ (left = 0 => released = a.margin)
      /\ a.margin # 0 /\ left # 0 => released < a.margin
  <2> HIDE DEF size, left
  <2>1. left # 0 => q < size
    BY <1>2
  <2> QED
    BY <1>2, <2>1, Shares, ShareLeaves
<1>4. b = [a EXCEPT !.cash = @ + released + pnl - Fee(q, px), !.realized = @ + pnl,
                    !.qty = left, !.avg = IF left = 0 THEN 0 ELSE @,
                    !.margin = IF left = 0 THEN 0 ELSE @ - released]
  BY DEF Closed
<1> HIDE DEF released, size
<1>5. /\ b.cash = a.cash + released + pnl - Fee(q, px)
      /\ b.qty = left /\ b.avg = (IF left = 0 THEN 0 ELSE a.avg)
      /\ b.margin = IF left = 0 THEN 0 ELSE a.margin - released
  BY <1>4 DEF Account
<1>6. Backed(a) => Backed(b)
  <2> SUFFICES ASSUME Backed(a) PROVE Backed(b)
    OBVIOUS
  <2>1. a.margin # 0
    BY <1>2 DEF Backed
  <2> HIDE DEF left, pnl
  <2> QED
    BY <1>2, <1>3, <1>5, <2>1 DEF Backed
<1>7. Marked(b, px) = b.cash + b.margin + b.qty * (P - b.avg)
  BY DEF Marked
<1>8. Marked(a, px) = a.cash + a.margin + a.qty * (P - a.avg)
  BY DEF Marked
<1> DEFINE d == P - a.avg
<1>9. d \in Int /\ pnl = k * d
  BY <1>1, <1>2
<1>10. left * d = a.qty * d - k * d /\ left * d \in Int /\ a.qty * d \in Int /\ k * d \in Int
  <2> HIDE DEF d, k
  <2> QED
    BY <1>1, <1>2, <1>9
<1>11. CASE left = 0
  <2> HIDE DEF left, k
  <2>1. Marked(b, px) = a.cash + released + k * d - Fee(q, px)
    <3>1. b.margin = 0 /\ b.qty = 0 /\ b.avg = 0 /\ 0 * (P - 0) = 0
      BY <1>1, <1>5, <1>11
    <3> HIDE DEF d, P, pnl
    <3>2. b.cash = a.cash + a.margin + k * d - Fee(q, px)
      BY <1>3, <1>5, <1>9, <1>11
    <3>3. b.cash \in Int
      BY <1>1, <1>2, <1>10, <3>2
    <3> QED
      BY <1>1, <1>3, <1>7, <1>11, <3>1, <3>2, <3>3
  <2>2. a.qty * d = k * d
    <3>1. 0 * d = 0
      BY <1>9
    <3> HIDE DEF d
    <3> QED
      BY <1>10, <1>11, <3>1
  <2>3. Marked(a, px) = a.cash + a.margin + k * d
    BY <1>8, <2>2
  <2> HIDE DEF d
  <2> QED
    BY <1>1, <1>2, <1>3, <1>6, <1>10, <1>11, <2>1, <2>3
<1>12. CASE left # 0
  <2> HIDE DEF left, k
  <2>1. b.qty * (P - b.avg) = left * d
    BY <1>5, <1>12
  <2>2. Marked(a, px) = a.cash + a.margin + a.qty * d
    BY <1>8
  <2> HIDE DEF d, P, pnl
  <2> QED
    BY <1>1, <1>2, <1>3, <1>5, <1>6, <1>7, <1>9, <1>10, <1>12, <2>1, <2>2
<1> QED
  BY <1>11, <1>12

(* A fill against the position, whether it closes a part of it, all of it   *)
(* or opens the rest the other way.                                         *)
LEMMA FlipsAtValue ==
  ASSUME NEW a \in Account, NEW sign \in {1, -1}, NEW q \in Nat \ {0}, NEW px \in Nat \ {0},
         sign * a.qty > 0,
         NEW f, f = Flipped(a, sign, q, px), f.ok
  PROVE  /\ f.acct \in Account
         /\ Marked(f.acct, px) = Marked(a, px) - f.fee
         /\ MarginIsCharged /\ Backed(a) => Backed(f.acct)
         /\ q = sign * a.qty => f.acct.qty = 0
<1> DEFINE size == sign * a.qty
           part == Least(q, size)
           after == Closed(a, sign, part, px)
           back == -sign
           more == q - part
           avg == px * Unit
           rest == Opened(after, back, more, px, avg)
<1>1. /\ part \in Nat \ {0} /\ part <= size /\ more \in Nat
      /\ size \in Nat \ {0} /\ (q # part => part = size /\ more # 0) /\ (q = size => q = part)
  BY DEF Least, Account
<1>2. /\ after \in Account /\ after.qty = a.qty - sign * part
      /\ after.qty = 0 => after.avg = 0 /\ after.margin = 0
      /\ Marked(after, px) = Marked(a, px) - Fee(part, px)
      /\ Backed(a) => Backed(after)
  <2>1. part \in Nat /\ part <= sign * a.qty /\ px \in Nat
    BY <1>1
  <2>2. after = Closed(a, sign, part, px)
    OBVIOUS
  <2> HIDE DEF part, after
  <2> QED
    BY <2>1, <2>2, Closes, ClosesAtValue
<1>3. part = size => after.qty = 0
  BY <1>1, <1>2 DEF Account
<1>4. f = IF q = part THEN Booked(after, Fee(part, px))
          ELSE IF rest.ok THEN Booked(rest.acct, Fee(part, px) + rest.fee)
          ELSE Refused(a)
  BY DEF Flipped
<1>5. f.acct \in Account
  BY Flips
<1>6. back \in {1, -1} /\ avg \in Nat /\ px \in Nat
  BY FillConstants
<1> HIDE DEF after, part
<1>7. CASE q = part
  <2>1. f.acct = after /\ f.fee = Fee(part, px)
    BY <1>4, <1>7 DEF Booked
  <2> QED
    BY <1>1, <1>2, <1>3, <1>5, <1>7, <2>1
<1>8. CASE q # part
  <2>1. /\ rest.ok /\ f.acct = rest.acct /\ f.fee = Fee(part, px) + rest.fee
    BY <1>4, <1>8 DEF Booked, Refused
  <2>2. after.qty = 0 /\ more \in Nat \ {0} /\ q # size
    BY <1>1, <1>3, <1>8
  <2>3. rest = Opened(after, back, more, px, avg)
    OBVIOUS
  <2> HIDE DEF rest, back, more, avg
  <2>4. back * after.qty = 0 /\ back * after.qty >= 0
    BY <1>6, <2>2
  <2>5. rest.acct \in Account /\ rest.fee = Fee(more, px)
    BY <1>2, <1>6, <2>1, <2>2, <2>3, <2>4, Opens
  <2>6. (after.qty + back * more) * avg = after.qty * after.avg + back * more * (px * Unit)
    <3>1. after.qty = 0 /\ after.avg = 0 /\ after.qty * after.avg = 0
      BY <1>2, <2>2
    <3> DEFINE k == back * more
    <3>2. k \in Int /\ 0 + k = k
      BY <1>6, <2>2
    <3> HIDE DEF k
    <3>3. k * avg \in Int
      BY <1>6, <3>2
    <3>4. avg = px * Unit
      BY DEF avg
    <3> HIDE DEF avg
    <3> QED
      BY <2>2, <3>1, <3>2, <3>3, <3>4 DEF k
  <2>7. /\ Marked(rest.acct, px) = Marked(after, px) - Fee(more, px)
        /\ MarginIsCharged => Backed(rest.acct)
    BY <1>2, <1>6, <2>1, <2>2, <2>3, <2>4, <2>6, OpensAtCost
  <2>8. Marked(a, px) \in Int /\ Fee(part, px) \in Nat /\ Fee(more, px) \in Nat
    <3>1. Fee(part, px) \in Nat /\ Fee(more, px) \in Nat
      BY <1>1, <1>6, <2>2, Amounts
    <3>2. a.cash \in Int /\ a.margin \in Int /\ a.qty \in Int /\ px * Unit - a.avg \in Int
      BY <1>6 DEF Account, avg
    <3> QED
      BY <3>1, <3>2 DEF Marked
  <2>9. Marked(f.acct, px) = Marked(a, px) - f.fee
    BY <1>2, <2>1, <2>5, <2>7, <2>8
  <2> QED
    BY <1>5, <2>1, <2>2, <2>7, <2>9 DEF size
<1> QED
  BY <1>7, <1>8

(* A fill of a perpetual account: but for the rounding of an entry price    *)
(* and for a short that is added to, it costs its fee.                      *)
LEMMA PerpCostsFee ==
  ASSUME instrument = "perp", NEW a, Sane(a), NEW q \in Nat \ {0}, NEW px \in Nat \ {0},
         NEW side \in {"buy", "sell"},
         NEW f, f = (IF side = "buy" THEN PerpBuy(a, q, px) ELSE PerpSell(a, q, px)), f.ok
  PROVE  /\ Exact(a, q, px) /\ ~(side = "sell" /\ a.qty < 0) => Marked(f.acct, px) = Marked(a, px) - f.fee
         /\ MarginIsCharged /\ Backed(a) => Backed(f.acct)
<1> DEFINE P == px * Unit
<1>1. a \in Account /\ a.qty \in Int /\ a.avg \in Nat /\ P \in Nat /\ px \in Nat
  BY FillConstants DEF Sane, Account
<1>2. Notional(q, px) = q * P
  BY <1>1, FillConstants DEF Notional
<1>3. q * P \in Nat
  BY <1>1
<1>4. CASE side = "buy" /\ a.qty >= 0
  <2> DEFINE avg == Blend(a, q, px)
  <2>1. f = Opened(a, 1, q, px, avg) /\ avg \in Nat /\ 1 * a.qty >= 0
    BY <1>1, <1>4, Blends DEF PerpBuy
  <2>2. f.fee = Fee(q, px)
    BY <1>1, <2>1, Opens
  <2>3. Exact(a, q, px) => (a.qty + 1 * q) * avg = a.qty * a.avg + 1 * q * P
    <3>1. a.qty * a.avg = a.avg * a.qty /\ 1 * q = q
      BY <1>1
    <3> HIDE DEF P, avg
    <3> QED
      BY <1>2, <1>4, <3>1 DEF Exact, avg
  <2> HIDE DEF avg
  <2> QED
    BY <1>1, <2>1, <2>2, <2>3, OpensAtCost
<1>5. CASE side = "buy" /\ ~(a.qty >= 0)
  <2> DEFINE short == -1
  <2>1. f = Flipped(a, short, q, px) /\ short \in {1, -1} /\ short * a.qty > 0
    BY <1>1, <1>5 DEF PerpBuy
  <2> HIDE DEF short
  <2> QED
    BY <1>1, <2>1, FlipsAtValue
<1>6. CASE side = "sell" /\ a.qty <= 0
  <2> DEFINE short == -1
  <2>1. f = Opened(a, short, q, px, P) /\ short \in {1, -1} /\ short * a.qty >= 0
    BY <1>1, <1>6 DEF PerpSell
  <2>2. a.qty = 0 => (a.qty + short * q) * P = a.qty * a.avg + short * q * P
    <3> SUFFICES ASSUME a.qty = 0 PROVE (a.qty + short * q) * P = a.qty * a.avg + short * q * P
      OBVIOUS
    <3> DEFINE k == short * q
    <3>1. k \in Int /\ 0 * a.avg = 0
      BY <1>1
    <3> HIDE DEF k, P
    <3>2. (0 + k) * P = 0 * a.avg + k * P
      BY <1>1, <3>1
    <3> QED
      BY <3>2 DEF k
  <2> HIDE DEF short
  <2>3. f.fee = Fee(q, px)
    BY <1>1, <2>1, Opens
  <2>4. a.qty < 0 \/ a.qty = 0
    BY <1>1, <1>6
  <2>5. MarginIsCharged => Backed(f.acct)
    BY <1>1, <2>1, OpensAtCost
  <2>6. a.qty = 0 => Marked(f.acct, px) = Marked(a, px) - f.fee
    BY <1>1, <2>1, <2>2, <2>3, OpensAtCost
  <2> QED
    BY <1>6, <2>4, <2>5, <2>6
<1>7. CASE side = "sell" /\ ~(a.qty <= 0)
  <2>1. f = Flipped(a, 1, q, px) /\ 1 * a.qty > 0
    BY <1>1, <1>7 DEF PerpSell
  <2> QED
    BY <1>1, <2>1, FlipsAtValue
<1> QED
  BY <1>4, <1>5, <1>6, <1>7

(* A fill of a spot account costs its fee whatever the entry price; and if  *)
(* that is exact, the books are as well.                                    *)
LEMMA SpotCostsFee ==
  ASSUME instrument = "spot", NEW a, Sane(a), NEW q \in Nat \ {0}, NEW px \in Nat \ {0},
         NEW side \in {"buy", "sell"},
         NEW f, f = (IF side = "buy" THEN SpotBuy(a, q, px) ELSE SpotSell(a, q, px)), f.ok
  PROVE  /\ Equity(f.acct, px) = Equity(a, px) - f.fee
         /\ Exact(a, q, px) => Worth(f.acct) + f.fee = Worth(a)
<1> DEFINE P == px * Unit
           n == Notional(q, px)
<1>1. /\ a \in Account /\ a.cash \in Int /\ a.qty \in Nat /\ a.avg \in Nat /\ a.margin = 0
      /\ a.realized \in Int
  BY DEF Sane, Account
<1>2. P \in Nat /\ n = q * P /\ n \in Nat /\ Fee(q, px) \in Nat
  <2>1. q \in Nat /\ px \in Nat
    OBVIOUS
  <2>2. n = q * P /\ P \in Nat
    BY FillConstants DEF Notional
  <2> QED
    BY <2>1, <2>2, Amounts
<1>3. \A b : /\ Equity(b, px) = b.cash + b.margin + b.qty * P
             /\ Worth(b) = b.cash + b.margin - b.realized + b.qty * b.avg
  BY DEF Equity, Worth, Explained
<1>4. CASE side = "buy"
  <2> DEFINE cost == n + Fee(q, px)
             price == Blend(a, q, px)
             b == [a EXCEPT !.cash = @ - cost, !.avg = price, !.qty = @ + q]
  <2>1. f = IF a.cash < cost THEN Refused(a) ELSE Booked(b, Fee(q, px))
    BY <1>4 DEF SpotBuy
  <2>2. f.acct = b /\ f.fee = Fee(q, px)
    BY <2>1 DEF Refused, Booked
  <2>3. /\ b.cash = a.cash - cost /\ b.margin = 0 /\ b.realized = a.realized
        /\ b.qty = a.qty + q /\ b.avg = price
    BY <1>1 DEF Account
  <2>4. (a.qty + q) * P = a.qty * P + n /\ a.qty * P \in Int
    <3> HIDE DEF P
    <3> QED
      BY <1>1, <1>2
  <2>5. price \in Nat /\ (Exact(a, q, px) => (a.qty + q) * price = a.avg * a.qty + n)
    BY <1>1, Blends DEF Exact
  <2>6. a.avg * a.qty = a.qty * a.avg /\ a.qty * a.avg \in Int
    BY <1>1
  <2> HIDE DEF b, P, n, price
  <2>7. Equity(f.acct, px) = Equity(a, px) - f.fee
    BY <1>1, <1>2, <1>3, <2>2, <2>3, <2>4
  <2>8. ASSUME Exact(a, q, px) PROVE Worth(f.acct) + f.fee = Worth(a)
    <3>1. b.qty * b.avg = a.qty * a.avg + n
      BY <2>3, <2>5, <2>6, <2>8
    <3>2. Worth(b) = b.cash + b.margin - b.realized + (a.qty * a.avg + n)
      BY <1>3, <3>1
    <3>3. Worth(a) = a.cash + a.margin - a.realized + a.qty * a.avg
      BY <1>3
    <3>4. Worth(f.acct) = Worth(b) /\ f.fee = Fee(q, px)
      BY <2>2
    <3> DEFINE w == a.qty * a.avg
    <3>5. w \in Int /\ Worth(b) = b.cash + b.margin - b.realized + (w + n)
          /\ Worth(a) = a.cash + a.margin - a.realized + w
      BY <2>6, <3>2, <3>3
    <3> HIDE DEF w
    <3> QED
      BY <1>1, <1>2, <2>3, <3>4, <3>5
  <2> QED
    BY <2>7, <2>8
<1>5. CASE side = "sell"
  <2> DEFINE left == a.qty - q
             gain == q * (P - a.avg)
             price == IF left = 0 THEN 0 ELSE a.avg
             b == [a EXCEPT !.cash = @ + n - Fee(q, px), !.realized = @ + gain,
                            !.qty = left, !.avg = price]
  <2>1. f = IF left < 0 THEN Refused(a) ELSE Booked(b, Fee(q, px))
    BY <1>5 DEF SpotSell
  <2>2. f.acct = b /\ f.fee = Fee(q, px)
    BY <2>1 DEF Refused, Booked
  <2>3. /\ b.cash = a.cash + n - Fee(q, px) /\ b.margin = 0 /\ b.realized = a.realized + gain
        /\ b.qty = left /\ b.avg = price
    BY <1>1 DEF Account
  <2>4. left * P = a.qty * P - n /\ a.qty * P \in Int
    <3> HIDE DEF P
    <3> QED
      BY <1>1, <1>2
  <2>5. gain = n - q * a.avg /\ q * a.avg \in Int /\ a.qty * a.avg \in Int
    <3> HIDE DEF P
    <3> QED
      BY <1>1, <1>2
  <2>6. left * price = a.qty * a.avg - q * a.avg
    <3>1. left * a.avg = a.qty * a.avg - q * a.avg
      BY <1>1
    <3>2. left = 0 => left * price = left * a.avg
      <4>1. 0 * a.avg = 0
        BY <1>1
      <4> HIDE DEF left
      <4> QED
        BY <4>1
    <3> HIDE DEF left
    <3> QED
      BY <3>1, <3>2
  <2> HIDE DEF b, P, n, price, left, gain
  <2>7. Equity(f.acct, px) = Equity(a, px) - f.fee
    BY <1>1, <1>2, <1>3, <2>2, <2>3, <2>4
  <2>8. Worth(f.acct) + f.fee = Worth(a)
    BY <1>1, <1>2, <1>3, <2>2, <2>3, <2>5, <2>6
  <2> QED
    BY <2>7, <2>8
<1> QED
  BY <1>4, <1>5

-----------------------------------------------------------------------------
(* PaperTrading: every state of an account that only fills change.          *)
TradingInv ==
  /\ instrument \in {"spot", "perp"} /\ Sane(acct)
  /\ fees \in Nat /\ fills \in 0..MaxFills
  /\ instrument = "perp" => Explained(acct) = Start * Unit - fees

LEMMA FlatIsSane ==
  /\ Sane(Flat(Start * Unit))
  /\ Explained(Flat(Start * Unit)) = Start * Unit /\ Worth(Flat(Start * Unit)) = Start * Unit
<1>1. Start * Unit \in Nat
  BY FillConstants, AccountConstants
<1> DEFINE s == Start * Unit
<1> HIDE DEF s
<1>2. /\ Sane(Flat(s)) /\ Explained(Flat(s)) = s /\ Worth(Flat(s)) = s
  BY <1>1 DEF s, Flat, Sane, Account, Explained, Worth
<1> QED
  BY <1>2 DEF s

LEMMA TradingInvInit == TradingInit => TradingInv
<1>1. Start * Unit \in Nat
  BY FillConstants, AccountConstants
<1> QED
  BY <1>1, FlatIsSane, TradingConstants DEF TradingInit, TradingInv

LEMMA TradingInvStep == TradingInv /\ [TradingNext]_tradingVars => TradingInv'
<1> SUFFICES ASSUME TradingInv, [TradingNext]_tradingVars PROVE TradingInv'
  OBVIOUS
<1>1. CASE UNCHANGED tradingVars
  BY <1>1 DEF tradingVars, TradingInv, Sane, Explained
<1>2. ASSUME NEW side \in {"buy", "sell"}, NEW q \in Qty, NEW px \in Price,
             ApplyFill(side, q, px)
      PROVE  TradingInv'
  <2> DEFINE f == Fill(side, q, px)
  <2>1. /\ f.ok /\ acct' = f.acct /\ fees' = fees + f.fee /\ fills' = fills + 1
        /\ fills < MaxFills /\ instrument' = instrument
    BY <1>2 DEF ApplyFill
  <2>2. q \in Nat \ {0} /\ px \in Nat \ {0} /\ MaxFills \in Nat
    BY TradingConstants, AccountConstants
  <2>3. f = Fill(side, q, px)
    OBVIOUS
  <2>4. /\ instrument \in {"spot", "perp"} /\ Sane(acct) /\ fees \in Nat /\ fills \in 0..MaxFills
        /\ instrument = "perp" => Explained(acct) = Start * Unit - fees
    BY DEF TradingInv
  <2> HIDE DEF f
  <2>5. /\ Sane(f.acct) /\ f.fee \in Nat
        /\ instrument = "perp" => Explained(f.acct) + f.fee = Explained(acct)
    BY <2>1, <2>2, <2>3, <2>4, Fills
  <2>6. fees' \in Nat /\ fills' \in 0..MaxFills
    BY <2>1, <2>2, <2>4, <2>5
  <2>7. instrument = "perp" => Explained(f.acct) = Start * Unit - (fees + f.fee)
    <3>1. Explained(f.acct) \in Int /\ Start * Unit \in Nat
      BY <2>5, FillConstants, AccountConstants DEF Explained, Sane, Account
    <3> QED
      BY <2>4, <2>5, <3>1
  <2>8. Sane(acct)'
    BY <2>1, <2>5 DEF Sane
  <2>9. Explained(acct)' = Explained(f.acct)
    BY <2>1 DEF Explained
  <2> QED
    BY <2>1, <2>4, <2>6, <2>7, <2>8, <2>9 DEF TradingInv
<1> QED
  BY <1>1, <1>2 DEF TradingNext

(* The account of PaperTrading keeps its types, and more: a spot account is *)
(* never in debt nor short, and nothing is left of a position that was      *)
(* closed, for every sequence of fills of src/paper_account.py.             *)
THEOREM TradingTypes == TradingSpec => []TradingTypeOK
<1>1. TradingInv => TradingTypeOK
  BY DEF TradingInv, TradingTypeOK, Sane
<1> QED
  BY <1>1, TradingInvInit, TradingInvStep, PTL DEF TradingSpec

(* The books of a perpetual account balance after any sequence of fills:    *)
(* cash and margin are the starting cash, the profit realized and the fees  *)
(* paid, for all parameters of src/paper_account.py.                        *)
THEOREM PerpBooksBalance == TradingSpec => [](instrument = "perp" => BooksBalance)
<1>1. TradingInv => (instrument = "perp" => BooksBalance)
  <2> SUFFICES ASSUME TradingInv, instrument = "perp" PROVE BooksBalance
    OBVIOUS
  <2>1. acct \in Account /\ Explained(acct) = Start * Unit - fees /\ fees \in Nat
    BY DEF TradingInv, Sane
  <2>2. Start * Unit \in Nat
    BY FillConstants, AccountConstants
  <2> QED
    BY <2>1, <2>2 DEF Account, Explained, BooksBalance
<1> QED
  BY <1>1, TradingInvInit, TradingInvStep, PTL DEF TradingSpec

-----------------------------------------------------------------------------
(* Nothing is gained or lost by trading itself.                             *)
BackedInv == TradingInv /\ (instrument = "perp" => Backed(acct))

LEMMA BackedStep ==
  ASSUME MarginIsCharged
  PROVE  /\ TradingInit => BackedInv
         /\ BackedInv /\ [TradingNext]_tradingVars => BackedInv'
<1>1. TradingInit => BackedInv
  BY TradingInvInit DEF TradingInit, BackedInv, Backed, Flat
<1>2. ASSUME BackedInv, [TradingNext]_tradingVars PROVE BackedInv'
  <2>1. TradingInv' /\ TradingInv /\ (instrument = "perp" => Backed(acct))
    BY <1>2, TradingInvStep DEF BackedInv
  <2>2. CASE UNCHANGED tradingVars
    BY <2>1, <2>2 DEF tradingVars, BackedInv, Backed
  <2>3. ASSUME NEW side \in {"buy", "sell"}, NEW q \in Qty, NEW px \in Price,
               ApplyFill(side, q, px)
        PROVE  BackedInv'
    <3> DEFINE f == Fill(side, q, px)
    <3>1. f.ok /\ acct' = f.acct /\ instrument' = instrument /\ Sane(acct)
      BY <2>1, <2>3 DEF ApplyFill, TradingInv
    <3>2. q \in Nat \ {0} /\ px \in Nat \ {0}
      BY TradingConstants, AccountConstants
    <3>3. ASSUME instrument = "perp" PROVE Backed(f.acct)
      <4>1. f = IF side = "buy" THEN PerpBuy(acct, q, px) ELSE PerpSell(acct, q, px)
        BY <3>3 DEF Fill
      <4> HIDE DEF f
      <4> QED
        BY <2>1, <3>1, <3>2, <3>3, <4>1, PerpCostsFee
    <3> HIDE DEF f
    <3> QED
      BY <2>1, <3>1, <3>3 DEF BackedInv, Backed
  <2> QED
    BY <1>2, <2>2, <2>3 DEF TradingNext
<1> QED
  BY <1>1, <1>2

(* A fill of the account in any state costs its fee, up to the rounding of  *)
(* an entry price.                                                          *)
LEMMA CostsFee ==
  ASSUME TradingInv, QuotientsAreExact
  PROVE  FillsCostOnlyFees
<1> SUFFICES ASSUME NEW px \in Price, NEW q \in Qty, NEW side \in {"buy", "sell"},
                    Fill(side, q, px).ok, ~AddsToShort(side)
             PROVE  Equity(Fill(side, q, px).acct, px) = Equity(acct, px) - Fill(side, q, px).fee
  BY DEF FillsCostOnlyFees
<1> DEFINE f == Fill(side, q, px)
<1>1. f.ok /\ Sane(acct) /\ instrument \in {"spot", "perp"} /\ Exact(acct, q, px)
  BY DEF TradingInv, QuotientsAreExact
<1>2. q \in Nat \ {0} /\ px \in Nat \ {0}
  BY TradingConstants, AccountConstants
<1>3. CASE instrument = "spot"
  <2>1. f = IF side = "buy" THEN SpotBuy(acct, q, px) ELSE SpotSell(acct, q, px)
    BY <1>3 DEF Fill
  <2>2. Equity(f.acct, px) = Equity(acct, px) - f.fee
    <3> HIDE DEF f
    <3> QED
      BY <1>1, <1>2, <1>3, <2>1, SpotCostsFee
  <2> QED
    BY <2>2
<1>4. CASE instrument = "perp"
  <2>1. f = IF side = "buy" THEN PerpBuy(acct, q, px) ELSE PerpSell(acct, q, px)
    BY <1>4 DEF Fill
  <2>2. ~(side = "sell" /\ acct.qty < 0)
    BY DEF AddsToShort
  <2>3. Marked(f.acct, px) = Marked(acct, px) - f.fee
    <3> HIDE DEF f
    <3> QED
      BY <1>1, <1>2, <1>4, <2>1, <2>2, PerpCostsFee
  <2>4. \A a : Equity(a, px) = Marked(a, px)
    BY <1>4 DEF Equity, Marked
  <2>5. Equity(f.acct, px) = Equity(acct, px) - f.fee
    BY <2>3, <2>4
  <2> QED
    BY <2>5
<1> QED
  BY <1>1, <1>3, <1>4

(* Whoever closes the whole position gets what it is worth, and all of the  *)
(* margin.                                                                  *)
LEMMA ClosesWhole ==
  ASSUME BackedInv
  PROVE  MarginMatchesPosition
<1> SUFFICES ASSUME instrument = "perp" PROVE MarginMatchesPosition
  BY DEF MarginMatchesPosition
<1>1. Sane(acct) /\ acct \in Account /\ acct.qty \in Int /\ Backed(acct)
  BY DEF BackedInv, TradingInv, Sane, Account
<1>2. (acct.margin = 0) = (acct.qty = 0)
  BY <1>1 DEF Backed
<1>3. ASSUME NEW px \in Price, NEW sign \in {1, -1}, NEW size, size = sign * acct.qty, size > 0,
             NEW side, side = IF sign = 1 THEN "sell" ELSE "buy",
             NEW f, f = Fill(side, size, px)
      PROVE  f.ok /\ f.acct.cash = Equity(acct, px) - f.fee
  <2>1. size \in Nat \ {0} /\ px \in Nat \ {0}
    BY <1>1, <1>3, AccountConstants
  <2>2. f = Flipped(acct, sign, size, px)
    <3>1. CASE sign = 1
      BY <1>1, <1>3, <3>1 DEF Fill, PerpSell
    <3>2. CASE sign = -1
      BY <1>1, <1>3, <3>2 DEF Fill, PerpBuy
    <3> QED
      BY <3>1, <3>2
  <2>3. f.ok /\ f.acct \in Account /\ (f.acct.qty = 0 => f.acct.avg = 0 /\ f.acct.margin = 0)
    BY <1>1, <1>3, <2>1, <2>2, Flips
  <2>4. Marked(f.acct, px) = Marked(acct, px) - f.fee /\ f.acct.qty = 0
    BY <1>1, <1>3, <2>1, <2>2, <2>3, FlipsAtValue
  <2>5. Marked(f.acct, px) = f.acct.cash
    <3>1. f.acct.margin = 0 /\ f.acct.cash \in Int /\ 0 * (px * Unit - f.acct.avg) = 0
      BY <2>1, <2>3, <2>4, FillConstants DEF Account
    <3> QED
      BY <2>4, <3>1 DEF Marked
  <2>6. Marked(acct, px) = Equity(acct, px)
    BY DEF Equity, Marked
  <2> QED
    BY <2>3, <2>4, <2>5, <2>6
<1>4. ASSUME NEW px \in Price
      PROVE  LET size == IF acct.qty < 0 THEN -acct.qty ELSE acct.qty
                 side == IF acct.qty < 0 THEN "buy" ELSE "sell"
             IN  size > 0 =>
                   /\ Fill(side, size, px).ok
                   /\ Fill(side, size, px).acct.cash =
                        Equity(acct, px) - Fill(side, size, px).fee
  <2> DEFINE sign == IF acct.qty < 0 THEN -1 ELSE 1
             size == IF acct.qty < 0 THEN -acct.qty ELSE acct.qty
             side == IF acct.qty < 0 THEN "buy" ELSE "sell"
  <2>1. sign \in {1, -1} /\ size = sign * acct.qty /\ side = IF sign = 1 THEN "sell" ELSE "buy"
    BY <1>1
  <2> HIDE DEF sign, size, side
  <2>2. size > 0 => /\ Fill(side, size, px).ok
                    /\ Fill(side, size, px).acct.cash = Equity(acct, px) - Fill(side, size, px).fee
    BY <1>3, <2>1
  <2> QED
    BY <2>2 DEF size, side
<1> QED
  BY <1>2, <1>4 DEF MarginMatchesPosition

(* The margin locked belongs to the position, and all of it comes back when *)
(* that is closed, after any sequence of openings, closings in parts and    *)
(* flips by apply_perp_fill, rounded or not.                                *)
THEOREM MarginComesBack ==
  ASSUME MarginIsCharged
  PROVE  TradingSpec => []MarginMatchesPosition
<1>1. TradingInit => BackedInv
  BY BackedStep
<1>2. BackedInv /\ [TradingNext]_tradingVars => BackedInv'
  BY BackedStep
<1>3. BackedInv => MarginMatchesPosition
  BY ClosesWhole
<1> QED
  BY <1>1, <1>2, <1>3, PTL DEF TradingSpec

(* From every state of a spot or perpetual account, a fill leaves its       *)
(* equity less the fee, wherever the entry price needs no rounding: no      *)
(* order of fills of src/paper_account.py makes or loses money.             *)
THEOREM EquityHolds ==
  ASSUME MarginIsCharged
  PROVE  TradingSpec => [](QuotientsAreExact => EquityIsKept)
<1>1. TradingSpec => []TradingInv
  BY TradingInvInit, TradingInvStep, PTL DEF TradingSpec
<1>2. TradingInv => (QuotientsAreExact => FillsCostOnlyFees)
  BY CostsFee
<1>3. TradingSpec => []MarginMatchesPosition
  BY MarginComesBack
<1> QED
  BY <1>1, <1>2, <1>3, PTL DEF EquityIsKept

(* With no rounding only fees take of what the account is worth at cost.    *)
WorthInv == TradingInv /\ Worth(acct) = Start * Unit - fees

(* While no entry price is rounded the books of spot and perpetual accounts *)
(* balance: cash, margin and cost of the position are the starting cash and *)
(* the profit realized, less the fees paid.                                 *)
THEOREM BooksHold == TradingSpec /\ []QuotientsAreExact => []BooksBalance
<1>1. TradingInit => WorthInv
  <2>1. Start * Unit \in Nat
    BY FillConstants, AccountConstants
  <2> QED
    BY <2>1, TradingInvInit, FlatIsSane DEF TradingInit, WorthInv
<1>2. WorthInv /\ QuotientsAreExact /\ [TradingNext]_tradingVars => WorthInv'
  <2> SUFFICES ASSUME WorthInv, QuotientsAreExact, [TradingNext]_tradingVars PROVE WorthInv'
    OBVIOUS
  <2>1. TradingInv' /\ TradingInv /\ Worth(acct) = Start * Unit - fees
    BY TradingInvStep DEF WorthInv
  <2>2. CASE UNCHANGED tradingVars
    BY <2>1, <2>2 DEF tradingVars, WorthInv, Worth, Explained
  <2>3. ASSUME NEW side \in {"buy", "sell"}, NEW q \in Qty, NEW px \in Price,
               ApplyFill(side, q, px)
        PROVE  WorthInv'
    <3> DEFINE f == Fill(side, q, px)
    <3>1. /\ f.ok /\ acct' = f.acct /\ fees' = fees + f.fee /\ instrument' = instrument
          /\ Sane(acct) /\ instrument \in {"spot", "perp"} /\ fees \in Nat
      BY <2>1, <2>3 DEF ApplyFill, TradingInv
    <3>2. q \in Nat \ {0} /\ px \in Nat \ {0} /\ Exact(acct, q, px)
      BY TradingConstants, AccountConstants DEF QuotientsAreExact
    <3>3. f = Fill(side, q, px)
      OBVIOUS
    <3>4. /\ f.fee \in Nat /\ Sane(f.acct)
          /\ instrument = "perp" => Explained(f.acct) + f.fee = Explained(acct)
      <4> HIDE DEF f
      <4> QED
        BY <3>1, <3>2, <3>3, Fills
    <3>5. \A a : Sane(a) => Worth(a) \in Int /\ (instrument = "perp" => Worth(a) = Explained(a))
      <4> SUFFICES ASSUME NEW a, Sane(a)
                   PROVE  Worth(a) \in Int /\ (instrument = "perp" => Worth(a) = Explained(a))
        OBVIOUS
      <4>1. Explained(a) \in Int /\ a.qty * a.avg \in Int
        BY DEF Sane, Account, Explained
      <4> QED
        BY <4>1 DEF Worth
    <3>6. Worth(f.acct) + f.fee = Worth(acct)
      <4>1. CASE instrument = "spot"
        <5>1. f = IF side = "buy" THEN SpotBuy(acct, q, px) ELSE SpotSell(acct, q, px)
          BY <4>1 DEF Fill
        <5> HIDE DEF f
        <5> QED
          BY <3>1, <3>2, <4>1, <5>1, SpotCostsFee
      <4>2. CASE instrument = "perp"
        <5> HIDE DEF f
        <5> QED
          BY <3>1, <3>4, <3>5, <4>2
      <4> QED
        BY <3>1, <4>1, <4>2
    <3>7. Start * Unit \in Int
      BY FillConstants, AccountConstants
    <3>8. Worth(acct)' = Worth(f.acct)
      BY <3>1 DEF Worth, Explained
    <3> HIDE DEF f
    <3>9. Worth(f.acct) = Start * Unit - (fees + f.fee)
      BY <2>1, <3>1, <3>4, <3>5, <3>6, <3>7
    <3> QED
      BY <2>1, <3>1, <3>8, <3>9 DEF WorthInv
  <2> QED
    BY <2>2, <2>3 DEF TradingNext
<1>3. WorthInv => BooksBalance
  <2> SUFFICES ASSUME WorthInv PROVE BooksBalance
    OBVIOUS
  <2>1. /\ acct \in Account /\ Worth(acct) = Start * Unit - fees /\ fees \in Nat
    BY DEF WorthInv, TradingInv, Sane
  <2> DEFINE held == IF instrument = "spot" THEN acct.qty * acct.avg ELSE 0
             s == Start * Unit
             free == acct.cash + acct.margin
             gain == acct.realized
  <2>2. s \in Int /\ held \in Int /\ free \in Int /\ gain \in Int /\ fees \in Int
    BY <2>1, FillConstants, AccountConstants DEF Account
  <2>3. free - gain + held = s - fees
    <3>1. Explained(acct) = free - gain
      BY <2>1 DEF Explained, Account
    <3>2. Worth(acct) = Explained(acct) + held
      BY DEF Worth
    <3> HIDE DEF held, free, gain
    <3> QED
      BY <2>1, <3>1, <3>2
  <2>4. BooksBalance <=> free + held = s + gain - fees
    BY DEF BooksBalance
  <2> HIDE DEF held, s, free, gain
  <2>5. free + held = s + gain - fees
    BY <2>2, <2>3
  <2> QED
    BY <2>4, <2>5
<1> QED
  BY <1>1, <1>2, <1>3, PTL DEF TradingSpec

-----------------------------------------------------------------------------
(* The arbitrator's arithmetic: composites and confidences are in range.    *)
Parts == {x \in Nat : x <= 10000}
AnyOverlay == {NoAnswer} \cup [action : {"BUY", "SELL", "HOLD"}, conf : Conf]
Ballot == [score : 0..100, ok : BOOLEAN, weight : Nat]

LEMMA PartsAre ==
  /\ \A x \in Parts : x \in 0..10000
  /\ \A x \in Conf : x \in Parts
<1>1. \A x \in Parts : x \in 0..10000
  BY DEF Parts
<1>2. ASSUME NEW x \in Conf
      PROVE  x \in Parts
  <2>1. x \in 0..9500
    BY ConfConstants
  <2> QED
    BY <2>1 DEF Parts
<1> QED
  BY <1>1, <1>2

LEMMA LargerOf ==
  ASSUME NEW x \in Int, NEW y \in Int
  PROVE  /\ Max({x, y}) = (IF x >= y THEN x ELSE y)
         /\ Min({x, y}) = (IF x <= y THEN x ELSE y)
<1>1. Max({x, y}) = CHOOSE z \in {x, y} : \A w \in {x, y} : z >= w
  BY DEF Max
<1>2. Min({x, y}) = CHOOSE z \in {x, y} : \A w \in {x, y} : z =< w
  BY DEF Min
<1> QED
  BY <1>1, <1>2

LEMMA CompositeInRange ==
  ASSUME NEW c, IsFiniteSet(DOMAIN c), \A a \in DOMAIN c : c[a] \in Ballot
  PROVE  Composite(c) \in Parts
<1> DEFINE S == Enabled(c)
           w == [a \in DOMAIN c |-> c[a].weight]
           s == [a \in DOMAIN c |-> 100 * c[a].weight * c[a].score]
           total == SumFunctionOnSet(w, S)
           sum == SumFunctionOnSet(s, S)
<1>1. IsFiniteSet(S) /\ S \subseteq DOMAIN c
  BY FS_Subset DEF Enabled
<1>2. \A a \in S : /\ w[a] \in Int /\ w[a] >= 0 /\ s[a] \in Int /\ s[a] >= 0
                   /\ s[a] <= 10000 * w[a]
  <2> SUFFICES ASSUME NEW a \in S
               PROVE  /\ w[a] \in Int /\ w[a] >= 0 /\ s[a] \in Int /\ s[a] >= 0
                      /\ s[a] <= 10000 * w[a]
    OBVIOUS
  <2> DEFINE m == c[a].weight
             x == c[a].score
  <2>1. m \in Nat /\ x \in 0..100 /\ w[a] = m /\ s[a] = 100 * m * x
    BY <1>1 DEF Ballot
  <2> HIDE DEF m, x, w, s
  <2>2. m * x \in Nat /\ m * x <= m * 100
    BY <2>1
  <2>3. 100 * m * x = 100 * (m * x)
    BY <2>1
  <2> QED
    BY <2>1, <2>2, <2>3
<1> HIDE DEF S, w, s
<1>3. total \in Int /\ total >= 0 /\ sum \in Int /\ sum >= 0
  BY <1>1, <1>2, SumType
<1>4. sum <= 10000 * total
  BY <1>1, <1>2, SumBound
<1>5. Composite(c) = IF total = 0 THEN 5000 ELSE sum \div total
  BY DEF Composite, S, w, s
<1> HIDE DEF total, sum
<1>6. CASE total = 0
  BY <1>5, <1>6 DEF Parts
<1>7. CASE total # 0
  <2> DEFINE e == sum \div total
  <2>1. total \in Nat \ {0} /\ sum <= total * 10000
    BY <1>3, <1>4, <1>7
  <2>2. e \in Int /\ e >= 0
    BY <1>3, <2>1, DivBounds
  <2>3. e <= 10000
    BY <1>3, <2>1, DivAtMost
  <2>4. Composite(c) = e
    BY <1>5, <1>7
  <2> HIDE DEF e
  <2> QED
    BY <2>2, <2>3, <2>4 DEF Parts
<1> QED
  BY <1>6, <1>7

LEMMA ConfidenceInRange ==
  ASSUME NEW c, IsFiniteSet(DOMAIN c), \A a \in DOMAIN c : c[a] \in Ballot
  PROVE  Confidence(c) \in Parts
<1> DEFINE n == Cardinality(Enabled(c))
           up == Cardinality(Bullish(c))
           down == Cardinality(Bearish(c))
           side == Max({up, down})
           comp == Composite(c)
           far == Distance(comp)
<1>1. IsFiniteSet(Enabled(c)) /\ n \in Nat
  BY FS_Subset, FS_CardinalityType DEF Enabled
<1>2. up \in Nat /\ up <= n /\ down \in Nat /\ down <= n
  BY <1>1, FS_Subset, FS_CardinalityType DEF Bullish, Bearish
<1>3. far \in Parts
  <2>1. comp \in Parts
    BY CompositeInRange
  <2> HIDE DEF comp
  <2> QED
    BY <2>1 DEF Distance, Parts
<1>4. Confidence(c) = IF n = 0 THEN 0 ELSE (far * (n + side)) \div (2 * n)
  BY DEF Confidence
<1> HIDE DEF n, up, down, far
<1>5. side \in Nat /\ side <= n
  BY <1>1, <1>2, LargerOf
<1> HIDE DEF side
<1>6. CASE n = 0
  BY <1>4, <1>6 DEF Parts
<1>7. CASE n # 0
  <2> DEFINE num == far * (n + side)
             den == 2 * n
             e == num \div den
  <2>1. den \in Nat \ {0} /\ n + side \in Nat /\ n + side <= den
    BY <1>1, <1>5, <1>7
  <2>2. num \in Nat /\ num <= 10000 * (n + side)
    <3> DEFINE k == n + side
    <3>1. k \in Nat
      BY <2>1
    <3> HIDE DEF k
    <3>2. far * k \in Nat /\ far * k <= 10000 * k
      BY <1>3, <3>1 DEF Parts
    <3> QED
      BY <3>2 DEF k
  <2>3. num <= den * 10000
    BY <2>1, <2>2
  <2> HIDE DEF num, den
  <2>4. e \in Int /\ e >= 0
    BY <2>1, <2>2, DivBounds
  <2>5. e <= 10000
    BY <2>1, <2>2, <2>3, DivAtMost
  <2>6. Confidence(c) = e
    BY <1>4, <1>7 DEF num, den
  <2> HIDE DEF e
  <2> QED
    BY <2>4, <2>5, <2>6 DEF Parts
<1> QED
  BY <1>6, <1>7

LEMMA DecisionInRange ==
  ASSUME NEW c, IsFiniteSet(DOMAIN c), \A a \in DOMAIN c : c[a] \in Ballot, NEW shock,
         NEW e, e = Decision(c, shock)
  PROVE  e.action \in {"BUY", "SELL", "HOLD"} /\ e.conf \in Parts
<1>1. Confidence(c) \in Parts
  BY ConfidenceInRange
<1>2. ASSUME TaDesk \in Enabled(c)
      PROVE  TaConfidence(c) \in Parts
  <2> DEFINE comp == 100 * c[TaDesk].score
             far == Distance(comp)
             most == 10000
             more == 5000 + far
             less == Min({most, more})
             conf == Confidence(c)
  <2>1. comp \in Parts
    BY <1>2 DEF Enabled, Ballot, Parts
  <2> HIDE DEF comp
  <2>2. far \in Parts
    BY <2>1 DEF Distance, Parts
  <2>3. TaConfidence(c) = Max({conf, less})
    BY DEF TaConfidence, comp
  <2> HIDE DEF far
  <2>4. most \in Int /\ more \in Int /\ more >= 0 /\ most = 10000
    BY <2>2 DEF Parts
  <2> HIDE DEF most, more
  <2>5. less = (IF most <= more THEN most ELSE more)
    BY <2>4, LargerOf
  <2> HIDE DEF less, conf
  <2>6. less \in Int /\ less >= 0 /\ less <= 10000
    BY <2>4, <2>5
  <2>7. conf \in Int /\ conf >= 0 /\ conf <= 10000
    <3>1. conf \in Parts
      BY <1>1 DEF conf
    <3> QED
      BY <3>1 DEF Parts
  <2>8. Max({conf, less}) = (IF conf >= less THEN conf ELSE less)
    BY <2>6, <2>7, LargerOf
  <2>9. TaConfidence(c) = (IF conf >= less THEN conf ELSE less)
    BY <2>3, <2>8
  <2> QED
    BY <2>6, <2>7, <2>9 DEF Parts
<1>3. AlignedGate(c) \in {"BUY", "SELL", "HOLD"}
  BY DEF AlignedGate, GlobalGate
<1>4. e = IF TaLeads(c, shock, "BUY") THEN [action |-> "BUY", conf |-> TaConfidence(c), gated |-> FALSE]
          ELSE IF TaLeads(c, shock, "SELL") THEN [action |-> "SELL", conf |-> TaConfidence(c), gated |-> FALSE]
          ELSE [action |-> AlignedGate(c), conf |-> Confidence(c), gated |-> Blocked(c)]
  BY DEF Decision
<1>a. CASE TaLeads(c, shock, "BUY") \/ TaLeads(c, shock, "SELL")
  <2>1. e.conf = TaConfidence(c) /\ e.action \in {"BUY", "SELL"}
    BY <1>4, <1>a
  <2>2. TaDesk \in Enabled(c)
    BY <1>a DEF TaLeads
  <2> QED
    BY <1>2, <2>1, <2>2
<1>b. CASE ~(TaLeads(c, shock, "BUY") \/ TaLeads(c, shock, "SELL"))
  <2> DEFINE g == Blocked(c)
  <2>1. e = [action |-> AlignedGate(c), conf |-> Confidence(c), gated |-> g]
    BY <1>4, <1>b
  <2> HIDE DEF g
  <2> QED
    BY <1>1, <1>3, <2>1
<1> QED
  BY <1>a, <1>b

(* The LLM arbitrator's say in it.                                          *)
LEMMA OverlayInRange ==
  ASSUME NEW e, DOMAIN e = {"action", "conf", "gated"},
         e.action \in {"BUY", "SELL", "HOLD"}, e.conf \in Parts,
         NEW overlay \in AnyOverlay,
         NEW d, d = Overlay(e, overlay)
  PROVE  d.action \in {"BUY", "SELL", "HOLD"} /\ d.conf \in Parts
<1>1. CASE overlay = NoAnswer
  BY <1>1 DEF Overlay
<1>2. CASE overlay # NoAnswer
  <2>1. overlay.action \in {"BUY", "SELL", "HOLD"} /\ overlay.conf \in Conf
    BY <1>2 DEF AnyOverlay
  <2>2. overlay.conf \in Parts
    BY <2>1, PartsAre
  <2>3. d.action \in {"HOLD", overlay.action} /\ d.conf = overlay.conf
    BY <1>2 DEF Overlay
  <2> QED
    BY <2>1, <2>2, <2>3
<1> QED
  BY <1>1, <1>2

-----------------------------------------------------------------------------
(* TradingPass: what every reachable state satisfies.  First the deployment *)
(* and the contracts.                                                       *)
AnyContract == [score : 0..100, ok : BOOLEAN, shock : BOOLEAN]

DeploymentInv ==
  /\ instrument \in {"spot", "perp"}
  /\ deploy \in Deployment \cup {Unreadable} /\ writing \in BOOLEAN
  /\ writing => deploy = Unreadable

ContractsInv ==
  /\ \A a \in Agent : desk[a] \in Contract(a) \cup {Absent(a)}
  /\ answers \in [Agent -> {Waiting} \cup UNION {Answer(a) : a \in Agent}]
  /\ \A a \in Agent : answers[a] = Waiting \/ answers[a] \in Answer(a)

Stages == {"idle", "desks", "ask", "infer", "guard", "execute", "orders", "audit"}
PassRecord ==
  [px : Nat \ {0}, nodes : SUBSET Agent, asked : SUBSET Agent, clean : BOOLEAN, vetoed : BOOLEAN,
   llm : BOOLEAN, overlay : AnyOverlay, action : {"BUY", "SELL", "HOLD"}, conf : Parts,
   cap : Nat, now : Account]

PassTyped ==
  /\ stage \in Stages /\ pass \in PassRecord /\ Sane(pass.now) /\ Sane(acct)
  /\ stage # "idle" => pass.px \in Price

Order == [side : {"buy", "sell"}, qty : Nat \ {0}]
SentOrder ==
  [side : {"buy", "sell"}, qty : Nat \ {0}, synth : BOOLEAN, booked : BOOLEAN, current : BOOLEAN,
   acct : Account \cup {<<>>}]

OrdersTyped ==
  /\ plan \in Seq(Order) /\ sent \in Seq(SentOrder)
  /\ stage # "orders" => plan = <<>>
  /\ stage \notin {"orders", "audit"} => sent = <<>>
  /\ Len(plan) + Len(sent) <= MaxOrders + 1

LEMMA Parameters ==
  /\ LlmQty \subseteq Nat \ {0} /\ Probe \in Nat \ {0}
  /\ IntentDiv \in Nat \ {0} /\ OrderDiv \in Nat \ {0} /\ MinNotional \in Nat
  /\ MaxOrders \in Nat
BY PassConstants

LEMMA DeploymentTyped ==
  ASSUME deploy \in Deployment \cup {Unreadable}
  PROVE  /\ deploy.enabled \in SUBSET Agent /\ deploy.llm \in SUBSET Agent
         /\ deploy.weight \in [Agent -> Nat]
         /\ deploy.synthesis \in BOOLEAN /\ deploy.overlay \in BOOLEAN
<1>1. CASE deploy \in Deployment
  BY <1>1, DeployConstants
<1>2. CASE deploy = Unreadable
  BY <1>2 DEF Unreadable
<1> QED
  BY <1>1, <1>2

(* Who votes, and with what.                                                *)
LEMMA WeightsTyped ==
  ASSUME deploy \in Deployment \cup {Unreadable}
  PROVE  /\ DOMAIN Weights(deploy) \in SUBSET Agent /\ IsFiniteSet(DOMAIN Weights(deploy))
         /\ \A a \in DOMAIN Weights(deploy) : Weights(deploy)[a] \in Nat
         /\ Weighted => DOMAIN Weights(deploy) \subseteq Nodes(deploy)
         /\ LlmDesks(deploy) \subseteq Nodes(deploy) /\ LlmDesks(deploy) \in SUBSET Agent
         /\ Nodes(deploy) \in SUBSET Agent
<1> DEFINE W == DeployedWeights(deploy)
           D == Positive(DefaultWeight)
<1>1. deploy.enabled \in SUBSET Agent /\ deploy.weight \in [Agent -> Nat]
  BY DeploymentTyped
<1>2. /\ DOMAIN W = {a \in deploy.enabled : deploy.weight[a] > 0}
      /\ \A a \in DOMAIN W : W[a] = deploy.weight[a]
  BY <1>1 DEF DeployedWeights, Positive
<1>3. /\ DOMAIN D \in SUBSET Agent
      /\ \A a \in DOMAIN D : D[a] \in Nat
  BY DeployConstants DEF Positive
<1>4. Weights(deploy) = IF DOMAIN W = {} THEN D ELSE W
  BY DEF Weights
<1> HIDE DEF W, D
<1>5. DOMAIN Weights(deploy) \in SUBSET Agent
  BY <1>1, <1>2, <1>3, <1>4
<1>6. IsFiniteSet(DOMAIN Weights(deploy))
  BY <1>5, FS_Subset, DeployConstants
<1>7. \A a \in DOMAIN Weights(deploy) : Weights(deploy)[a] \in Nat
  BY <1>1, <1>2, <1>3, <1>4
<1>8. Weighted => DOMAIN Weights(deploy) \subseteq Nodes(deploy)
  <2>1. CASE deploy.enabled = {}
    BY <1>5, <2>1 DEF Nodes
  <2>2. CASE deploy.enabled # {}
    <3>1. Weighted => DOMAIN W # {}
      BY <1>2, <2>2 DEF Weighted
    <3>2. DOMAIN W \subseteq deploy.enabled
      BY <1>2
    <3> QED
      BY <1>4, <2>2, <3>1, <3>2 DEF Nodes
  <2> QED
    BY <2>1, <2>2
<1>9. LlmDesks(deploy) \subseteq Nodes(deploy) /\ Nodes(deploy) \in SUBSET Agent
  BY <1>1 DEF LlmDesks, Nodes
<1> QED
  BY <1>5, <1>6, <1>7, <1>8, <1>9

LEMMA ContractsTyped ==
  ASSUME NEW a \in Agent, NEW k \in Contract(a) \cup {Absent(a)}
  PROVE  k \in AnyContract
<1>1. CASE k \in Sound(a)
  <2> DEFINE shocks == IF a = NewsDesk THEN BOOLEAN ELSE {FALSE}
  <2>1. k \in [score : Score, ok : {TRUE}, shock : shocks]
    BY <1>1 DEF Sound
  <2>2. Score \subseteq 0..100
    BY ScoreConstants
  <2>3. CASE a = NewsDesk
    BY <2>1, <2>2, <2>3 DEF AnyContract
  <2>4. CASE a # NewsDesk
    BY <2>1, <2>2, <2>4 DEF AnyContract
  <2> QED
    BY <2>3, <2>4
<1>2. CASE k = Neutral(FALSE)
  BY <1>2 DEF Neutral, AnyContract
<1>3. CASE k = Absent(a)
  <2>1. AbsentScore[a] \in 0..100
    BY ScoreConstants
  <2> QED
    BY <1>3, <2>1 DEF Absent, AnyContract
<1> QED
  BY <1>1, <1>2, <1>3 DEF Contract

LEMMA AnswersTyped ==
  ASSUME NEW a \in Agent, NEW s \in Answer(a)
  PROVE  /\ s # Waiting
         /\ s.source = "error" => s \notin [source : {"agent_llm"}, contract : Sound(a)]
         /\ s.source # "error" => /\ s \in [source : {"agent_llm"}, contract : Sound(a)]
                                  /\ s.contract \in Contract(a)
<1>1. CASE s \in [source : {"agent_llm"}, contract : Sound(a)]
  <2>1. s.source = "agent_llm" /\ s.contract \in Sound(a) /\ DOMAIN s # {}
    BY <1>1
  <2>2. s # Waiting
    BY <2>1 DEF Waiting
  <2> QED
    BY <1>1, <2>1, <2>2 DEF Contract
<1>2. CASE s = [source |-> "error", contract |-> Neutral(TRUE)]
  <2>1. s.source = "error" /\ DOMAIN s # {}
    BY <1>2
  <2>2. s # Waiting
    BY <2>1 DEF Waiting
  <2> QED
    BY <2>1, <2>2
<1> QED
  BY <1>1, <1>2 DEF Answer

(* What the arbitrator reads is what was said.                              *)
LEMMA HeardIsMerged ==
  ASSUME ContractsInv
  PROVE  Heard = Merged /\ \A a \in Agent : Merged[a] \in AnyContract
<1>1. ASSUME NEW a \in Agent
      PROVE  /\ Heard[a] = Merged[a]
             /\ Merged[a] \in AnyContract
  <2>1. CASE answers[a] = Waiting
    <3>1. answers[a] \notin [source : {"agent_llm"}, contract : Sound(a)]
      <4>1. \A s \in [source : {"agent_llm"}, contract : Sound(a)] : s # Waiting
        BY AnswersTyped DEF Answer
      <4> QED
        BY <2>1, <4>1
    <3>2. desk[a] \in AnyContract
      BY ContractsTyped DEF ContractsInv
    <3> QED
      BY <2>1, <3>1, <3>2 DEF Heard, Merged
  <2>2. CASE answers[a] # Waiting
    <3>1. answers[a] \in Answer(a)
      BY <2>2 DEF ContractsInv
    <3>2. desk[a] \in AnyContract
      BY ContractsTyped DEF ContractsInv
    <3>3. CASE answers[a].source = "error"
      BY <2>2, <3>1, <3>2, <3>3, AnswersTyped DEF Heard, Merged
    <3>4. CASE answers[a].source # "error"
      <4>1. answers[a].contract \in AnyContract
        BY <3>1, <3>4, AnswersTyped, ContractsTyped
      <4> QED
        BY <2>2, <3>1, <3>4, <4>1, AnswersTyped DEF Heard, Merged
    <3> QED
      BY <3>3, <3>4
  <2> QED
    BY <2>1, <2>2
<1>2. Heard = Merged
  BY <1>1 DEF Heard, Merged
<1> QED
  BY <1>1, <1>2

LEMMA DeploymentInvStep == DeploymentInv /\ [Next]_vars => DeploymentInv'
<1> SUFFICES ASSUME DeploymentInv, [Next]_vars PROVE DeploymentInv'
  OBVIOUS
<1> USE DEF DeploymentInv
<1>1. CASE DeployBegin
  BY <1>1 DEF DeployBegin
<1>2. ASSUME NEW file \in Deployment, DeployEnd(file)
      PROVE  DeploymentInv'
  BY <1>2 DEF DeployEnd
<1>3. CASE UNCHANGED config
  BY <1>3 DEF config
<1> QED
  BY <1>1, <1>2, <1>3 DEF Next, vars, Begin, Infer, RiskGuard, Desks, Ask, Arbitrate, Raise,
     Execute, PlaceNext, Synthesize, Audit, Reset

LEMMA UnreadTyped == Unread \in [Agent -> AnyContract] /\ \A a \in Agent : Unread[a] \in Contract(a)
BY DEF Unread, Neutral, Contract, AnyContract

LEMMA ContractsInvStep == ContractsInv /\ [Next]_vars => ContractsInv'
<1> SUFFICES ASSUME ContractsInv, [Next]_vars PROVE ContractsInv'
  OBVIOUS
<1>1. CASE UNCHANGED <<desk, answers>>
  BY <1>1 DEF ContractsInv
<1>2. CASE desk' = Unread /\ answers' = Unasked
  BY <1>2, UnreadTyped DEF ContractsInv, Unasked
<1>3. CASE Desks
  <2>1. \A a \in Agent : desk'[a] \in Contract(a) \cup {Absent(a)}
    BY <1>3 DEF Desks
  <2>2. answers' = answers
    BY <1>3 DEF Desks
  <2> QED
    BY <2>1, <2>2 DEF ContractsInv
<1>4. ASSUME NEW a \in Agent, NEW answer \in Answer(a), Infer(a, answer)
      PROVE  ContractsInv'
  <2>1. answers' = [answers EXCEPT ![a] = answer] /\ desk' = desk
    BY <1>4 DEF Infer
  <2> QED
    BY <2>1 DEF ContractsInv
<1> QED
  BY <1>1, <1>2, <1>3, <1>4 DEF Next, vars, Begin, RiskGuard, Ask, Arbitrate, Raise, DeployBegin,
     DeployEnd, Execute, PlaceNext, Synthesize, Audit, Reset, Over

LEMMA BallotsTyped ==
  ASSUME DeploymentInv, ContractsInv,
         NEW c, c = Ballots(Merged, Weights(deploy))
  PROVE  /\ DOMAIN c = DOMAIN Weights(deploy) /\ IsFiniteSet(DOMAIN c)
         /\ \A a \in DOMAIN c : /\ c[a] \in Ballot
                                /\ c[a].score = Merged[a].score /\ c[a].ok = Merged[a].ok
<1>1. /\ DOMAIN Weights(deploy) \in SUBSET Agent /\ IsFiniteSet(DOMAIN Weights(deploy))
      /\ \A a \in DOMAIN Weights(deploy) : Weights(deploy)[a] \in Nat
  BY WeightsTyped DEF DeploymentInv
<1>2. \A a \in DOMAIN Weights(deploy) : Merged[a] \in AnyContract
  BY <1>1, HeardIsMerged
<1> DEFINE W == Weights(deploy)
           m == Merged
<1>3. c = [a \in DOMAIN W |-> [score |-> m[a].score, ok |-> m[a].ok, weight |-> W[a]]]
  BY DEF Ballots
<1> HIDE DEF W, m
<1>4. \A a \in DOMAIN W : W[a] \in Nat /\ m[a] \in AnyContract
  BY <1>1, <1>2 DEF W, m
<1>5. \A a \in DOMAIN W : /\ [score |-> m[a].score, ok |-> m[a].ok, weight |-> W[a]] \in Ballot
                          /\ c[a].score = m[a].score /\ c[a].ok = m[a].ok
  BY <1>3, <1>4 DEF AnyContract, Ballot
<1>6. \A a \in DOMAIN c : c[a] \in Ballot /\ c[a].score = m[a].score /\ c[a].ok = m[a].ok
  BY <1>3, <1>5
<1> QED
  BY <1>1, <1>3, <1>6 DEF W, m

(* The decision of a pass.                                                  *)
LEMMA DecisionTyped ==
  ASSUME DeploymentInv, ContractsInv, NEW overlay \in Overlays,
         NEW e, e = Decision(Ballots(Merged, Weights(deploy)), Shock(Merged)),
         NEW d, d = Overlay(e, overlay)
  PROVE  /\ d.action \in {"BUY", "SELL", "HOLD"} /\ d.conf \in Parts
         /\ IntentAction(d, MinConf) \in {"BUY", "SELL", "HOLD"} /\ overlay \in AnyOverlay
<1> DEFINE c == Ballots(Merged, Weights(deploy))
           shock == Shock(Merged)
<1>1. c = Ballots(Merged, Weights(deploy)) /\ e = Decision(c, shock)
  OBVIOUS
<1> HIDE DEF c, shock
<1>2. IsFiniteSet(DOMAIN c) /\ \A a \in DOMAIN c : c[a] \in Ballot
  BY <1>1, BallotsTyped
<1>3. e.action \in {"BUY", "SELL", "HOLD"} /\ e.conf \in Parts
  BY <1>1, <1>2, DecisionInRange
<1>4. DOMAIN e = {"action", "conf", "gated"}
  BY <1>1 DEF Decision
<1>5. overlay \in AnyOverlay
  BY DEF Overlays, AnyOverlay
<1>6. d.action \in {"BUY", "SELL", "HOLD"} /\ d.conf \in Parts
  BY <1>3, <1>4, <1>5, OverlayInRange
<1>7. IntentAction(d, MinConf) = d.action \/ IntentAction(d, MinConf) = "HOLD"
  BY DEF IntentAction
<1>8. IntentAction(d, MinConf) \in {"BUY", "SELL", "HOLD"}
  BY <1>6, <1>7
<1> QED
  BY <1>5, <1>6, <1>8

-----------------------------------------------------------------------------
(* How large the orders of a pass are.  No cap is so large a part of the    *)
(* cash that the fee of an order is not covered by the rest: without that   *)
(* the code sends orders that it cannot pay.                                *)
CapsLeaveFees == FeeDiv = 0 \/ FeeDiv + Leverage <= OrderDiv * FeeDiv

(* One lot is worth no more than the smallest order: quantities are whole   *)
(* lots here and floats in the code.                                        *)
LotsAreSmall == \A px \in Price : px <= MinNotional

LEMMA LargerNotional ==
  ASSUME NEW q \in Nat, NEW n \in Nat, q <= n, NEW px \in Nat
  PROVE  Notional(q, px) <= Notional(n, px)
<1> DEFINE p == px * Unit
<1>1. p \in Nat
  BY FillConstants
<1>2. Notional(q, px) = q * p /\ Notional(n, px) = n * p
  BY FillConstants DEF Notional
<1> HIDE DEF p
<1>3. q * p <= n * p
  BY <1>1
<1> QED
  BY <1>2, <1>3

LEMMA LotsFit ==
  ASSUME NEW m \in Nat, NEW px \in Nat \ {0},
         NEW q, q = Lots(m, px)
  PROVE  q \in Nat /\ Notional(q, px) <= m /\ (q = 0 => m < px * Unit)
<1> DEFINE p == px * Unit
           e == m \div p
<1>1. p \in Nat \ {0}
  BY FillConstants
<1>2. q = e
  BY DEF Lots
<1>3. \A k \in Nat : Notional(k, px) = p * k
  BY FillConstants DEF Notional
<1> HIDE DEF p
<1>4. e \in Int /\ p * e <= m /\ m < p * e + p /\ e >= 0
  BY <1>1, DivBounds
<1> HIDE DEF e
<1>5. q = 0 => m < p
  <2> SUFFICES ASSUME e = 0 PROVE m < p
    BY <1>2
  <2>1. p * e = 0
    BY <1>1
  <2> QED
    BY <1>1, <1>4, <2>1
<1> QED
  BY <1>2, <1>3, <1>4, <1>5 DEF p

(* The cap, and the part of the cash it is taken of.                        *)
LEMMA CapIsPart ==
  ASSUME instrument \in {"spot", "perp"}, pass.now.cash \in Int, pass.cap \in Nat
  PROVE  /\ Cap \in Nat
         /\ \E k \in Nat : k * OrderDiv <= Least0(pass.now.cash) /\ Cap <= k * Lev
<1> DEFINE cash == pass.now.cash
           part == cash \div OrderDiv
           most == part * Lev
<1>1. Lev \in Nat \ {0} /\ OrderDiv \in Nat \ {0}
  BY FillConstants, Parameters DEF Lev
<1>2. part \in Int /\ OrderDiv * part <= cash /\ cash < OrderDiv * part + OrderDiv
      /\ (cash >= 0 => part >= 0) /\ cash \in Int
  BY <1>1, DivBounds
<1>3. Cap = Least(Least0(most), pass.cap) /\ cash = pass.now.cash
  BY DEF Cap
<1> HIDE DEF part, cash
<1>4. most \in Int
  BY <1>1, <1>2
<1>5. Cap \in Nat /\ (Cap <= most \/ Cap = 0)
  BY <1>3, <1>4 DEF Least, Least0
<1>6. CASE part >= 0
  <2>1. part \in Nat /\ part * OrderDiv <= cash /\ part * OrderDiv \in Nat
    BY <1>1, <1>2, <1>6
  <2>2. Least0(cash) = cash
    <3>1. cash >= 0
      BY <1>2, <2>1
    <3> QED
      BY <1>2, <3>1 DEF Least0
  <2>3. most >= 0
    BY <1>1, <1>6, <1>2
  <2> QED
    BY <1>3, <1>4, <1>5, <2>1, <2>2, <2>3
<1>7. CASE part < 0
  <2>1. most <= 0
    BY <1>1, <1>2, <1>7
  <2>2. Cap = 0
    BY <1>3, <1>4, <1>5, <2>1
  <2>3. 0 * OrderDiv <= Least0(pass.now.cash) /\ Cap <= 0 * Lev
    BY <1>1, <2>2 DEF Least0
  <2> QED
    BY <1>5, <2>3
<1> QED
  BY <1>2, <1>6, <1>7

(* An order within the cap can be paid, margin and fee.                     *)
LEMMA CapIsPaid ==
  ASSUME CapsLeaveFees, instrument \in {"spot", "perp"}, pass.now.cash \in Int, pass.cap \in Nat,
         NEW q \in Nat \ {0}, NEW px \in Nat \ {0}, Notional(q, px) <= Cap
  PROVE  /\ instrument = "spot" => Notional(q, px) + Fee(q, px) <= pass.now.cash
         /\ instrument = "perp" => InitialMargin(q, px) + Fee(q, px) <= pass.now.cash
<1> DEFINE n == Notional(q, px)
           lev == IF instrument = "perp" THEN Leverage ELSE 1
<1>1. Cap \in Nat /\ \E k \in Nat : k * OrderDiv <= Least0(pass.now.cash) /\ Cap <= k * Lev
  BY CapIsPart
<1>2. PICK k \in Nat : k * OrderDiv <= Least0(pass.now.cash) /\ Cap <= k * lev
  BY <1>1 DEF Lev
<1>3. n \in Nat \ {0}
  <2>1. q * px \in Nat \ {0}
    OBVIOUS
  <2> QED
    BY <2>1, FillConstants DEF Notional
<1>4. n <= Cap
  OBVIOUS
<1>5. lev \in Nat \ {0} /\ lev <= Leverage /\ OrderDiv \in Nat \ {0} /\ FeeDiv \in Nat /\ Leverage \in Nat \ {0}
  BY FillConstants, Parameters
<1>6. InitialMargin(q, px) = n \div Leverage /\ Fee(q, px) = (IF FeeDiv = 0 THEN 0 ELSE n \div FeeDiv)
  BY DEF InitialMargin, Fee
<1>7. instrument = "spot" => lev = 1
  OBVIOUS
<1>8. instrument = "perp" => lev = Leverage
  OBVIOUS
<1> HIDE DEF n, lev
<1>9. n <= k * lev
  <2>1. k * lev \in Nat
    BY <1>2, <1>5
  <2> QED
    BY <1>1, <1>2, <1>3, <1>4, <2>1
<1>10. k * OrderDiv <= pass.now.cash
  <2>1. k >= 1
    <3> SUFFICES ASSUME k = 0 PROVE FALSE
      BY <1>2
    <3>1. k * lev = 0
      BY <1>5
    <3> QED
      BY <1>3, <1>9, <3>1
  <2>2. k * OrderDiv >= 1
    BY <1>2, <1>5, <2>1
  <2> QED
    BY <1>2, <1>5, <2>2 DEF Least0
<1>11. CASE FeeDiv = 0
  <2>1. k <= k * OrderDiv /\ k * OrderDiv \in Nat
    BY <1>2, <1>5
  <2>2. instrument = "perp" => n \div Leverage <= k
    <3> SUFFICES ASSUME instrument = "perp" PROVE n \div Leverage <= k
      OBVIOUS
    <3>1. n \in Int /\ k \in Int /\ n <= Leverage * k
      BY <1>2, <1>3, <1>5, <1>8, <1>9
    <3> QED
      BY <1>5, <3>1, DivAtMost
  <2>3. n \div Leverage \in Int
    BY <1>3, <1>5, DivBounds
  <2>4. instrument = "spot" => n <= k
    BY <1>2, <1>7, <1>9
  <2> DEFINE margin == n \div Leverage
  <2>6. instrument = "spot" => n + 0 <= pass.now.cash
    BY <1>2, <1>3, <1>10, <2>1, <2>4
  <2>7. instrument = "perp" => margin + 0 <= pass.now.cash
    <3> HIDE DEF margin
    <3> QED
      BY <1>2, <1>10, <2>1, <2>2, <2>3 DEF margin
  <2> QED
    BY <1>6, <1>11, <2>6, <2>7 DEF n
<1>12. CASE FeeDiv # 0
  <2> DEFINE margin == n \div Leverage
             fee == n \div FeeDiv
             rest == OrderDiv - 1
  <2>1. FeeDiv \in Nat \ {0} /\ FeeDiv + Leverage <= OrderDiv * FeeDiv
    BY <1>5, <1>12 DEF CapsLeaveFees
  <2>2. rest \in Nat /\ Leverage <= FeeDiv * rest
    <3>1. FeeDiv * rest = OrderDiv * FeeDiv - FeeDiv
      BY <1>5, <2>1
    <3>2. OrderDiv * FeeDiv \in Nat
      BY <1>5, <2>1
    <3> QED
      BY <1>5, <2>1, <3>1, <3>2
  <2>3. margin \in Int /\ fee \in Int /\ fee <= k * rest
    <3>1. margin \in Int /\ fee \in Int
      BY <1>3, <1>5, <2>1, DivBounds
    <3> HIDE DEF rest
    <3>2. k * lev <= k * (FeeDiv * rest)
      <4>1. lev <= FeeDiv * rest /\ FeeDiv * rest \in Nat
        BY <1>5, <2>1, <2>2
      <4> DEFINE r == FeeDiv * rest
      <4> HIDE DEF r
      <4>2. lev <= r /\ r \in Nat
        BY <4>1 DEF r
      <4>3. k * lev <= k * r
        BY <1>2, <1>5, <4>2
      <4> QED
        BY <4>3 DEF r
    <3>3. k * (FeeDiv * rest) = FeeDiv * (k * rest) /\ k * rest \in Int /\ k * lev \in Int
      BY <1>2, <1>5, <2>1, <2>2
    <3> DEFINE b == k * rest
    <3>4. b \in Int /\ n <= FeeDiv * b
      <4>1. FeeDiv * b \in Int
        BY <2>1, <3>3
      <4> QED
        BY <1>3, <1>9, <3>2, <3>3, <4>1
    <3> HIDE DEF b
    <3>5. n \div FeeDiv <= b
      <4>1. n \in Int
        BY <1>3
      <4> QED
        BY <2>1, <3>4, <4>1, DivAtMost
    <3> QED
      BY <3>1, <3>5 DEF b
  <2> HIDE DEF fee, rest, margin
  <2>4. k + k * rest = k * OrderDiv /\ k * rest \in Int
    BY <1>2, <1>5, <2>2 DEF rest
  <2>5. instrument = "spot" => n <= k
    BY <1>2, <1>7, <1>9
  <2>6. instrument = "perp" => margin <= k
    <3> SUFFICES ASSUME instrument = "perp" PROVE margin <= k
      OBVIOUS
    <3>1. n \in Int /\ k \in Int /\ n <= Leverage * k /\ Leverage \in Nat \ {0}
      BY <1>2, <1>3, <1>5, <1>8, <1>9
    <3> QED
      BY <3>1, DivAtMost DEF margin
  <2>7. instrument = "spot" => n + fee <= pass.now.cash
    BY <1>2, <1>3, <1>10, <2>3, <2>4, <2>5
  <2>8. instrument = "perp" => margin + fee <= pass.now.cash
    BY <1>2, <1>10, <2>3, <2>4, <2>6
  <2> QED
    BY <1>6, <1>12, <2>7, <2>8 DEF n, fee, margin
<1> QED
  BY <1>11, <1>12

-----------------------------------------------------------------------------
(* The clamps: what is left of an order, and the order made of the intent.  *)
LEMMA SkippedOrNot ==
  ASSUME NEW n \in Nat, NEW q, q = OrSkipped(n)
  PROVE  q \in Nat /\ q <= n /\ (q = 0 => n = 0 \/ TooSmall(n, pass.px))
<1>1. CASE TooSmall(n, pass.px)
  BY <1>1 DEF OrSkipped
<1>2. CASE ~TooSmall(n, pass.px)
  BY <1>2 DEF OrSkipped
<1> QED
  BY <1>1, <1>2

LEMMA CappedFits ==
  ASSUME NEW n \in Nat, NEW m \in Nat, pass.px \in Nat \ {0}, NEW q, q = Capped(n, m)
  PROVE  q \in Nat /\ q <= n /\ Notional(q, pass.px) <= m
<1> DEFINE lots == Lots(m, pass.px)
<1>1. lots \in Nat /\ Notional(lots, pass.px) <= m
  BY LotsFit
<1>2. q = Least(n, lots)
  BY DEF Capped
<1> HIDE DEF lots
<1>3. q \in Nat /\ q <= n /\ q <= lots
  BY <1>1, <1>2 DEF Least
<1>4. Notional(q, pass.px) <= Notional(lots, pass.px)
  BY <1>1, <1>3, LargerNotional
<1>5. Notional(q, pass.px) \in Nat /\ Notional(lots, pass.px) \in Nat
  BY <1>1, <1>3, Amounts
<1> QED
  BY <1>1, <1>3, <1>4, <1>5

LEMMA ByCashTyped ==
  ASSUME pass.now.cash \in Int
  PROVE  ByCash \in Nat
<1> DEFINE cash == Least0(pass.now.cash)
           m == cash * Leverage
           num == m * FeeDiv
           den == FeeDiv + Leverage
<1>1. cash \in Nat /\ Leverage \in Nat \ {0} /\ FeeDiv \in Nat
  BY FillConstants DEF Least0
<1>2. ByCash = IF FeeDiv = 0 THEN m ELSE num \div den
  BY DEF ByCash
<1> HIDE DEF cash
<1>3. m \in Nat
  BY <1>1
<1> HIDE DEF m
<1>4. num \in Nat /\ den \in Nat \ {0}
  BY <1>1, <1>3
<1> HIDE DEF num, den
<1>5. num \div den \in Nat
  <2> DEFINE e == num \div den
  <2>1. e \in Int /\ e >= 0
    <3>1. num \in Int /\ num >= 0
      BY <1>4
    <3> QED
      BY <1>4, <3>1, DivBounds
  <2> HIDE DEF e
  <2>2. e \in Nat
    BY <2>1
  <2> QED
    BY <2>2 DEF e
<1> QED
  BY <1>2, <1>3, <1>5

(* An order of the plan, clamped.                                           *)
LEMMA Clamps ==
  ASSUME instrument \in {"spot", "perp"}, pass \in PassRecord, NEW side, NEW n \in Nat,
         NEW q, q = Clamp(side, n)
  PROVE  /\ q \in Nat /\ Notional(q, pass.px) <= Cap
         /\ instrument = "spot" /\ side = "sell" => q <= Least0(pass.now.qty)
<1>1. /\ pass.px \in Nat \ {0} /\ pass.now.cash \in Int /\ pass.now.qty \in Int /\ pass.cap \in Nat
  BY DEF PassRecord, Account
<1>2. Cap \in Nat /\ ByCash \in Nat
  BY <1>1, CapIsPart, ByCashTyped
<1> DEFINE first == Capped(n, Cap)
           capped == OrSkipped(first)
           held == Least0(pass.now.qty)
           less == Least(capped, held)
           cashed == Capped(capped, ByCash)
           px == pass.px
<1>3. q = IF instrument = "spot" /\ side = "sell" THEN OrSkipped(less)
          ELSE IF instrument = "perp" THEN OrSkipped(cashed) ELSE capped
  BY DEF Clamp
<1>4. held \in Nat
  BY <1>1 DEF Least0
<1>5. first \in Nat /\ Notional(first, px) <= Cap
  BY <1>1, <1>2, CappedFits
<1> HIDE DEF first
<1>6. capped \in Nat /\ capped <= first
  BY <1>5, SkippedOrNot
<1> HIDE DEF capped, held
<1>7. less \in Nat /\ less <= capped /\ less <= held
  BY <1>4, <1>6 DEF Least
<1>8. cashed \in Nat /\ cashed <= capped
  BY <1>1, <1>2, <1>6, CappedFits
<1> HIDE DEF less, cashed
<1> DEFINE sold == OrSkipped(less)
           bought == OrSkipped(cashed)
<1>9. sold \in Nat /\ sold <= less
  BY <1>7, SkippedOrNot
<1>10. bought \in Nat /\ bought <= cashed
  BY <1>8, SkippedOrNot
<1>11. q = IF instrument = "spot" /\ side = "sell" THEN sold
           ELSE IF instrument = "perp" THEN bought ELSE capped
  BY <1>3
<1> HIDE DEF sold, bought
<1>12. q \in Nat /\ q <= first
  BY <1>5, <1>6, <1>7, <1>8, <1>9, <1>10, <1>11
<1>13. instrument = "spot" /\ side = "sell" => q <= held
  BY <1>4, <1>7, <1>9, <1>11
<1>14. Notional(q, px) <= Cap
  <2> HIDE DEF px
  <2>1. px \in Nat
    BY <1>1 DEF px
  <2>2. Notional(q, px) <= Notional(first, px)
    BY <1>5, <1>12, <2>1, LargerNotional
  <2>3. Notional(q, px) \in Nat /\ Notional(first, px) \in Nat
    BY <1>5, <1>12, <2>1, Amounts
  <2> QED
    BY <1>2, <1>5, <2>2, <2>3
<1> QED
  BY <1>12, <1>13, <1>14 DEF held

(* The order made of the intent.                                            *)
LEMMA Synthesizes ==
  ASSUME instrument \in {"spot", "perp"}, pass \in PassRecord, Sane(pass.now),
         NEW action \in Directional, NEW q, q = Synthesized(action)
  PROVE  /\ q \in Nat
         /\ q > 0 => IF instrument = "spot" /\ action = "SELL" THEN q = pass.now.qty
                     ELSE Notional(q, pass.px) <= Cap
         /\ LotsAreSmall /\ pass.px \in Price /\ q = 0 /\ action = "SELL" /\ pass.now.qty > 0 =>
              Cap < MinNotional * Unit \/ TooSmall(pass.now.qty, pass.px)
<1>1. /\ pass.px \in Nat \ {0} /\ pass.now.cash \in Int /\ pass.now.qty \in Int /\ pass.cap \in Nat
  BY DEF PassRecord, Account
<1>2. Cap \in Nat
  BY <1>1, CapIsPart
<1> DEFINE held == pass.now.qty
           most == Lots(Cap, pass.px)
           px == pass.px
<1>3. most \in Nat /\ Notional(most, px) <= Cap /\ (most = 0 => Cap < px * Unit)
  BY <1>1, <1>2, LotsFit
<1>4. q = IF Cap < MinNotional * Unit THEN 0
          ELSE IF action = "BUY" THEN most
          ELSE IF instrument = "perp" THEN IF held > 0 THEN Least(held, most) ELSE most
          ELSE OrSkipped(held)
  BY DEF Synthesized
<1>5. action = "BUY" \/ action = "SELL"
  BY DEF Directional
<1> HIDE DEF most
<1>6. CASE Cap < MinNotional * Unit
  <2>1. q = 0
    BY <1>4, <1>6
  <2> QED
    BY <1>6, <2>1
<1>7. CASE ~(Cap < MinNotional * Unit) /\ instrument = "spot" /\ action = "SELL"
  <2>1. held \in Nat
    BY <1>7 DEF Sane, Account
  <2>2. q = OrSkipped(held)
    BY <1>4, <1>7
  <2>3. q \in Nat /\ (q = 0 => held = 0 \/ TooSmall(held, px))
    BY <2>1, <2>2, SkippedOrNot
  <2>4. q = 0 \/ q = held
    BY <2>2 DEF OrSkipped
  <2> QED
    BY <1>7, <2>1, <2>3, <2>4
<1>8. CASE ~(Cap < MinNotional * Unit) /\ ~(instrument = "spot" /\ action = "SELL")
  <2>1. /\ q \in Nat /\ q <= most
        /\ (action = "SELL" /\ q = 0 /\ held > 0 => most = 0)
    BY <1>1, <1>3, <1>4, <1>5, <1>8 DEF Least
  <2>2. Notional(q, px) <= Cap
    <3>1. Notional(q, px) <= Notional(most, px)
      BY <1>1, <1>3, <2>1, LargerNotional
    <3>2. Notional(q, px) \in Nat /\ Notional(most, px) \in Nat
      BY <1>1, <1>3, <2>1, Amounts
    <3> QED
      BY <1>2, <1>3, <3>1, <3>2
  <2>3. ASSUME LotsAreSmall, px \in Price, most = 0
        PROVE  Cap < MinNotional * Unit
    <3>0. px <= MinNotional
      <4> HIDE DEF px
      <4> QED
        BY <2>3 DEF LotsAreSmall
    <3>1. px <= MinNotional /\ MinNotional \in Nat /\ Unit \in Nat \ {0}
      BY <3>0, FillConstants, Parameters
    <3>2. px * Unit <= MinNotional * Unit /\ px * Unit \in Nat /\ MinNotional * Unit \in Nat
      <4> HIDE DEF px
      <4>1. px \in Nat
        BY <1>1 DEF px
      <4> QED
        BY <3>1, <4>1
    <3> QED
      BY <1>2, <1>3, <2>3, <3>2
  <2> QED
    BY <1>8, <2>1, <2>2, <2>3
<1> QED
  BY <1>6, <1>7, <1>8

-----------------------------------------------------------------------------
(* What an order does that is sent.                                         *)
LEMMA Sends ==
  ASSUME DeploymentInv, PassTyped, NEW side \in {"buy", "sell"}, NEW q \in Nat \ {0},
         NEW synth \in BOOLEAN, Send(side, q, synth)
  PROVE  \E o \in SentOrder, b \in Account :
           /\ sent' = Append(sent, o) /\ acct' = b /\ Sane(b)
           /\ o.side = side /\ o.qty = q /\ o.synth = synth
           /\ o.booked = Fill(side, q, pass.px).ok /\ o.current = (acct = pass.now)
           /\ o.booked => /\ o.acct = b
                          /\ FeesAreCharged => Worth(b) < Worth(acct)
           /\ ~o.booked => o.acct = <<>> /\ b = acct
<1> DEFINE f == Fill(side, q, pass.px)
           b == f.acct
           kept == IF f.ok THEN b ELSE <<>>
           o == [side |-> side, qty |-> q, synth |-> synth, booked |-> f.ok,
                 current |-> acct = pass.now, acct |-> kept]
<1>1. sent' = Append(sent, o) /\ acct' = b
  BY DEF Send
<1>2. instrument \in {"spot", "perp"} /\ Sane(acct) /\ pass.px \in Nat \ {0}
  BY DEF DeploymentInv, PassTyped, PassRecord
<1>3. f = Fill(side, q, pass.px)
  OBVIOUS
<1> HIDE DEF f
<1>4. /\ f.ok \in BOOLEAN /\ (~f.ok => b = acct)
      /\ f.ok => /\ Sane(b) /\ f.fee \in Nat /\ (FeesAreCharged => f.fee >= 1)
                 /\ Worth(b) + f.fee <= Worth(acct)
  BY <1>2, <1>3, Fills
<1>5. \A a : Sane(a) => Worth(a) \in Int /\ a \in Account
  BY DEF Sane, Worth, Explained, Account
<1>6. FeesAreCharged /\ f.ok => Worth(b) < Worth(acct)
  BY <1>2, <1>4, <1>5
<1>7. Sane(b)
  BY <1>2, <1>4
<1>8. kept \in Account \cup {<<>>} /\ (f.ok => kept = b) /\ (~f.ok => kept = <<>>)
  BY <1>5, <1>7
<1> HIDE DEF b, kept
<1>9. o \in SentOrder
  BY <1>4, <1>8 DEF SentOrder
<1>10. /\ o.side = side /\ o.qty = q /\ o.synth = synth /\ o.booked = f.ok
       /\ o.current = (acct = pass.now) /\ o.acct = kept
  OBVIOUS
<1> HIDE DEF o
<1> b \in Account
  BY <1>5, <1>7
<1> WITNESS o \in SentOrder, b \in Account
<1> QED
  BY <1>1, <1>3, <1>4, <1>6, <1>7, <1>8, <1>10

LEMMA SendsOrder ==
  ASSUME DeploymentInv, PassTyped, NEW side \in {"buy", "sell"}, NEW q \in Nat \ {0},
         NEW synth \in BOOLEAN, Send(side, q, synth)
  PROVE  \E o \in SentOrder : sent' = Append(sent, o)
<1>1. PICK o \in SentOrder, b \in Account : sent' = Append(sent, o)
  BY Sends
<1> QED
  BY <1>1

(* The next order of the plan is skipped, or sent.                          *)
LEMMA Places ==
  ASSUME DeploymentInv, PassTyped, OrdersTyped, PlaceNext
  PROVE  /\ Head(plan) \in Order /\ plan' = Tail(plan) /\ stage = "orders"
         /\ Tail(plan) \in Seq(Order) /\ Len(Tail(plan)) = Len(plan) - 1 /\ Len(plan) \in Nat
         /\ \E side \in {"buy", "sell"}, q \in Nat :
              /\ side = Head(plan).side /\ q = Clamp(side, Head(plan).qty)
              /\ IF q = 0 THEN acct' = acct /\ sent' = sent
                 ELSE q \in Nat \ {0} /\ Send(side, q, FALSE)
<1> DEFINE o == Head(plan)
           q == Clamp(o.side, o.qty)
           side == o.side
<1>1. /\ plan \in Seq(Order) /\ plan # <<>> /\ plan' = Tail(plan) /\ stage = "orders"
      /\ IF q = 0 THEN UNCHANGED <<acct, sent>> ELSE Send(side, q, FALSE)
  BY DEF PlaceNext, OrdersTyped
<1>2. o \in Order
  BY <1>1
<1>3. side \in {"buy", "sell"} /\ o.qty \in Nat
  BY <1>2 DEF Order
<1>4. q \in Nat
  <2>1. q = Clamp(side, o.qty)
    OBVIOUS
  <2> HIDE DEF o, side, q
  <2> QED
    BY <1>3, <2>1, Clamps DEF PassTyped, DeploymentInv
<1>5. Tail(plan) \in Seq(Order) /\ Len(Tail(plan)) = Len(plan) - 1 /\ Len(plan) \in Nat
  BY <1>1
<1>6. q = Clamp(side, Head(plan).qty) /\ side = Head(plan).side
  OBVIOUS
<1> HIDE DEF q, side
<1>7. \E s \in {"buy", "sell"}, n \in Nat :
              /\ s = Head(plan).side /\ n = Clamp(s, Head(plan).qty)
              /\ IF n = 0 THEN acct' = acct /\ sent' = sent
                 ELSE n \in Nat \ {0} /\ Send(s, n, FALSE)
  <2> side \in {"buy", "sell"} /\ q \in Nat
    BY <1>3, <1>4
  <2> WITNESS side \in {"buy", "sell"}
  <2> WITNESS q \in Nat
  <2> QED
    BY <1>1, <1>4, <1>6
<1> QED
  BY <1>1, <1>2, <1>5, <1>7

(* The order of the intent, if there is to be one.                          *)
LEMMA Makes ==
  ASSUME DeploymentInv, PassTyped, Synthesize
  PROVE  /\ stage = "orders" /\ plan = <<>> /\ pass.action \in {"BUY", "SELL", "HOLD"}
         /\ report' = Written(sent') /\ stage' = "audit" /\ pass' = pass /\ plan' = plan
         /\ \/ /\ acct' = acct /\ sent' = sent
               /\ sent = <<>> /\ pass.action \in Directional => Synthesized(pass.action) = 0
            \/ \E side \in {"buy", "sell"}, q \in Nat \ {0} :
                 /\ sent = <<>> /\ pass.action \in Directional
                 /\ side = Side(pass.action) /\ q = Synthesized(pass.action)
                 /\ Send(side, q, TRUE)
<1> DEFINE q == IF pass.action \in Directional THEN Synthesized(pass.action) ELSE 0
           side == Side(pass.action)
<1>1. /\ stage = "orders" /\ plan = <<>> /\ report' = Written(sent') /\ stage' = "audit"
      /\ pass' = pass /\ plan' = plan
      /\ IF sent = <<>> /\ q > 0 THEN Send(side, q, TRUE) ELSE UNCHANGED <<acct, sent>>
  BY DEF Synthesize
<1>2. q \in Nat
  <2>1. CASE pass.action \in Directional
    <3>1. q = Synthesized(pass.action)
      BY <2>1
    <3> HIDE DEF q
    <3> QED
      BY <2>1, <3>1, Synthesizes DEF PassTyped, DeploymentInv
  <2>2. CASE pass.action \notin Directional
    BY <2>2
  <2> QED
    BY <2>1, <2>2
<1>3. side \in {"buy", "sell"} /\ pass.action \in {"BUY", "SELL", "HOLD"}
  BY DEF Side, PassTyped, PassRecord
<1>4. CASE sent = <<>> /\ q > 0
  <2>1. /\ pass.action \in Directional /\ side = Side(pass.action) /\ q = Synthesized(pass.action)
    BY <1>4
  <2> HIDE DEF q, side
  <2>2. \E s \in {"buy", "sell"}, n \in Nat \ {0} :
                 /\ sent = <<>> /\ pass.action \in Directional
                 /\ s = Side(pass.action) /\ n = Synthesized(pass.action)
                 /\ Send(s, n, TRUE)
    <3> side \in {"buy", "sell"} /\ q \in Nat \ {0}
      BY <1>2, <1>3, <1>4
    <3> WITNESS side \in {"buy", "sell"}
    <3> WITNESS q \in Nat \ {0}
    <3> QED
      BY <1>1, <1>4, <2>1
  <2> QED
    BY <1>1, <1>3, <2>2
<1>5. CASE ~(sent = <<>> /\ q > 0)
  <2>1. acct' = acct /\ sent' = sent
    BY <1>1, <1>5
  <2>2. sent = <<>> /\ pass.action \in Directional => Synthesized(pass.action) = 0
    <3>1. sent = <<>> => q = 0
      <4> HIDE DEF q
      <4> QED
        BY <1>2, <1>5
    <3> QED
      BY <3>1
  <2> QED
    BY <1>1, <1>3, <2>1, <2>2
<1> QED
  BY <1>4, <1>5

-----------------------------------------------------------------------------
LEMMA IdleTyped == Idle \in PassRecord /\ (instrument \in {"spot", "perp"} => Sane(Idle.now))
<1>1. Flat(0) \in Account /\ (instrument \in {"spot", "perp"} => Sane(Flat(0)))
  BY DEF Flat, Account, Sane
<1>2. 0 \in Parts /\ NoAnswer \in AnyOverlay
  BY DEF Parts, AnyOverlay
<1> DEFINE flat == Flat(0)
<1>3. Idle = [px |-> 1, nodes |-> {}, asked |-> {}, clean |-> TRUE, vetoed |-> FALSE, llm |-> FALSE,
              overlay |-> NoAnswer, action |-> "HOLD", conf |-> 0, cap |-> 0, now |-> flat]
  BY DEF Idle
<1>4. flat \in Account
  BY <1>1
<1> HIDE DEF flat
<1>5. Idle \in PassRecord
  BY <1>2, <1>3, <1>4 DEF PassRecord
<1> QED
  BY <1>1, <1>3, <1>5 DEF flat

LEMMA IntentCapTyped ==
  ASSUME NEW a, Sane(a)
  PROVE  IntentCap(a) \in Nat
<1> DEFINE cash == Least0(a.cash)
           part == cash \div IntentDiv
<1>1. cash \in Int /\ cash >= 0 /\ IntentDiv \in Nat \ {0} /\ Lev \in Nat
  <2>1. a.cash \in Int
    BY DEF Sane, Account
  <2>2. cash \in Int /\ cash >= 0
    BY <2>1 DEF Least0
  <2>3. IntentDiv \in Nat \ {0} /\ Lev \in Nat
    BY FillConstants, Parameters DEF Lev
  <2> HIDE DEF cash
  <2> QED
    BY <2>2, <2>3
<1>2. IntentCap(a) = part * Lev
  BY DEF IntentCap
<1> HIDE DEF cash
<1>3. part \in Int /\ part >= 0
  BY <1>1, DivBounds
<1> HIDE DEF part
<1> QED
  BY <1>1, <1>2, <1>3

LEMMA PassTypedStep ==
  ASSUME DeploymentInv, ContractsInv, PassTyped, OrdersTyped, [Next]_vars
  PROVE  PassTyped'
<1>1. /\ stage \in Stages /\ pass \in PassRecord /\ Sane(pass.now) /\ Sane(acct)
      /\ instrument \in {"spot", "perp"} /\ (stage # "idle" => pass.px \in Price)
  BY DEF PassTyped, DeploymentInv
<1>2. instrument' = instrument
  BY DEF vars, config, Next, Begin, Infer, RiskGuard, DeployBegin, DeployEnd, Desks, Ask, Arbitrate,
     Raise, Execute, PlaceNext, Synthesize, Audit, Reset
<1>3. SUFFICES /\ stage' \in Stages /\ pass' \in PassRecord
               /\ \E a : acct' = a /\ Sane(a)
               /\ \E a : pass'.now = a /\ Sane(a)
               /\ stage' # "idle" => pass'.px \in Price
  BY <1>2 DEF PassTyped, Sane
<1>4. CASE DeployBegin
  <2>1. pass' \in {pass, [pass EXCEPT !.clean = FALSE]} /\ stage' = stage /\ acct' = acct
    BY <1>4 DEF DeployBegin
  <2>2. pass' \in PassRecord /\ pass'.now = pass.now /\ pass'.px = pass.px
    BY <1>1, <2>1 DEF PassRecord
  <2> QED
    BY <1>1, <2>1, <2>2
<1>5. CASE UNCHANGED <<stage, pass, acct>>
  BY <1>1, <1>5
<1>6. ASSUME NEW px \in Price, Begin(px)
      PROVE  /\ stage' \in Stages /\ pass' \in PassRecord
             /\ \E a : acct' = a /\ Sane(a)
             /\ \E a : pass'.now = a /\ Sane(a)
             /\ stage' # "idle" => pass'.px \in Price
  <2> DEFINE nodes == Nodes(deploy)
             clean == ~writing
             cap == IntentCap(acct)
  <2>1. /\ pass' = [Idle EXCEPT !.px = px, !.nodes = nodes, !.clean = clean, !.cap = cap]
        /\ stage' = "desks" /\ acct' = acct
    BY <1>6 DEF Begin
  <2>2. nodes \in SUBSET Agent /\ cap \in Nat /\ px \in Nat \ {0}
    BY <1>1, WeightsTyped, IntentCapTyped, AccountConstants DEF DeploymentInv
  <2>3. clean \in BOOLEAN
    BY DEF DeploymentInv
  <2> HIDE DEF nodes, clean, cap
  <2>4. pass' \in PassRecord /\ pass'.now = Idle.now /\ pass'.px = px
    BY <2>1, <2>2, <2>3, IdleTyped DEF PassRecord
  <2> QED
    BY <1>1, <2>1, <2>4, IdleTyped DEF Stages
<1>7. CASE Desks
  BY <1>1, <1>7 DEF Desks, Stages
<1>8. CASE Ask
  <2> DEFINE asked == LlmDesks(deploy)
  <2>1. pass' = [pass EXCEPT !.asked = asked] /\ stage' = "infer" /\ acct' = acct /\ stage # "idle"
    BY <1>8 DEF Ask
  <2>2. asked \in SUBSET Agent
    BY WeightsTyped DEF DeploymentInv
  <2> HIDE DEF asked
  <2>3. pass' \in PassRecord /\ pass'.now = pass.now /\ pass'.px = pass.px
    BY <1>1, <2>1, <2>2 DEF PassRecord
  <2> QED
    BY <1>1, <2>1, <2>3 DEF Stages
<1>9. CASE stage' = "idle" /\ pass' = Idle /\ acct' = acct
  BY <1>1, <1>9, IdleTyped DEF Stages
<1>10. CASE Arbitrate
  <2>1. PICK e \in {Decision(c, Shock(Merged)) : c \in {Ballots(Merged, Weights(deploy))}},
             overlay \in Overlays :
           \E d : /\ d = Overlay(e, overlay)
                  /\ pass' = [pass EXCEPT !.overlay = overlay, !.conf = d.conf,
                                          !.action = IntentAction(d, MinConf),
                                          !.nodes = {}, !.asked = {}, !.clean = TRUE]
    BY <1>10 DEF Arbitrate
  <2>2. PICK d : /\ d = Overlay(e, overlay)
                 /\ pass' = [pass EXCEPT !.overlay = overlay, !.conf = d.conf,
                                         !.action = IntentAction(d, MinConf),
                                         !.nodes = {}, !.asked = {}, !.clean = TRUE]
    BY <2>1
  <2>3. e = Decision(Ballots(Merged, Weights(deploy)), Shock(Merged)) /\ overlay \in Overlays
    BY <2>1
  <2> DEFINE conf == d.conf
             action == IntentAction(d, MinConf)
  <2>4. action \in {"BUY", "SELL", "HOLD"} /\ conf \in Parts /\ overlay \in AnyOverlay
    BY <2>2, <2>3, DecisionTyped
  <2>5. pass' = [pass EXCEPT !.overlay = overlay, !.conf = conf, !.action = action,
                             !.nodes = {}, !.asked = {}, !.clean = TRUE]
    BY <2>2
  <2> HIDE DEF conf, action
  <2>6. pass' \in PassRecord /\ pass'.now = pass.now /\ pass'.px = pass.px
    BY <1>1, <2>4, <2>5 DEF PassRecord
  <2>7. stage' = "guard" /\ acct' = acct /\ stage # "idle"
    BY <1>10 DEF Arbitrate
  <2> QED
    BY <1>1, <2>6, <2>7 DEF Stages
<1>11. ASSUME NEW kill \in BOOLEAN, RiskGuard(kill)
       PROVE  /\ stage' \in Stages /\ pass' \in PassRecord
              /\ \E a : acct' = a /\ Sane(a)
              /\ \E a : pass'.now = a /\ Sane(a)
              /\ stage' # "idle" => pass'.px \in Price
  <2> DEFINE action == IF kill THEN "HOLD" ELSE pass.action
  <2>1. /\ pass' = [pass EXCEPT !.overlay = NoAnswer, !.conf = 0, !.vetoed = kill, !.action = action]
        /\ stage' \in {"audit", "execute"} /\ acct' = acct /\ stage # "idle"
    BY <1>11 DEF RiskGuard
  <2>2. action \in {"BUY", "SELL", "HOLD"} /\ 0 \in Parts /\ NoAnswer \in AnyOverlay
    BY <1>1 DEF PassRecord, Parts, AnyOverlay
  <2> HIDE DEF action
  <2>3. pass' \in PassRecord /\ pass'.now = pass.now /\ pass'.px = pass.px
    BY <1>1, <2>1, <2>2 DEF PassRecord
  <2> QED
    BY <1>1, <2>1, <2>3 DEF Stages
<1>12. CASE Execute
  <2> DEFINE llm == deploy.synthesis
  <2>1. pass' = [pass EXCEPT !.now = acct, !.llm = llm] /\ stage' = "orders" /\ acct' = acct
        /\ stage # "idle"
    BY <1>12 DEF Execute
  <2>2. llm \in BOOLEAN /\ acct \in Account
    BY <1>1, DeploymentTyped DEF DeploymentInv, Sane
  <2> HIDE DEF llm
  <2>3. pass' \in PassRecord /\ pass'.now = acct /\ pass'.px = pass.px
    BY <1>1, <2>1, <2>2 DEF PassRecord
  <2> QED
    BY <1>1, <2>1, <2>3 DEF Stages
<1>13. CASE PlaceNext
  <2>1. PICK side \in {"buy", "sell"}, q \in Nat :
               IF q = 0 THEN acct' = acct /\ sent' = sent
               ELSE q \in Nat \ {0} /\ Send(side, q, FALSE)
    BY <1>13, Places
  <2>2. \E a : acct' = a /\ Sane(a)
    <3>1. CASE q = 0
      BY <1>1, <2>1, <3>1
    <3>2. CASE q # 0
      BY <2>1, <3>2, Sends
    <3> QED
      BY <3>1, <3>2
  <2>3. stage' = stage /\ pass' = pass
    BY <1>13 DEF PlaceNext
  <2> QED
    BY <1>1, <2>2, <2>3
<1>14. CASE Synthesize
  <2>1. /\ stage = "orders" /\ stage' = "audit" /\ pass' = pass
        /\ \/ acct' = acct
           \/ \E side \in {"buy", "sell"}, q \in Nat \ {0} : Send(side, q, TRUE)
    BY <1>14, Makes
  <2>2. \E a : acct' = a /\ Sane(a)
    BY <1>1, <2>1, Sends
  <2> QED
    BY <1>1, <2>1, <2>2 DEF Stages
<1>15. CASE Reset
  <2>1. acct' = Flat(Start * Unit) /\ stage' = stage /\ pass' = pass
    BY <1>15 DEF Reset
  <2> QED
    BY <1>1, <2>1, FlatIsSane
<1> QED
  BY <1>4, <1>5, <1>6, <1>7, <1>8, <1>9, <1>10, <1>11, <1>12, <1>13, <1>14, <1>15
     DEF Next, vars, Infer, DeployEnd, Raise, Audit, Over

-----------------------------------------------------------------------------
(* The orders of a pass.                                                    *)
LEMMA OrdersTypedStep ==
  ASSUME DeploymentInv, PassTyped, OrdersTyped, [Next]_vars
  PROVE  OrdersTyped'
<1>1. /\ plan \in Seq(Order) /\ sent \in Seq(SentOrder)
      /\ stage # "orders" => plan = <<>>
      /\ stage \notin {"orders", "audit"} => sent = <<>>
      /\ Len(plan) + Len(sent) <= MaxOrders + 1
      /\ Len(plan) \in Nat /\ Len(sent) \in Nat /\ MaxOrders \in Nat
  <2>1. plan \in Seq(Order) /\ sent \in Seq(SentOrder)
    BY DEF OrdersTyped
  <2> QED
    BY <2>1, Parameters DEF OrdersTyped
<1>2. CASE UNCHANGED <<plan, sent, stage>>
  BY <1>1, <1>2 DEF OrdersTyped
<1>3. CASE /\ UNCHANGED <<plan, sent>> /\ stage # "orders"
           /\ stage' # "orders" /\ (stage' = "audit" \/ stage # "audit")
  BY <1>1, <1>3 DEF OrdersTyped
<1>4. CASE stage # "orders" /\ plan' = plan /\ sent' = <<>> /\ stage' = "idle"
  BY <1>1, <1>4 DEF OrdersTyped
<1>5. CASE Execute
  <2>1. /\ stage = "execute" /\ stage' = "orders" /\ sent' = sent
        /\ plan' \in IF deploy.synthesis THEN LlmOrders
                     ELSE IF pass.action \notin Directional THEN {<<>>}
                     ELSE {<<[side |-> Side(pass.action), qty |-> Probe]>>}
    BY <1>5 DEF Execute
  <2>2. plan' \in Seq(Order) /\ Len(plan') <= MaxOrders + 1
    <3>1. CASE plan' \in LlmOrders
      <4>1. PICK n \in 0..MaxOrders : plan' \in [1..n -> [side : {"buy", "sell"}, qty : LlmQty]]
        BY <3>1 DEF LlmOrders
      <4>2. [side : {"buy", "sell"}, qty : LlmQty] \subseteq Order
        <5>1. LlmQty \subseteq Nat \ {0}
          BY Parameters
        <5> QED
          BY <5>1 DEF Order
      <4>3. n \in Nat /\ plan' \in [1..n -> Order]
        BY <1>1, <4>1, <4>2
      <4>4. plan' \in Seq(Order)
        BY <4>3
      <4>5. Len(plan') = n
        BY <4>3
      <4> QED
        BY <1>1, <4>1, <4>4, <4>5
    <3>2. CASE plan' = <<>>
      BY <1>1, <3>2
    <3>3. CASE plan' = <<[side |-> Side(pass.action), qty |-> Probe]>>
      <4> DEFINE o == [side |-> Side(pass.action), qty |-> Probe]
      <4>1. Probe \in Nat \ {0} /\ Side(pass.action) \in {"buy", "sell"}
        BY Parameters DEF Side
      <4>2. o \in Order
        BY <4>1 DEF Order
      <4>3. plan' = <<o>>
        BY <3>3
      <4> HIDE DEF o
      <4> QED
        BY <1>1, <4>2, <4>3
    <3> QED
      BY <2>1, <3>1, <3>2, <3>3
  <2>3. sent' = <<>>
    BY <1>1, <2>1
  <2>4. Len(plan') + Len(sent') <= MaxOrders + 1
    <3>1. Len(plan') \in Nat
      BY <2>2
    <3> QED
      BY <1>1, <2>2, <2>3, <3>1
  <2> QED
    BY <1>1, <2>1, <2>2, <2>3, <2>4 DEF OrdersTyped
<1>6. CASE PlaceNext
  <2>1. PICK side \in {"buy", "sell"}, q \in Nat :
               IF q = 0 THEN acct' = acct /\ sent' = sent
               ELSE q \in Nat \ {0} /\ Send(side, q, FALSE)
    BY <1>6, Places
  <2>2. /\ plan' = Tail(plan) /\ Tail(plan) \in Seq(Order) /\ Len(Tail(plan)) = Len(plan) - 1
        /\ stage = "orders" /\ stage' = stage
    BY <1>6, Places DEF PlaceNext
  <2>3. sent' \in Seq(SentOrder) /\ Len(sent') <= Len(sent) + 1 /\ Len(sent') \in Nat
    <3>1. CASE q = 0
      BY <1>1, <2>1, <3>1
    <3>2. CASE q # 0
      <4>1. PICK o \in SentOrder : sent' = Append(sent, o)
        <5> DEFINE synth == FALSE
        <5>1. q \in Nat \ {0} /\ synth \in BOOLEAN /\ Send(side, q, synth)
          BY <2>1, <3>2
        <5> HIDE DEF synth
        <5> QED
          BY <5>1, SendsOrder
      <4> QED
        BY <1>1, <4>1
    <3> QED
      BY <3>1, <3>2
  <2> QED
    BY <1>1, <2>2, <2>3 DEF OrdersTyped
<1>7. CASE Synthesize
  <2>1. /\ stage = "orders" /\ stage' = "audit" /\ plan = <<>> /\ plan' = plan
        /\ \/ sent' = sent
           \/ \E side \in {"buy", "sell"}, q \in Nat \ {0} : sent = <<>> /\ Send(side, q, TRUE)
    BY <1>7, Makes
  <2>2. CASE sent' = sent
    BY <1>1, <2>1, <2>2 DEF OrdersTyped
  <2>3. ASSUME NEW side \in {"buy", "sell"}, NEW q \in Nat \ {0}, sent = <<>>, Send(side, q, TRUE)
        PROVE  OrdersTyped'
    <3>1. PICK o \in SentOrder : sent' = Append(sent, o)
      <4> DEFINE synth == TRUE
      <4>1. synth \in BOOLEAN /\ Send(side, q, synth)
        BY <2>3
      <4> HIDE DEF synth
      <4> QED
        BY <4>1, SendsOrder
    <3>2. sent' = <<o>> /\ Len(sent') = 1
      BY <2>3, <3>1
    <3> QED
      BY <1>1, <2>1, <3>1, <3>2 DEF OrdersTyped
  <2> QED
    BY <2>1, <2>2, <2>3
<1> QED
  BY <1>2, <1>3, <1>4, <1>5, <1>6, <1>7 DEF Next, vars, config, Begin, Infer, RiskGuard, DeployBegin,
     DeployEnd, Desks, Ask, Arbitrate, Raise, Over, Audit, Reset

-----------------------------------------------------------------------------
(* An order within the limits is filled on the account it was sized with,   *)
(* unless it turns a position round.                                        *)
LEMMA SizedOrdersFill ==
  ASSUME CapsLeaveFees, DeploymentInv, PassTyped, acct = pass.now,
         NEW side \in {"buy", "sell"}, NEW q \in Nat \ {0},
         IF instrument = "spot" /\ side = "sell" THEN q <= pass.now.qty
         ELSE Notional(q, pass.px) <= Cap,
         NEW against, against = (IF side = "buy" THEN -pass.now.qty ELSE pass.now.qty)
  PROVE  \/ Fill(side, q, pass.px).ok
         \/ instrument = "perp" /\ 0 < against /\ against < q
<1> DEFINE f == Fill(side, q, pass.px)
           px == pass.px
<1>1. /\ instrument \in {"spot", "perp"} /\ Sane(acct) /\ px \in Nat \ {0} /\ pass.cap \in Nat
      /\ pass.now.cash \in Int /\ pass.now.qty \in Int
  BY DEF DeploymentInv, PassTyped, PassRecord, Account
<1>2. side = "buy" \/ side = "sell"
  OBVIOUS
<1>3. CASE instrument = "spot"
  <2>1. f = IF side = "buy" THEN SpotBuy(acct, q, px) ELSE SpotSell(acct, q, px)
    BY <1>2, <1>3 DEF Fill
  <2> HIDE DEF f, px
  <2>2. /\ side = "buy" /\ Notional(q, px) + Fee(q, px) <= acct.cash => f.ok
        /\ side = "sell" /\ q <= acct.qty => f.ok
    BY <1>1, <1>3, <2>1, SpotFills
  <2>3. side = "buy" => Notional(q, px) + Fee(q, px) <= acct.cash
    BY <1>1, <1>3, CapIsPaid DEF px
  <2>4. side = "sell" => q <= acct.qty
    BY <1>3
  <2>5. f.ok
    BY <1>2, <2>2, <2>3, <2>4
  <2> QED
    BY <2>5 DEF f, px
<1>4. CASE instrument = "perp"
  <2>1. f = IF side = "buy" THEN PerpBuy(acct, q, px) ELSE PerpSell(acct, q, px)
    BY <1>2, <1>4 DEF Fill
  <2>2. against = (IF side = "buy" THEN -acct.qty ELSE acct.qty) /\ against \in Int
    BY <1>1
  <2> HIDE DEF f, px
  <2>3. IF against > 0 THEN q <= against => f.ok
        ELSE InitialMargin(q, px) + Fee(q, px) <= acct.cash => f.ok
    <3>1. LET b == IF side = "buy" THEN -acct.qty ELSE acct.qty
          IN  IF b > 0 THEN q <= b => f.ok
              ELSE InitialMargin(q, px) + Fee(q, px) <= acct.cash => f.ok
      BY <1>1, <1>4, <2>1, PerpFills
    <3> QED
      BY <2>2, <3>1
  <2>4. InitialMargin(q, px) + Fee(q, px) <= acct.cash
    BY <1>1, <1>4, CapIsPaid DEF px
  <2>5. f.ok \/ (0 < against /\ against < q)
    <3>1. CASE against > 0 /\ q <= against
      BY <2>3, <3>1
    <3>2. CASE against > 0 /\ ~(q <= against)
      BY <2>2, <3>2
    <3>3. CASE ~(against > 0)
      BY <2>3, <2>4, <3>3
    <3> QED
      BY <3>1, <3>2, <3>3
  <2> QED
    BY <1>4, <2>5 DEF f, px
<1> QED
  BY <1>1, <1>3, <1>4

-----------------------------------------------------------------------------
(* What makes the decisions, the orders and the report of a pass right.     *)

(* A pass that saw no write of the deployment has its desks and asks its    *)
(* LLM of the deployment in force.                                          *)
CleanInv ==
  stage \in {"desks", "ask", "infer"} /\ pass.clean =>
    /\ ~writing /\ pass.nodes = Nodes(deploy)
    /\ stage = "infer" => pass.asked = LlmDesks(deploy)

(* A vetoed pass has nothing left to do but its audit; another reports what *)
(* it sent.                                                                 *)
ReportInv ==
  /\ pass.vetoed => /\ stage = "audit" /\ sent = <<>>
                    /\ report = [NoReport EXCEPT !.status = "skipped"]
  /\ stage = "audit" /\ ~pass.vetoed => report = Written(sent)

(* The account is the one the pass began with until it has booked an order, *)
(* and worth less from then on.                                             *)
AccountInv ==
  began # <<>> =>
    /\ stage \in {"desks", "ask", "infer", "guard", "execute"} => acct = began
    /\ stage \in {"orders", "audit"} =>
         /\ (\E i \in DOMAIN sent : sent[i].booked) => Worth(acct) < Worth(began)
         /\ (\A i \in DOMAIN sent : ~sent[i].booked) => acct = began
         /\ ~pass.vetoed => /\ sent = <<>> => pass.now = acct
                            /\ Len(sent) = 1 => sent[1].acct \in {<<>>, acct}

(* Each order is within its limits, and has a mandate.                      *)
Mandated(o) == pass.action \in Directional /\ o.side = Side(pass.action)
SpotSale(o) == instrument = "spot" /\ o.side = "sell"
Against(o) == IF o.side = "buy" THEN -pass.now.qty ELSE pass.now.qty
Justified(o) ==
  /\ Notional(o.qty, pass.px) <= Cap \/ (SpotSale(o) /\ o.synth)
  /\ SpotSale(o) => o.qty <= pass.now.qty
  /\ CapsLeaveFees =>
       \/ o.booked \/ ~o.current
       \/ instrument = "perp" /\ 0 < Against(o) /\ Against(o) < o.qty
UnsoldForCause ==
  stage = "audit" /\ report.unsold /\ LotsAreSmall =>
    Cap < MinNotional * Unit \/ TooSmall(pass.now.qty, pass.px)

MandateInv ==
  /\ \A i \in DOMAIN sent : Justified(sent[i])
  /\ stage = "orders" =>
       /\ \A i \in DOMAIN sent : ~sent[i].synth
       /\ ~pass.llm => /\ Len(plan) + Len(sent) <= 1
                       /\ \A i \in DOMAIN plan : Mandated(plan[i])
                       /\ \A i \in DOMAIN sent : Mandated(sent[i])
  /\ stage = "audit" /\ sent # <<>> /\ (~pass.llm \/ sent[1].synth) =>
       Len(sent) = 1 /\ Mandated(sent[1])
  /\ UnsoldForCause

-----------------------------------------------------------------------------
(* The first two of them, step by step.                                     *)
LEMMA CleanInvStep ==
  ASSUME DeploymentInv, PassTyped, CleanInv, [Next]_vars
  PROVE  CleanInv'
<1>1. pass \in PassRecord
  BY DEF PassTyped
<1>2. CASE stage' \notin {"desks", "ask", "infer"}
  BY <1>2 DEF CleanInv
<1>3. CASE UNCHANGED <<stage, pass, deploy, writing>>
  BY <1>3 DEF CleanInv, Nodes, LlmDesks
<1>4. CASE DeployBegin
  <2>1. CASE stage \in {"desks", "ask", "infer"}
    <3>1. pass'.clean = FALSE
      BY <1>1, <1>4, <2>1 DEF DeployBegin, PassRecord
    <3> QED
      BY <3>1 DEF CleanInv
  <2>2. CASE stage \notin {"desks", "ask", "infer"}
    BY <1>4, <2>2 DEF DeployBegin, CleanInv
  <2> QED
    BY <2>1, <2>2
<1>5. ASSUME NEW file \in Deployment, DeployEnd(file)
      PROVE  CleanInv'
  BY <1>5 DEF DeployEnd, CleanInv
<1>6. ASSUME NEW px \in Price, Begin(px)
      PROVE  CleanInv'
  <2>1. /\ pass'.clean = ~writing /\ pass'.nodes = Nodes(deploy) /\ stage' = "desks"
    BY <1>6 DEF Begin, Idle
  <2>2. deploy' = deploy /\ writing' = writing
    BY <1>6 DEF Begin, config
  <2>3. Nodes(deploy)' = Nodes(deploy)
    BY <2>2 DEF Nodes
  <2> QED
    BY <2>1, <2>2, <2>3 DEF CleanInv
<1>7. CASE Desks
  <2>1. stage = "desks" /\ stage' = "ask" /\ pass' = pass /\ deploy' = deploy /\ writing' = writing
    BY <1>7 DEF Desks, config
  <2> QED
    BY <2>1 DEF CleanInv, Nodes
<1>8. CASE Ask
  <2>1. /\ stage = "ask" /\ stage' = "infer" /\ deploy' = deploy /\ writing' = writing
        /\ pass' = [pass EXCEPT !.asked = LlmDesks(deploy)]
    BY <1>8 DEF Ask, config
  <2>2. pass'.clean = pass.clean /\ pass'.nodes = pass.nodes /\ pass'.asked = LlmDesks(deploy)
    BY <1>1, <2>1 DEF PassRecord
  <2> QED
    BY <2>1, <2>2 DEF CleanInv, Nodes, LlmDesks
<1> QED
  BY <1>2, <1>3, <1>4, <1>5, <1>6, <1>7, <1>8 DEF Next, vars, config, Infer, RiskGuard, Arbitrate,
     Raise, Execute, PlaceNext, Synthesize, Audit, Reset

LEMMA ReportInvStep ==
  ASSUME DeploymentInv, PassTyped, OrdersTyped, ReportInv, [Next]_vars
  PROVE  ReportInv'
<1>1. pass \in PassRecord /\ pass.vetoed \in BOOLEAN
  BY DEF PassTyped, PassRecord
<1>2. CASE UNCHANGED <<stage, pass, sent, report>>
  BY <1>2 DEF ReportInv, Written
<1>3. CASE stage' # "audit" /\ pass'.vetoed = FALSE
  BY <1>3 DEF ReportInv
<1>4. stage # "audit" => pass.vetoed = FALSE
  BY <1>1 DEF ReportInv
<1>5. CASE stage' # "audit" /\ pass'.vetoed = pass.vetoed /\ stage # "audit"
  BY <1>3, <1>4, <1>5
<1>6. CASE DeployBegin
  <2>1. CASE stage \in {"desks", "ask", "infer"}
    <3>1. pass'.vetoed = pass.vetoed /\ stage' = stage
      BY <1>1, <1>6, <2>1 DEF DeployBegin, PassRecord
    <3> QED
      BY <1>5, <2>1, <3>1
  <2>2. CASE stage \notin {"desks", "ask", "infer"}
    BY <1>2, <1>6, <2>2 DEF DeployBegin
  <2> QED
    BY <2>1, <2>2
<1>7. ASSUME NEW kill \in BOOLEAN, RiskGuard(kill)
      PROVE  ReportInv'
  <2>1. /\ pass'.vetoed = kill /\ stage' = (IF kill THEN "audit" ELSE "execute")
        /\ kill => report' = [NoReport EXCEPT !.status = "skipped"]
    BY <1>1, <1>7 DEF RiskGuard, PassRecord
  <2>2. sent' = <<>>
    BY <1>7 DEF RiskGuard, OrdersTyped
  <2>3. CASE kill
    BY <2>1, <2>2, <2>3 DEF ReportInv
  <2>4. CASE ~kill
    BY <1>3, <2>1, <2>4
  <2> QED
    BY <2>3, <2>4
<1>8. CASE Synthesize
  <2>1. stage = "orders" /\ stage' = "audit" /\ pass' = pass /\ report' = Written(sent')
    BY <1>8 DEF Synthesize
  <2>2. Written(sent)' = Written(sent')
    BY <2>1 DEF Written
  <2> QED
    BY <1>4, <2>1, <2>2 DEF ReportInv
<1>9. CASE Over /\ stage' = "idle"
  BY <1>3, <1>9 DEF Over, Idle
<1>10. ASSUME NEW px \in Price, Begin(px)
       PROVE  ReportInv'
  <2>1. pass'.vetoed = FALSE /\ stage' = "desks"
    BY <1>10 DEF Begin, Idle
  <2> QED
    BY <1>3, <2>1
<1>11. CASE Desks \/ Ask \/ Arbitrate \/ Execute \/ PlaceNext
  <2>1. stage' # "audit" /\ stage # "audit"
    BY <1>11 DEF Desks, Ask, Arbitrate, Execute, PlaceNext
  <2>2. pass'.vetoed = pass.vetoed
    BY <1>1, <1>11 DEF Desks, Ask, Arbitrate, Execute, PlaceNext, PassRecord
  <2> QED
    BY <1>5, <2>1, <2>2
<1> QED
  BY <1>2, <1>6, <1>7, <1>8, <1>9, <1>10, <1>11 DEF Next, vars, config, Infer, DeployEnd,
     Raise, Audit, Reset

-----------------------------------------------------------------------------
(* The account of a pass.                                                   *)
BeganTyped == began = <<>> \/ Sane(began)

(* The account after an order.                                              *)
LEMMA SentKeepsAccount ==
  ASSUME FeesAreCharged, DeploymentInv, PassTyped, OrdersTyped, AccountInv, BeganTyped,
         stage = "orders", pass.vetoed = FALSE, began # <<>>,
         NEW side \in {"buy", "sell"}, NEW q \in Nat \ {0}, NEW synth \in BOOLEAN,
         Send(side, q, synth)
  PROVE  \E s, b :
           /\ sent' = s /\ acct' = b /\ s # <<>>
           /\ (\E i \in DOMAIN s : s[i].booked) => Worth(b) < Worth(began)
           /\ (\A i \in DOMAIN s : ~s[i].booked) => b = began
           /\ Len(s) = 1 => s[1].acct \in {<<>>, b}
<1>1. PICK o \in SentOrder, b \in Account :
           /\ sent' = Append(sent, o) /\ acct' = b /\ Sane(b)
           /\ o.booked => /\ o.acct = b
                          /\ FeesAreCharged => Worth(b) < Worth(acct)
           /\ ~o.booked => o.acct = <<>> /\ b = acct
  BY Sends
<1> DEFINE s == Append(sent, o)
           booked == \E i \in DOMAIN sent : sent[i].booked
<1>2. sent \in Seq(SentOrder) /\ Len(sent) \in Nat
  BY DEF OrdersTyped
<1>3. /\ DOMAIN s = 1..(Len(sent) + 1) /\ s[Len(sent) + 1] = o /\ Len(s) = Len(sent) + 1
      /\ \A i \in DOMAIN sent : s[i] = sent[i] /\ i \in DOMAIN s
      /\ \A i \in DOMAIN s : i \in DOMAIN sent \/ s[i] = o
      /\ Len(sent) + 1 \in DOMAIN s
  BY <1>2
<1>4. s # <<>>
  BY <1>2, <1>3
<1>5. /\ booked => Worth(acct) < Worth(began)
      /\ ~booked => acct = began
  BY DEF AccountInv
<1>6. Worth(acct) \in Int /\ Worth(b) \in Int /\ Worth(began) \in Int
  <2>1. \A a : Sane(a) /\ instrument \in {"spot", "perp"} => Worth(a) \in Int
    BY DEF Sane, Worth, Explained, Account
  <2> QED
    BY <1>1, <2>1 DEF PassTyped, BeganTyped, DeploymentInv
<1>7. (\E i \in DOMAIN s : s[i].booked) => Worth(b) < Worth(began)
  <2> SUFFICES ASSUME NEW i \in DOMAIN s, s[i].booked PROVE Worth(b) < Worth(began)
    OBVIOUS
  <2>1. CASE o.booked
    <3>1. Worth(b) < Worth(acct)
      BY <1>1, <2>1
    <3>2. Worth(acct) <= Worth(began)
      BY <1>5, <1>6
    <3> QED
      BY <1>6, <3>1, <3>2
  <2>2. CASE ~o.booked
    <3>1. i \in DOMAIN sent /\ sent[i].booked
      BY <1>3, <2>2
    <3> QED
      BY <1>1, <1>5, <2>2, <3>1
  <2> QED
    BY <2>1, <2>2
<1>8. (\A i \in DOMAIN s : ~s[i].booked) => b = began
  <2> SUFFICES ASSUME \A i \in DOMAIN s : ~s[i].booked PROVE b = began
    OBVIOUS
  <2>1. ~o.booked /\ ~booked
    BY <1>3
  <2> QED
    BY <1>1, <1>5, <2>1
<1>9. Len(s) = 1 => s[1].acct \in {<<>>, b}
  <2> SUFFICES ASSUME Len(s) = 1 PROVE s[1].acct \in {<<>>, b}
    OBVIOUS
  <2>1. s[1] = o
    BY <1>2, <1>3
  <2>2. o.acct \in {<<>>, b}
    BY <1>1
  <2> QED
    BY <2>1, <2>2
<1>10. sent' = s /\ acct' = b
  BY <1>1
<1> HIDE DEF s
<1> QED
  BY <1>4, <1>7, <1>8, <1>9, <1>10

LEMMA BeganTypedStep ==
  ASSUME DeploymentInv, PassTyped, BeganTyped, [Next]_vars
  PROVE  BeganTyped'
<1>1. instrument' = instrument
  BY DEF vars, config, Next, Begin, Infer, RiskGuard, DeployBegin, DeployEnd, Desks, Ask, Arbitrate,
     Raise, Execute, PlaceNext, Synthesize, Audit, Reset
<1>2. began' \in {began, acct, <<>>}
  BY DEF vars, config, Next, Begin, Infer, RiskGuard, DeployBegin, DeployEnd, Desks, Ask, Arbitrate,
     Raise, Execute, PlaceNext, Synthesize, Audit, Reset
<1> QED
  BY <1>1, <1>2 DEF BeganTyped, PassTyped, Sane

LEMMA AccountInvStep ==
  ASSUME FeesAreCharged, DeploymentInv, PassTyped, OrdersTyped, ReportInv, AccountInv, BeganTyped,
         [Next]_vars
  PROVE  AccountInv'
<1>1. pass \in PassRecord /\ pass.vetoed \in BOOLEAN
  BY DEF PassTyped, PassRecord
<1>2. instrument' = instrument
  BY DEF vars, config, Next, Begin, Infer, RiskGuard, DeployBegin, DeployEnd, Desks, Ask, Arbitrate,
     Raise, Execute, PlaceNext, Synthesize, Audit, Reset
<1>3. CASE /\ UNCHANGED <<stage, sent, acct, began>>
           /\ pass'.vetoed = pass.vetoed /\ pass'.now = pass.now
  BY <1>2, <1>3 DEF AccountInv, Worth, Explained
<1>4. CASE stage' = "idle"
  BY <1>4 DEF AccountInv
<1>5. CASE /\ UNCHANGED <<acct, began>> /\ stage \in {"desks", "ask", "infer", "guard"}
           /\ stage' \in {"desks", "ask", "infer", "guard", "execute"}
  BY <1>5 DEF AccountInv
<1>6. CASE DeployBegin
  <2>1. pass' \in {pass, [pass EXCEPT !.clean = FALSE]} /\ UNCHANGED <<stage, sent, acct, began>>
    BY <1>6 DEF DeployBegin
  <2>2. pass'.vetoed = pass.vetoed /\ pass'.now = pass.now
    BY <1>1, <2>1 DEF PassRecord
  <2> QED
    BY <1>3, <2>1, <2>2
<1>7. ASSUME NEW px \in Price, Begin(px)
      PROVE  AccountInv'
  BY <1>7 DEF Begin, AccountInv
<1>8. ASSUME NEW kill \in BOOLEAN, RiskGuard(kill)
      PROVE  AccountInv'
  <2>1. /\ stage = "guard" /\ stage' \in {"audit", "execute"}
        /\ UNCHANGED <<acct, began>> /\ sent' = <<>> /\ pass'.vetoed = kill
        /\ stage' = "audit" => kill
    BY <1>1, <1>8 DEF RiskGuard, OrdersTyped, PassRecord
  <2>2. began # <<>> => acct = began
    BY <2>1 DEF AccountInv
  <2> QED
    BY <2>1, <2>2 DEF AccountInv
<1>9. CASE Execute
  <2>1. /\ stage = "execute" /\ stage' = "orders" /\ UNCHANGED <<acct, began>> /\ sent' = <<>>
        /\ pass'.now = acct
    BY <1>1, <1>9 DEF Execute, OrdersTyped, PassRecord
  <2>2. began # <<>> => acct = began
    BY <2>1 DEF AccountInv
  <2> QED
    BY <2>1, <2>2 DEF AccountInv
<1>10. ASSUME stage = "orders", began' = began, pass' = pass, stage' \in {"orders", "audit"},
              \/ acct' = acct /\ sent' = sent
              \/ \E side \in {"buy", "sell"}, q \in Nat \ {0}, synth \in BOOLEAN : Send(side, q, synth)
       PROVE  AccountInv'
  <2>1. pass.vetoed = FALSE
    BY <1>1, <1>10 DEF ReportInv
  <2>2. CASE began = <<>>
    BY <1>10, <2>2 DEF AccountInv
  <2>3. CASE acct' = acct /\ sent' = sent
    BY <1>2, <1>10, <2>3 DEF AccountInv, Worth, Explained
  <2>4. ASSUME began # <<>>, NEW side \in {"buy", "sell"}, NEW q \in Nat \ {0},
               NEW synth \in BOOLEAN, Send(side, q, synth)
        PROVE  AccountInv'
    <3>1. PICK s, b :
           /\ sent' = s /\ acct' = b /\ s # <<>>
           /\ (\E i \in DOMAIN s : s[i].booked) => Worth(b) < Worth(began)
           /\ (\A i \in DOMAIN s : ~s[i].booked) => b = began
           /\ Len(s) = 1 => s[1].acct \in {<<>>, b}
      BY <1>10, <2>1, <2>4, SentKeepsAccount
    <3>2. Worth(acct)' = Worth(b) /\ Worth(began)' = Worth(began)
      BY <1>2, <1>10, <3>1 DEF Worth, Explained
    <3> QED
      BY <1>10, <3>1, <3>2 DEF AccountInv
  <2> QED
    BY <1>10, <2>2, <2>3, <2>4
<1>11. CASE PlaceNext
  <2>1. PICK side \in {"buy", "sell"}, q \in Nat :
               IF q = 0 THEN acct' = acct /\ sent' = sent
               ELSE q \in Nat \ {0} /\ Send(side, q, FALSE)
    BY <1>11, Places
  <2>2. stage = "orders" /\ began' = began /\ pass' = pass /\ stage' = stage
    BY <1>11 DEF PlaceNext
  <2> QED
    BY <1>10, <2>1, <2>2
<1>12. CASE Synthesize
  <2>1. \/ acct' = acct /\ sent' = sent
        \/ \E side \in {"buy", "sell"}, q \in Nat \ {0} : Send(side, q, TRUE)
    BY <1>12, Makes
  <2>2. stage = "orders" /\ began' = began /\ pass' = pass /\ stage' = "audit"
    BY <1>12 DEF Synthesize
  <2> QED
    BY <1>10, <2>1, <2>2
<1>13. CASE Reset
  BY <1>13 DEF Reset, AccountInv
<1> QED
  BY <1>3, <1>4, <1>5, <1>6, <1>7, <1>8, <1>9, <1>11, <1>12, <1>13 DEF Next, vars, Infer,
     DeployEnd, Desks, Ask, Arbitrate, Raise, Audit

-----------------------------------------------------------------------------
(* An order that is sent within the limits is justified.                    *)
LEMMA SendsJustified ==
  ASSUME DeploymentInv, PassTyped, NEW side \in {"buy", "sell"}, NEW q \in Nat \ {0},
         NEW synth \in BOOLEAN,
         IF instrument = "spot" /\ side = "sell" THEN q <= pass.now.qty
         ELSE Notional(q, pass.px) <= Cap,
         Notional(q, pass.px) <= Cap \/ synth,
         NEW o \in SentOrder,
         o.side = side, o.qty = q, o.synth = synth,
         o.booked = Fill(side, q, pass.px).ok, o.current = (acct = pass.now)
  PROVE  Justified(o)
<1>1. Notional(o.qty, pass.px) <= Cap \/ (SpotSale(o) /\ o.synth)
  BY DEF SpotSale
<1>2. SpotSale(o) => o.qty <= pass.now.qty
  BY DEF SpotSale
<1>3. ASSUME CapsLeaveFees, ~o.booked, o.current
      PROVE  instrument = "perp" /\ 0 < Against(o) /\ Against(o) < o.qty
  <2> DEFINE against == IF side = "buy" THEN -pass.now.qty ELSE pass.now.qty
  <2>1. acct = pass.now /\ ~Fill(side, q, pass.px).ok
    BY <1>3
  <2>2. against = (IF side = "buy" THEN -pass.now.qty ELSE pass.now.qty)
    OBVIOUS
  <2>3. Against(o) = against
    BY DEF Against
  <2> HIDE DEF against
  <2>4. \/ Fill(side, q, pass.px).ok
        \/ instrument = "perp" /\ 0 < against /\ against < q
    BY <1>3, <2>1, <2>2, SizedOrdersFill
  <2> QED
    BY <2>1, <2>3, <2>4
<1> QED
  BY <1>1, <1>2, <1>3 DEF Justified

(* The plan of a pass without LLM is one order of the intent, or none.      *)
LEMMA MandateOfPlan ==
  ASSUME PassTyped, OrdersTyped, Execute
  PROVE  /\ stage' = "orders" /\ sent' = <<>>
         /\ ~pass'.llm => /\ Len(plan') <= 1 /\ Len(plan') \in Nat
                          /\ \A i \in DOMAIN plan' : /\ pass'.action \in Directional
                                                     /\ plan'[i].side = Side(pass'.action)
<1>1. /\ stage = "execute" /\ stage' = "orders" /\ sent' = <<>>
      /\ pass' = [pass EXCEPT !.now = acct, !.llm = deploy.synthesis]
      /\ plan' \in IF deploy.synthesis THEN LlmOrders
                   ELSE IF pass.action \notin Directional THEN {<<>>}
                   ELSE {<<[side |-> Side(pass.action), qty |-> Probe]>>}
  BY DEF Execute, OrdersTyped
<1>2. pass'.llm = deploy.synthesis /\ pass'.action = pass.action
  BY <1>1 DEF PassTyped, PassRecord
<1>3. CASE deploy.synthesis
  BY <1>1, <1>2, <1>3
<1>4. CASE ~deploy.synthesis /\ pass.action \notin Directional
  <2>1. plan' = <<>>
    BY <1>1, <1>4
  <2>2. Len(plan') = 0 /\ DOMAIN plan' = {}
    BY <2>1
  <2> QED
    BY <1>1, <2>2
<1>5. CASE ~deploy.synthesis /\ pass.action \in Directional
  <2> DEFINE o == [side |-> Side(pass.action), qty |-> Probe]
  <2>1. plan' = <<o>> /\ o.side = Side(pass.action)
    BY <1>1, <1>5
  <2> HIDE DEF o
  <2>2. Len(plan') = 1 /\ \A i \in DOMAIN plan' : plan'[i] = o
    BY <2>1
  <2> QED
    BY <1>1, <1>2, <1>5, <2>1, <2>2
<1> QED
  BY <1>3, <1>4, <1>5

(* Orders stay justified as long as the pass is the same.                   *)
LEMMA StillJustified ==
  ASSUME instrument' = instrument, pass' = pass, NEW s, sent' = s,
         \A i \in DOMAIN s : Justified(s[i])
  PROVE  (\A i \in DOMAIN sent : Justified(sent[i]))'
<1> DEFINE cap == Cap
           now == pass.now
           px == pass.px
<1>1. Cap' = cap /\ pass'.now = now /\ pass'.px = px
  BY DEF Cap, Lev, Least0, Least
<1>2. \A i \in DOMAIN s :
        /\ Notional(s[i].qty, px) <= cap \/ (SpotSale(s[i]) /\ s[i].synth)
        /\ SpotSale(s[i]) => s[i].qty <= now.qty
        /\ CapsLeaveFees =>
             \/ s[i].booked \/ ~s[i].current
             \/ instrument = "perp" /\ 0 < Against(s[i]) /\ Against(s[i]) < s[i].qty
  BY DEF Justified
<1> HIDE DEF cap, now, px
<1>3. \A i \in DOMAIN s : SpotSale(s[i])' = SpotSale(s[i]) /\ Against(s[i])' = Against(s[i])
  BY DEF SpotSale, Against
<1> QED
  BY <1>1, <1>2, <1>3 DEF Justified, SpotSale, Against

LEMMA OrdersMandated ==
  ASSUME instrument' = instrument, pass' = pass, stage' = "orders",
         NEW s, sent' = s, NEW p, plan' = p,
         \A i \in DOMAIN s : Justified(s[i]) /\ ~s[i].synth,
         ~pass.llm => /\ Len(p) + Len(s) <= 1
                      /\ \A i \in DOMAIN p : Mandated(p[i])
                      /\ \A i \in DOMAIN s : Mandated(s[i])
  PROVE  MandateInv'
<1>1. (\A i \in DOMAIN sent : Justified(sent[i]))'
  BY StillJustified
<1>2. \A i \in DOMAIN sent' : ~sent'[i].synth
  OBVIOUS
<1>3. ~pass'.llm => /\ Len(plan') + Len(sent') <= 1
                    /\ (\A i \in DOMAIN plan : Mandated(plan[i]))'
                    /\ (\A i \in DOMAIN sent : Mandated(sent[i]))'
  BY DEF Mandated
<1>4. UnsoldForCause'
  BY DEF UnsoldForCause
<1> QED
  BY <1>1, <1>2, <1>3, <1>4 DEF MandateInv

LEMMA PlaceKeepsMandate ==
  ASSUME DeploymentInv, PassTyped, OrdersTyped, MandateInv, PlaceNext
  PROVE  MandateInv'
<1>1. PICK side \in {"buy", "sell"}, q \in Nat :
              /\ side = Head(plan).side /\ q = Clamp(side, Head(plan).qty)
              /\ IF q = 0 THEN acct' = acct /\ sent' = sent
                 ELSE q \in Nat \ {0} /\ Send(side, q, FALSE)
  BY Places
<1>2. /\ Head(plan) \in Order /\ plan' = Tail(plan) /\ stage = "orders"
      /\ Tail(plan) \in Seq(Order) /\ Len(Tail(plan)) = Len(plan) - 1 /\ Len(plan) \in Nat
  BY Places
<1>3. stage' = stage /\ pass' = pass /\ instrument' = instrument /\ report' = report
  BY DEF PlaceNext, config
<1>4. /\ plan \in Seq(Order) /\ sent \in Seq(SentOrder) /\ plan # <<>> /\ Len(sent) \in Nat
  BY DEF OrdersTyped, PlaceNext
<1>5. /\ \A i \in DOMAIN sent : Justified(sent[i]) /\ ~sent[i].synth
      /\ ~pass.llm => /\ Len(plan) + Len(sent) <= 1
                      /\ \A i \in DOMAIN plan : Mandated(plan[i])
                      /\ \A i \in DOMAIN sent : Mandated(sent[i])
  BY <1>2 DEF MandateInv
<1>6. ~pass.llm => /\ Len(Tail(plan)) = 0 /\ Len(sent) = 0 /\ Mandated(Head(plan))
  BY <1>2, <1>4, <1>5
<1>7. ~pass.llm => \A i \in DOMAIN plan' : FALSE
  BY <1>2, <1>6
<1> DEFINE p == Tail(plan)
<1>8. CASE q = 0
  <2>1. sent' = sent /\ plan' = p
    BY <1>1, <1>2, <1>8
  <2>2. ~pass.llm => /\ Len(p) + Len(sent) <= 1
                     /\ \A i \in DOMAIN p : Mandated(p[i])
                     /\ \A i \in DOMAIN sent : Mandated(sent[i])
    BY <1>2, <1>4, <1>5, <1>6, <1>7
  <2> HIDE DEF p
  <2> QED
    BY <1>2, <1>3, <1>5, <2>1, <2>2, OrdersMandated
<1>9. CASE q # 0
  <2> DEFINE synth == FALSE
  <2>1. q \in Nat \ {0} /\ synth \in BOOLEAN /\ Send(side, q, synth) /\ ~synth
    BY <1>1, <1>9
  <2> HIDE DEF synth
  <2>2. PICK o \in SentOrder, b \in Account :
           /\ sent' = Append(sent, o)
           /\ o.side = side /\ o.qty = q /\ o.synth = synth
           /\ o.booked = Fill(side, q, pass.px).ok /\ o.current = (acct = pass.now)
    BY <2>1, Sends
  <2>3. /\ Notional(q, pass.px) <= Cap
        /\ instrument = "spot" /\ side = "sell" => q <= pass.now.qty
    <3> DEFINE n == Head(plan).qty
    <3>1. n \in Nat
      BY <1>2 DEF Order
    <3>2. q = Clamp(side, n)
      BY <1>1
    <3> HIDE DEF n
    <3>3. /\ Notional(q, pass.px) <= Cap
          /\ instrument = "spot" /\ side = "sell" => q <= Least0(pass.now.qty)
      BY <3>1, <3>2, Clamps DEF PassTyped, DeploymentInv
    <3>4. pass.now.qty \in Int
      BY DEF PassTyped, PassRecord, Account
    <3>5. q <= Least0(pass.now.qty) => q <= pass.now.qty
      BY <2>1, <3>4 DEF Least0
    <3> QED
      BY <3>3, <3>5
  <2>4. Justified(o)
    BY <2>1, <2>2, <2>3, SendsJustified
  <2> DEFINE s == Append(sent, o)
  <2>5. /\ \A i \in DOMAIN s : (i \in DOMAIN sent /\ s[i] = sent[i]) \/ s[i] = o
        /\ Len(s) = Len(sent) + 1 /\ DOMAIN s = 1..(Len(sent) + 1) /\ s[Len(sent) + 1] = o
    BY <1>4
  <2> HIDE DEF s
  <2>6. \A i \in DOMAIN s : Justified(s[i]) /\ ~s[i].synth
    BY <1>5, <2>1, <2>2, <2>4, <2>5
  <2>7. Mandated(o) \/ pass.llm
    BY <1>1, <1>6, <2>2 DEF Mandated
  <2>8. ~pass.llm => /\ Len(p) + Len(s) <= 1
                     /\ \A i \in DOMAIN p : Mandated(p[i])
                     /\ \A i \in DOMAIN s : Mandated(s[i])
    <3> SUFFICES ASSUME ~pass.llm
                 PROVE  /\ Len(p) + Len(s) <= 1
                        /\ \A i \in DOMAIN p : Mandated(p[i])
                        /\ \A i \in DOMAIN s : Mandated(s[i])
      OBVIOUS
    <3>1. Len(p) + Len(s) <= 1
      <4>1. Len(p) = 0 /\ Len(sent) = 0 /\ Len(s) = Len(sent) + 1
        BY <1>6, <2>5
      <4> HIDE DEF p
      <4> QED
        BY <4>1
    <3>2. \A i \in DOMAIN p : Mandated(p[i])
      BY <1>2, <1>7
    <3>3. \A i \in DOMAIN s : s[i] = o
      BY <1>4, <1>6, <2>5
    <3> QED
      BY <2>7, <3>1, <3>2, <3>3
  <2>9. sent' = s /\ plan' = p
    BY <1>2, <2>2 DEF s
  <2> HIDE DEF p
  <2> QED
    BY <1>2, <1>3, <2>6, <2>8, <2>9, OrdersMandated
<1> QED
  BY <1>8, <1>9

-----------------------------------------------------------------------------
(* The end of the loop over the orders.                                     *)
LEMMA OrdersAudited ==
  ASSUME instrument' = instrument, pass' = pass, stage' = "audit",
         NEW s, sent' = s, report' = Written(s),
         \A i \in DOMAIN s : Justified(s[i]),
         s # <<>> /\ (~pass.llm \/ s[1].synth) => Len(s) = 1 /\ Mandated(s[1]),
         pass.action = "SELL" /\ pass.now.qty > 0 /\ s = <<>> /\ LotsAreSmall =>
           Cap < MinNotional * Unit \/ TooSmall(pass.now.qty, pass.px)
  PROVE  MandateInv'
<1>1. (\A i \in DOMAIN sent : Justified(sent[i]))'
  BY StillJustified
<1>2. Mandated(sent[1])' <=> Mandated(s[1])
  BY DEF Mandated
<1>3. UnsoldForCause'
  <2>1. report'.unsold <=> pass.action = "SELL" /\ pass.now.qty > 0 /\ s = <<>>
    BY DEF Written
  <2> DEFINE small == TooSmall(pass.now.qty, pass.px)
             cap == Cap
  <2>2. Cap' = cap /\ (TooSmall(pass.now.qty, pass.px))' = small
    BY DEF Cap, Lev, Least0, Least, TooSmall, Notional
  <2>3. report'.unsold /\ LotsAreSmall => cap < MinNotional * Unit \/ small
    BY <2>1
  <2> HIDE DEF small, cap
  <2>4. LotsAreSmall' <=> LotsAreSmall
    BY DEF LotsAreSmall
  <2> QED
    BY <2>2, <2>3, <2>4 DEF UnsoldForCause
<1> QED
  BY <1>1, <1>2, <1>3 DEF MandateInv

LEMMA SynthesizeKeepsMandate ==
  ASSUME DeploymentInv, PassTyped, OrdersTyped, MandateInv, Synthesize
  PROVE  MandateInv'
<1>1. /\ stage = "orders" /\ plan = <<>> /\ pass.action \in {"BUY", "SELL", "HOLD"}
      /\ report' = Written(sent') /\ stage' = "audit" /\ pass' = pass /\ instrument' = instrument
  BY Makes DEF Synthesize, config
<1>2. \/ /\ acct' = acct /\ sent' = sent
         /\ sent = <<>> /\ pass.action \in Directional => Synthesized(pass.action) = 0
      \/ \E side \in {"buy", "sell"}, q \in Nat \ {0} :
           /\ sent = <<>> /\ pass.action \in Directional
           /\ side = Side(pass.action) /\ q = Synthesized(pass.action)
           /\ Send(side, q, TRUE)
  BY Makes
<1>3. /\ \A i \in DOMAIN sent : Justified(sent[i]) /\ ~sent[i].synth
      /\ ~pass.llm => /\ Len(plan) + Len(sent) <= 1
                      /\ \A i \in DOMAIN sent : Mandated(sent[i])
  BY <1>1 DEF MandateInv
<1>4. sent \in Seq(SentOrder) /\ Len(sent) \in Nat /\ Len(plan) = 0
  BY <1>1 DEF OrdersTyped
<1>5. instrument \in {"spot", "perp"} /\ pass \in PassRecord /\ Sane(pass.now) /\ pass.px \in Price
  BY <1>1 DEF DeploymentInv, PassTyped
<1>6. ASSUME sent' = sent,
             sent = <<>> /\ pass.action \in Directional => Synthesized(pass.action) = 0
      PROVE  MandateInv'
  <2>1. sent # <<>> /\ (~pass.llm \/ sent[1].synth) => Len(sent) = 1 /\ Mandated(sent[1])
    <3> SUFFICES ASSUME sent # <<>>, ~pass.llm \/ sent[1].synth
                 PROVE  Len(sent) = 1 /\ Mandated(sent[1])
      OBVIOUS
    <3>1. 1 \in DOMAIN sent /\ Len(sent) >= 1
      BY <1>4
    <3>2. ~pass.llm
      BY <1>3, <3>1
    <3>3. Mandated(sent[1])
      BY <1>3, <3>1, <3>2
    <3> DEFINE m == Len(plan)
               n == Len(sent)
    <3>4. m + n <= 1
      BY <1>3, <3>2
    <3>5. m = 0 /\ n \in Nat /\ n >= 1
      BY <1>4, <3>1
    <3>6. n = 1
      <4> HIDE DEF m, n
      <4> QED
        BY <3>4, <3>5
    <3>7. Len(sent) = 1
      BY <3>6
    <3> QED
      BY <3>3, <3>7
  <2>2. ASSUME pass.action = "SELL", pass.now.qty > 0, sent = <<>>, LotsAreSmall
        PROVE  Cap < MinNotional * Unit \/ TooSmall(pass.now.qty, pass.px)
    <3> DEFINE action == pass.action
               q == Synthesized(action)
    <3>1. action \in Directional /\ q = 0 /\ action = "SELL"
      BY <1>6, <2>2 DEF Directional
    <3>2. q = Synthesized(action)
      OBVIOUS
    <3> HIDE DEF q, action
    <3> QED
      BY <1>5, <2>2, <3>1, <3>2, Synthesizes
  <2> DEFINE s == sent
  <2>3. /\ sent' = s /\ report' = Written(s)
        /\ \A i \in DOMAIN s : Justified(s[i])
    BY <1>1, <1>3, <1>6
  <2>4. s # <<>> /\ (~pass.llm \/ s[1].synth) => Len(s) = 1 /\ Mandated(s[1])
    BY <2>1
  <2>5. pass.action = "SELL" /\ pass.now.qty > 0 /\ s = <<>> /\ LotsAreSmall =>
           Cap < MinNotional * Unit \/ TooSmall(pass.now.qty, pass.px)
    BY <2>2
  <2> HIDE DEF s
  <2> QED
    BY <1>1, <2>3, <2>4, <2>5, OrdersAudited
<1>7. ASSUME NEW side \in {"buy", "sell"}, NEW q \in Nat \ {0},
             sent = <<>>, pass.action \in Directional,
             side = Side(pass.action), q = Synthesized(pass.action),
             Send(side, q, TRUE)
      PROVE  MandateInv'
  <2> DEFINE synth == TRUE
             action == pass.action
  <2>1. synth \in BOOLEAN /\ Send(side, q, synth)
    BY <1>7
  <2> HIDE DEF synth, action
  <2>2. PICK o \in SentOrder, b \in Account :
           /\ sent' = Append(sent, o)
           /\ o.side = side /\ o.qty = q /\ o.synth = synth
           /\ o.booked = Fill(side, q, pass.px).ok /\ o.current = (acct = pass.now)
    BY <2>1, Sends
  <2>3. IF instrument = "spot" /\ action = "SELL" THEN q = pass.now.qty
        ELSE Notional(q, pass.px) <= Cap
    <3>1. action \in Directional /\ q = Synthesized(action) /\ q > 0
      BY <1>7 DEF action
    <3> QED
      BY <1>5, <3>1, Synthesizes
  <2>4. side = "sell" <=> action = "SELL"
    BY <1>7 DEF action, Side, Directional
  <2>5. IF instrument = "spot" /\ side = "sell" THEN q <= pass.now.qty
        ELSE Notional(q, pass.px) <= Cap
    BY <2>3, <2>4
  <2>6. Justified(o)
    <3>1. synth
      BY DEF synth
    <3> QED
      BY <2>1, <2>2, <2>5, <3>1, SendsJustified
  <2>7. Mandated(o)
    BY <1>7, <2>2 DEF Mandated
  <2> DEFINE s == <<o>>
  <2>8. sent' = s
    BY <1>7, <2>2
  <2>9. s # <<>> /\ Len(s) = 1 /\ s[1] = o /\ \A i \in DOMAIN s : s[i] = o
    OBVIOUS
  <2> HIDE DEF s
  <2>10. /\ report' = Written(s)
         /\ \A i \in DOMAIN s : Justified(s[i])
         /\ Len(s) = 1 /\ Mandated(s[1])
    BY <1>1, <2>6, <2>7, <2>8, <2>9
  <2> QED
    BY <1>1, <2>8, <2>9, <2>10, OrdersAudited
<1> QED
  BY <1>2, <1>6, <1>7

LEMMA MandateInvStep ==
  ASSUME DeploymentInv, PassTyped, OrdersTyped, ReportInv, MandateInv, [Next]_vars
  PROVE  MandateInv'
<1>1. pass \in PassRecord
  BY DEF PassTyped
<1>2. CASE UNCHANGED <<instrument, stage, pass, plan, sent, report>>
  <2>1. (\A i \in DOMAIN sent : Justified(sent[i]))'
    <3> DEFINE s == sent
    <3>1. sent' = s /\ \A i \in DOMAIN s : Justified(s[i])
      BY <1>2 DEF MandateInv
    <3> HIDE DEF s
    <3> QED
      BY <1>2, <3>1, StillJustified
  <2>2. UnsoldForCause'
    BY <1>2 DEF MandateInv, UnsoldForCause, Cap, Lev, Least0, Least, TooSmall, Notional, LotsAreSmall
  <2> QED
    BY <1>2, <2>1, <2>2 DEF MandateInv, Mandated
<1>3. CASE stage' \notin {"orders", "audit"} /\ sent' = <<>>
  <2>1. DOMAIN sent' = {}
    BY <1>3
  <2> QED
    BY <1>3, <2>1 DEF MandateInv, UnsoldForCause
<1>4. stage \notin {"orders", "audit"} => sent = <<>>
  BY DEF OrdersTyped
<1>5. ASSUME NEW kill \in BOOLEAN, RiskGuard(kill)
      PROVE  MandateInv'
  <2>1. sent' = <<>> /\ stage' \in {"audit", "execute"} /\ (stage' = "audit" => report'.unsold = FALSE)
    BY <1>4, <1>5 DEF RiskGuard, NoReport
  <2>2. DOMAIN sent' = {}
    BY <2>1
  <2> QED
    BY <2>1, <2>2 DEF MandateInv, UnsoldForCause
<1>6. CASE Execute
  <2>1. /\ stage' = "orders" /\ sent' = <<>>
        /\ ~pass'.llm => /\ Len(plan') <= 1 /\ Len(plan') \in Nat
                         /\ \A i \in DOMAIN plan' : /\ pass'.action \in Directional
                                                    /\ plan'[i].side = Side(pass'.action)
    BY <1>6, MandateOfPlan
  <2>2. DOMAIN sent' = {} /\ Len(sent') = 0
    BY <2>1
  <2> QED
    BY <2>1, <2>2 DEF MandateInv, UnsoldForCause, Mandated
<1>7. CASE DeployBegin
  <2>1. CASE stage \in {"desks", "ask", "infer"}
    <3>1. stage' = stage /\ sent' = sent
      BY <1>7 DEF DeployBegin
    <3> QED
      BY <1>3, <1>4, <2>1, <3>1
  <2>2. CASE stage \notin {"desks", "ask", "infer"}
    BY <1>2, <1>7, <2>2 DEF DeployBegin
  <2> QED
    BY <2>1, <2>2
<1>8. CASE PlaceNext
  BY <1>8, PlaceKeepsMandate
<1>9. CASE Synthesize
  BY <1>9, SynthesizeKeepsMandate
<1>10. CASE Raise \/ Audit
  <2>1. stage' = "idle" /\ sent' = <<>>
    BY <1>10 DEF Raise, Audit, Over
  <2> QED
    BY <1>3, <2>1
<1>11. ASSUME NEW px \in Price, Begin(px)
       PROVE  MandateInv'
  <2>1. stage' = "desks" /\ sent' = <<>>
    BY <1>4, <1>11 DEF Begin
  <2> QED
    BY <1>3, <2>1
<1>12. CASE Desks \/ Ask \/ Arbitrate
  <2>1. stage' \in {"ask", "infer", "guard"} /\ sent' = <<>>
    BY <1>4, <1>12 DEF Desks, Ask, Arbitrate
  <2> QED
    BY <1>3, <2>1
<1> QED
  BY <1>2, <1>5, <1>6, <1>7, <1>8, <1>9, <1>10, <1>11, <1>12 DEF Next, vars, config, Infer,
     DeployEnd, Reset

-----------------------------------------------------------------------------
(* All of it, in every reachable state.                                     *)
PassInv ==
  DeploymentInv /\ ContractsInv /\ PassTyped /\ OrdersTyped /\ CleanInv /\ ReportInv /\ MandateInv
  /\ BeganTyped

LEMMA PassInvInit == Init => PassInv
<1> SUFFICES ASSUME Init PROVE PassInv
  OBVIOUS
<1>1. DeploymentInv
  BY DEF Init, DeploymentInv
<1>2. ContractsInv
  BY UnreadTyped DEF Init, ContractsInv, Unasked
<1>3. stage = "idle" /\ plan = <<>> /\ sent = <<>> /\ began = <<>> /\ pass = Idle
  BY DEF Init
<1>4. PassTyped
  <2>1. acct = Flat(Start * Unit) /\ Sane(acct)
    BY FlatIsSane DEF Init
  <2>2. pass \in PassRecord /\ Sane(pass.now)
    BY <1>1, <1>3, IdleTyped DEF DeploymentInv
  <2> QED
    BY <1>3, <2>1, <2>2 DEF PassTyped, Stages
<1>5. OrdersTyped
  BY <1>3, Parameters DEF OrdersTyped
<1>6. CleanInv /\ BeganTyped
  BY <1>3 DEF CleanInv, BeganTyped
<1>7. ReportInv
  BY <1>3 DEF ReportInv, Idle
<1>8. MandateInv
  <2>1. DOMAIN sent = {}
    BY <1>3
  <2> QED
    BY <1>3, <2>1 DEF MandateInv, UnsoldForCause
<1> QED
  BY <1>1, <1>2, <1>4, <1>5, <1>6, <1>7, <1>8 DEF PassInv

LEMMA PassInvStep == PassInv /\ [Next]_vars => PassInv'
BY DeploymentInvStep, ContractsInvStep, PassTypedStep, OrdersTypedStep, CleanInvStep, ReportInvStep,
   MandateInvStep, BeganTypedStep DEF PassInv

LEMMA PassInvariant == Spec => []PassInv
BY PassInvInit, PassInvStep, PTL DEF Spec

(* A pass keeps its types, whatever desks and LLMs answer and whenever the  *)
(* API resets the account or writes the deployment: the account is that of  *)
(* PaperTrading, a spot account never owes and is never short, confidences  *)
(* are in range, and orders have a side and a quantity.                     *)
THEOREM PassTypes == Spec => []TypeOK
<1>1. ASSUME PassInv
      PROVE  TypeOK
  <2>1. pass \in PassRecord /\ stage \in Stages /\ Sane(acct)
    BY <1>1 DEF PassInv, PassTyped
  <2>2. pass.action \in {"BUY", "SELL", "HOLD"} /\ pass.conf \in Parts /\ pass.cap \in Nat
    BY <2>1 DEF PassRecord
  <2>3. pass.conf \in 0..10000
    BY <2>2, PartsAre
  <2>4. /\ sent \in Seq(SentOrder) /\ plan \in Seq(Order)
        /\ Len(plan) + Len(sent) <= MaxOrders + 1
    BY <1>1 DEF PassInv, OrdersTyped
  <2>5. \A i \in DOMAIN sent : sent[i].qty \in Nat \ {0} /\ sent[i].side \in {"buy", "sell"}
    <3>1. \A i \in DOMAIN sent : sent[i] \in SentOrder
      BY <2>4
    <3> QED
      BY <3>1 DEF SentOrder
  <2>6. acct \in Account /\ (instrument = "spot" => acct.cash >= 0 /\ acct.qty >= 0)
    BY <2>1 DEF Sane
  <2>7. /\ instrument \in {"spot", "perp"} /\ deploy \in Deployment \cup {Unreadable}
        /\ writing => deploy = Unreadable
    BY <1>1 DEF PassInv, DeploymentInv
  <2>8. \A a \in Agent : desk[a] \in Contract(a) \cup {Absent(a)}
    BY <1>1 DEF PassInv, ContractsInv
  <2>9. stage \in {"idle", "desks", "ask", "infer", "guard", "execute", "orders", "audit"}
    BY <2>1 DEF Stages
  <2> QED
    BY <2>2, <2>3, <2>4, <2>5, <2>6, <2>7, <2>8, <2>9 DEF TypeOK
<1> QED
  BY <1>1, PassInvariant, PTL

-----------------------------------------------------------------------------
(* The gate.                                                                *)
LEMMA LeadIsBacked ==
  ASSUME DeploymentInv, ContractsInv, NEW action \in Directional,
         NEW c, c = Ballots(Merged, Weights(deploy)), TaLeads(c, Shock(Merged), action)
  PROVE  TaBacks(action)
<1>1. /\ DOMAIN c = DOMAIN Weights(deploy)
      /\ \A a \in DOMAIN c : c[a].score = Merged[a].score /\ c[a].ok = Merged[a].ok
  BY BallotsTyped
<1>2. Heard = Merged
  BY HeardIsMerged
<1>3. /\ TaDesk \in DOMAIN c /\ c[TaDesk].ok
      /\ IF action = "BUY" THEN ~Shock(Merged) /\ c[TaDesk].score >= TaBuy
         ELSE c[TaDesk].score <= TaSell
  BY DEF TaLeads, Enabled
<1> DEFINE m == Merged
<1>4. /\ TaDesk \in DOMAIN Weights(deploy) /\ m[TaDesk].ok
      /\ IF action = "BUY" THEN m[TaDesk].score >= TaBuy /\ ~Shock(m)
         ELSE m[TaDesk].score <= TaSell
  BY <1>1, <1>3
<1>5. Heard = m
  BY <1>2
<1> HIDE DEF m
<1> QED
  BY <1>4, <1>5 DEF TaBacks

LEMMA ArbitrateIsGated ==
  ASSUME DeploymentInv, ContractsInv, PassTyped, Arbitrate
  PROVE  Gated
<1> DEFINE c == Ballots(Merged, Weights(deploy))
           shock == Shock(Merged)
           e == Decision(c, shock)
<1>1. PICK overlay \in Overlays :
         pass' = [pass EXCEPT !.overlay = overlay, !.conf = Overlay(e, overlay).conf,
                              !.action = IntentAction(Overlay(e, overlay), MinConf),
                              !.nodes = {}, !.asked = {}, !.clean = TRUE]
  BY DEF Arbitrate
<1> DEFINE d == Overlay(e, overlay)
<1>2. pass \in PassRecord
  BY DEF PassTyped
<1>3. pass'.overlay = overlay /\ pass'.conf = d.conf /\ pass'.action = IntentAction(d, MinConf)
  BY <1>1, <1>2 DEF PassRecord
<1>4. \A action \in Directional : TaLeads(c, shock, action) => TaBacks(action)
  BY LeadIsBacked
<1>5. Ballots(Heard, Weights(deploy)) = c
  BY HeardIsMerged
<1>6. d = Overlay(e, overlay) /\ e = Decision(c, shock)
  OBVIOUS
<1> HIDE DEF c, shock, e, d
<1>7. DOMAIN e = {"action", "conf", "gated"}
  BY <1>6 DEF Decision
<1> SUFFICES ASSUME pass'.action \in Directional
             PROVE  /\ pass'.conf >= 100 * MinConf
                    /\ \/ GlobalGate(c) = pass'.action /\ ~Blocked(c)
                       \/ TaBacks(pass'.action)
                       \/ /\ pass'.overlay.action = pass'.action
                          /\ Blocked(c) => \E action \in Directional : TaBacks(action)
  BY <1>5 DEF Gated
<1>8. d.conf >= 100 * MinConf /\ d.action \in Directional /\ pass'.action = d.action
  BY <1>3 DEF IntentAction, Directional
<1>9. CASE overlay = NoAnswer
  <2>1. d = e
    BY <1>6, <1>9 DEF Overlay
  <2>2. CASE \E action \in Directional : TaLeads(c, shock, action) /\ e.action = action
    BY <1>3, <1>4, <1>8, <2>1, <2>2
  <2>3. CASE ~\E action \in Directional : TaLeads(c, shock, action) /\ e.action = action
    <3>1. e.action = AlignedGate(c)
      BY <1>6, <2>3 DEF Decision, Directional
    <3>2. GlobalGate(c) = e.action /\ ~Blocked(c)
      BY <1>8, <2>1, <3>1 DEF AlignedGate, Directional
    <3> QED
      BY <1>3, <1>8, <2>1, <3>2
  <2> QED
    BY <2>2, <2>3
<1>10. CASE overlay # NoAnswer
  <2>1. d.action = (IF e.gated THEN "HOLD" ELSE overlay.action)
    BY <1>6, <1>7, <1>10 DEF Overlay
  <2>2. ~e.gated /\ overlay.action = pass'.action
    BY <1>8, <2>1 DEF Directional
  <2>3. Blocked(c) => \E action \in Directional : TaLeads(c, shock, action)
    BY <1>6, <2>2 DEF Decision, Directional
  <2> QED
    BY <1>3, <1>4, <1>8, <2>2, <2>3
<1> QED
  BY <1>9, <1>10

(* A direction has a gate behind it (DecisionsAreGated): for all gates,     *)
(* weights, deployments and answers, and wherever the API writes the        *)
(* deployment between the steps of the pass, weighted_arbitrator_node       *)
(* decides on nothing that the desks and the policy do not support.         *)
THEOREM DecisionsHaveGates == Spec => DecisionsAreGated
<1>1. ASSUME PassInv, [Next]_vars, stage = "infer", stage' = "guard"
      PROVE  /\ Gated
             /\ pass.clean /\ Weighted => DOMAIN Weights(deploy) \cup pass.asked \subseteq pass.nodes
  <2>1. Arbitrate
    BY <1>1 DEF Next, vars, Begin, Infer, RiskGuard, DeployBegin, DeployEnd, Desks, Ask, Raise,
       Execute, PlaceNext, Synthesize, Audit, Reset
  <2>2. Gated
    BY <1>1, <2>1, ArbitrateIsGated DEF PassInv
  <2>3. ASSUME pass.clean, Weighted
        PROVE  DOMAIN Weights(deploy) \cup pass.asked \subseteq pass.nodes
    <3>1. pass.nodes = Nodes(deploy) /\ pass.asked = LlmDesks(deploy)
      BY <1>1, <2>3 DEF PassInv, CleanInv
    <3>2. DOMAIN Weights(deploy) \subseteq Nodes(deploy) /\ LlmDesks(deploy) \subseteq Nodes(deploy)
      BY <1>1, <2>3, WeightsTyped DEF PassInv, DeploymentInv
    <3> QED
      BY <3>1, <3>2
  <2> QED
    BY <2>2, <2>3
<1> QED
  BY <1>1, PassInvariant, PTL DEF Spec, DecisionsAreGated

-----------------------------------------------------------------------------
(* The report of a pass is true, whenever the API resets the account, if an *)
(* order costs a fee: without one, a purchase and a sale at one price would *)
(* leave the account as it was.                                             *)
THEOREM ReportsAreTrue == ASSUME FeesAreCharged PROVE Spec => []ReportIsTrue
<1>1. Init => AccountInv
  BY DEF Init, AccountInv
<1>2. PassInv /\ AccountInv /\ [Next]_vars => AccountInv'
  BY AccountInvStep DEF PassInv
<1>3. Spec => [](PassInv /\ AccountInv)
  BY <1>1, <1>2, PassInvInit, PassInvStep, PTL DEF Spec
<1>4. ASSUME PassInv, AccountInv
      PROVE  ReportIsTrue
  <2> SUFFICES ASSUME stage = "audit", began # <<>>
               PROVE  /\ (report.status = "executed") = (acct # began)
                      /\ report.single /\ report.acct # <<>> => report.acct = acct
    BY DEF ReportIsTrue
  <2>1. /\ (\E i \in DOMAIN sent : sent[i].booked) => Worth(acct) < Worth(began)
        /\ (\A i \in DOMAIN sent : ~sent[i].booked) => acct = began
        /\ ~pass.vetoed => /\ sent = <<>> => pass.now = acct
                           /\ Len(sent) = 1 => sent[1].acct \in {<<>>, acct}
    BY <1>4 DEF AccountInv
  <2>2. Worth(acct) \in Int
    BY <1>4 DEF PassInv, PassTyped, DeploymentInv, Sane, Worth, Explained, Account
  <2>3. (\E i \in DOMAIN sent : sent[i].booked) <=> acct # began
    BY <2>1, <2>2
  <2>4. CASE pass.vetoed
    <3>1. sent = <<>> /\ report.status = "skipped" /\ report.acct = <<>>
      BY <1>4, <2>4 DEF PassInv, ReportInv, NoReport
    <3>2. DOMAIN sent = {}
      BY <3>1
    <3> QED
      BY <2>3, <3>1, <3>2
  <2>5. CASE ~pass.vetoed
    <3>1. report = Written(sent)
      BY <1>4, <2>5 DEF PassInv, ReportInv
    <3>2. /\ report.status = "executed" <=> \E i \in DOMAIN sent : sent[i].booked
          /\ report.acct = (IF sent = <<>> THEN pass.now ELSE sent[1].acct)
          /\ report.single <=> Len(sent) <= 1
      BY <3>1 DEF Written
    <3>3. report.single /\ sent # <<>> => Len(sent) = 1
      <4> DEFINE n == Len(sent)
      <4>1. sent \in Seq(SentOrder)
        BY <1>4 DEF PassInv, OrdersTyped
      <4>2. n \in Nat /\ (sent # <<>> => n # 0)
        BY <4>1
      <4>3. report.single <=> n <= 1
        BY <3>2
      <4> HIDE DEF n
      <4>4. report.single /\ sent # <<>> => n = 1
        BY <4>2, <4>3
      <4> QED
        BY <4>4 DEF n
    <3> QED
      BY <2>1, <2>3, <2>5, <3>2, <3>3
  <2> QED
    BY <2>4, <2>5
<1> QED
  BY <1>3, <1>4, PTL

(* Each order of a pass is within its limits, has a mandate, and fails for  *)
(* a cause only, and so does a sale that is not made (OrdersAreJustified):  *)
(* for every order an LLM may ask for, and wherever the account is reset,   *)
(* if the caps leave the cash for margin and fee and a lot costs no more    *)
(* than the smallest order.                                                 *)
THEOREM OrdersHaveCause ==
  ASSUME CapsLeaveFees, LotsAreSmall
  PROVE  Spec => []OrdersAreJustified
<1>1. ASSUME PassInv
      PROVE  OrdersAreJustified
  <2>1. \A i \in DOMAIN sent : Justified(sent[i])
    BY <1>1 DEF PassInv, MandateInv
  <2>2. pass.vetoed => sent = <<>>
    BY <1>1 DEF PassInv, ReportInv
  <2>3. sent \in Seq(SentOrder)
    BY <1>1 DEF PassInv, OrdersTyped
  <2>4. ASSUME sent # <<>>, ~pass.llm \/ sent[1].synth
        PROVE  Len(sent) = 1 /\ pass.action \in Directional /\ sent[1].side = Side(pass.action)
    <3>1. 1 \in DOMAIN sent /\ Len(sent) >= 1
      BY <2>3, <2>4
    <3>2. CASE stage = "audit"
      BY <1>1, <2>4, <3>2 DEF PassInv, MandateInv, Mandated
    <3>3. CASE stage = "orders"
      <4>1. /\ ~pass.llm
            /\ Len(plan) + Len(sent) <= 1 /\ Mandated(sent[1])
        BY <1>1, <2>4, <3>1, <3>3 DEF PassInv, MandateInv
      <4> DEFINE m == Len(plan)
                 n == Len(sent)
      <4>2. m + n <= 1
        BY <4>1
      <4>3. m \in Nat /\ n \in Nat /\ n >= 1
        BY <1>1, <2>3, <3>1 DEF PassInv, OrdersTyped
      <4>4. n = 1
        <5> HIDE DEF m, n
        <5> QED
          BY <4>2, <4>3
      <4>5. Len(sent) = 1
        BY <4>4
      <4> QED
        BY <4>1, <4>5 DEF Mandated
    <3> QED
      BY <1>1, <2>4, <3>2, <3>3 DEF PassInv, OrdersTyped
  <2>5. OrdersAreSound
    BY <2>1, <2>2, <2>4 DEF OrdersAreSound, Justified, SpotSale
  <2>6. OrdersFailForCause
    <3>1. stage = "audit" /\ report.unsold =>
             Cap < MinNotional * Unit \/ TooSmall(pass.now.qty, pass.px)
      BY <1>1 DEF PassInv, MandateInv, UnsoldForCause
    <3>2. ASSUME NEW i \in DOMAIN sent
          PROVE  \/ sent[i].booked \/ ~sent[i].current
                 \/ instrument = "perp" /\ 0 < Against(sent[i]) /\ Against(sent[i]) < sent[i].qty
      BY <2>1 DEF Justified
    <3> QED
      BY <3>1, <3>2 DEF OrdersFailForCause, Against
  <2> QED
    BY <2>5, <2>6 DEF OrdersAreJustified
<1> QED
  BY <1>1, PassInvariant, PTL

=============================================================================
