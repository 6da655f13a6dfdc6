------------------------------ MODULE Vouchers ------------------------------
(***************************************************************************)
(* Vouchers (rewards/service.py): redeem_voucher reads a voucher and an    *)
(* order of the student, checks them and writes both back with the rows    *)
(* that record the redemption; an admin changes or deactivates vouchers in *)
(* between.  An order is one student's, so a redemption is named by its    *)
(* voucher and its order.                                                  *)
(***************************************************************************)
EXTENDS Sums, Worker

CONSTANTS
  Vouchers,
  FixedOff,  \* discount_value of a FIXED voucher, 0 for a PERCENTAGE one
  Percent,   \* discount_value of a PERCENTAGE voucher
  MaxOff,    \* its max_discount_amount_paise
  MinBill,   \* min_order_amount_paise
  Limits,    \* values an admin sets usage_limit to
  Bills,     \* orders
  Price      \* total_amount of an order when it was placed

ASSUME PriceAssumption == Price \in Nat
ASSUME BillsAssumption == IsFiniteSet(Bills)
ASSUME LimitsAssumption == Limits \subseteq Nat \ {0}
ASSUME DiscountAssumption ==
  FixedOff \in [Vouchers -> Nat] /\ Percent \in [Vouchers -> Nat] /\ MaxOff \in [Vouchers -> Nat]

VARIABLES
  voucher,     \* the vouchers rows
  bill,        \* total_amount of each order
  redemption,  \* voucher_redemptions rows of each voucher and order
  discounted   \* DEBIT / VOUCHER ledger entries of each order, summed

voucherRows == <<voucher, bill, redemption, discounted>>
voucherVars == <<voucherRows, workVars>>

Coupon == [times : Nat, limit : Limits, active : BOOLEAN, expired : BOOLEAN]

VouchersInit ==
  /\ voucher \in [Vouchers -> [times : {0}, limit : Limits, active : {TRUE}, expired : {FALSE}]]
  /\ bill = [o \in Bills |-> Price]
  /\ redemption = [v \in Vouchers |-> [o \in Bills |-> 0]]
  /\ discounted = [o \in Bills |-> 0]

-----------------------------------------------------------------------------
Smaller(a, b) == IF a < b THEN a ELSE b

\* What v takes off a bill, which is never more than the bill.
Discount(v, total) ==
  Smaller(total, IF FixedOff[v] > 0 THEN FixedOff[v]
                 ELSE Smaller((total * Percent[v]) \div 100, MaxOff[v]))

Valid(v) == voucher[v].active /\ ~voucher[v].expired /\ voucher[v].times < voucher[v].limit

\* redeem_voucher reads the voucher and checks it ...
BeginVoucher(w, v) ==
  /\ Valid(v)
  /\ Begin(w, [at |-> "valid", voucher |-> v, times |-> voucher[v].times])
  /\ UNCHANGED voucherRows

\* ... then the order, or gives up.  The voucher was not used for it yet.
ReadBill(w) ==
  LET t == work[w]
  IN /\ t.at = "valid"
     /\ \/ Finish(w)
        \/ \E o \in Bills :
             /\ redemption[t.voucher][o] = 0
             /\ bill[o] >= MinBill[t.voucher]
             /\ Discount(t.voucher, bill[o]) > 0
             /\ Continue(w, [at |-> "voucher", voucher |-> t.voucher, times |-> t.times,
                             bill |-> o, total |-> bill[o]])
     /\ UNCHANGED voucherRows

\* Mutant: the ledger is booked in rupees.
CommitVoucherInRupees(w) ==
  LET t == work[w]
      off == Discount(t.voucher, t.total)
  IN /\ t.at = "voucher"
     /\ bill' = [bill EXCEPT ![t.bill] = t.total - off]
     /\ redemption' = [redemption EXCEPT ![t.voucher][t.bill] = @ + 1]
     /\ discounted' = [discounted EXCEPT ![t.bill] = @ + off \div 100]
     /\ voucher' = [voucher EXCEPT ![t.voucher].times = t.times + 1]
     /\ Finish(w)

\* Total, redemption rows, ledger entry and counter commit together.
CommitVoucher(w) ==
  LET t == work[w]
      off == Discount(t.voucher, t.total)
  IN /\ t.at = "voucher"
     /\ bill' = [bill EXCEPT ![t.bill] = t.total - off]
     /\ redemption' = [redemption EXCEPT ![t.voucher][t.bill] = @ + 1]
     /\ discounted' = [discounted EXCEPT ![t.bill] = @ + off]
     /\ voucher' = [voucher EXCEPT ![t.voucher].times = t.times + 1]
     /\ Finish(w)

\* update_voucher and deactivate_voucher: only the columns they set are written.
Administer(v) ==
  /\ AtOnce
  /\ \/ \E n \in Limits : voucher' = [voucher EXCEPT ![v].limit = n]
     \/ \E b \in BOOLEAN : voucher' = [voucher EXCEPT ![v].active = b]
  /\ UNCHANGED <<bill, redemption, discounted>>

\* expires_at passes.
Lapse(v) ==
  /\ ~voucher[v].expired
  /\ voucher' = [voucher EXCEPT ![v].expired = TRUE]
  /\ UNCHANGED <<bill, redemption, discounted, workVars>>

-----------------------------------------------------------------------------
VouchersStep(w) ==
  \/ \E v \in Vouchers : BeginVoucher(w, v)
  \/ ReadBill(w)
  \/ CommitVoucher(w)
  \/ Die(w) /\ UNCHANGED voucherRows

VouchersNext ==
  \/ \E w \in Workers : VouchersStep(w)
  \/ \E v \in Vouchers : Administer(v) \/ Lapse(v)

VouchersSpec == VouchersInit /\ WorkInit /\ [][VouchersNext]_voucherVars

-----------------------------------------------------------------------------
VouchersTypeOK ==
  /\ WorkTypeOK
  /\ voucher \in [Vouchers -> Coupon]
  /\ bill \in [Bills -> 0 .. Price]
  /\ redemption \in [Vouchers -> [Bills -> Nat]]
  /\ discounted \in [Bills -> Nat]

Uses(v) == SumOf(redemption[v])

(* An order is never charged less than its price minus the discounts the     *)
(* ledger shows for it: two redemptions that race on one order lose a        *)
(* discount, they never give one away (rewards/service.py:355, 384-391).     *)
NeverUndercharged == \A o \in Bills : bill[o] + discounted[o] >= Price

(* times_redeemed never claims more uses than there are: racing redemptions  *)
(* of one voucher only make it lag behind (rewards/service.py:393).          *)
UsesNotOvercounted == \A v \in Vouchers : voucher[v].times <= Uses(v)

(* As long as no two requests overlapped, total and ledger agree, a voucher  *)
(* is used once per order and its counter is right.                          *)
VouchersAddUp ==
  ~raced =>
    /\ \A o \in Bills : bill[o] + discounted[o] = Price
    /\ \A v \in Vouchers :
         voucher[v].times = Uses(v) /\ \A o \in Bills : redemption[v][o] <= 1

(* Orders, ledger and counters can be answered for: nothing is given away,   *)
(* uses are never made up, and everything agrees where nothing overlapped.   *)
VoucherBooksAgree == NeverUndercharged /\ UsesNotOvercounted /\ VouchersAddUp

(* "Voucher at limit raises ValueError" (test_coverage_boost3.py:556): a     *)
(* voucher is not used more often than its limit says (an admin may lower    *)
(* it later, unless Limits has one value).  Not so: the uses are compared    *)
(* before, and written after, from the row that was loaded.                  *)
LimitIsKept == \A v \in Vouchers : Uses(v) <= voucher[v].limit
=============================================================================
