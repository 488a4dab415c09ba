------------------------------ MODULE Billing ------------------------------
(***************************************************************************)
(* The invoices of one organization. Numbers come from a counter that      *)
(* invoices.service.ts and quotations.service.ts each advance. Payments    *)
(* are posted to one invoice in three database calls (payments.module.ts): *)
(* the payment's row, a read of the invoice, and a write of the new sums.  *)
(***************************************************************************)
EXTENDS Naturals

CONSTANTS
    Makers,         \* calls that make an invoice, new or from a quotation
    Payers,         \* calls that record a payment
    Amounts,        \* amounts paid
    InvoiceTotal,   \* total of the invoice
    MaxInvoices, MaxReceived    \* bounds: invoices made; sum of the payments

ASSUME BillingAssumption ==
    /\ Amounts \subseteq Nat /\ InvoiceTotal \in Nat
    /\ MaxInvoices \in Nat /\ MaxReceived \in Nat

VARIABLES
    counter,            \* invoiceCounter of the organization
    taken,              \* each maker: the number it was given, 0 for none
    numbers,            \* the numbers of the invoices that were created
    amountPaid, amountDue, status,  \* the invoice paid into
    received,           \* sum of the Payment rows linked to it
    payPc, amount, paidSeen,        \* each payer: step, amount, amountPaid it read
    dropped, overlapped,    \* history: did a call end before its write; did
                            \* two ever have the invoice read at once
    byHand                  \* history: was the status last set by hand

numberVars == <<counter, taken, numbers>>
invoiceVars == <<amountPaid, amountDue, status, received, byHand>>
payVars == <<payPc, amount, paidSeen, dropped, overlapped>>
billVars == <<numberVars, invoiceVars, payVars>>

InvoiceStatus == {"DRAFT", "SENT", "VIEWED", "PARTIAL", "PAID", "OVERDUE", "CANCELLED", "REFUNDED"}

BillTypeOK ==
    /\ counter \in Nat /\ taken \in [Makers -> Nat] /\ numbers \subseteq Nat
    /\ amountPaid \in Nat /\ amountDue \in 0..InvoiceTotal
    /\ status \in InvoiceStatus /\ byHand \in BOOLEAN
    /\ received \in Nat
    /\ payPc \in [Payers -> {"idle", "inserted", "read"}]
    /\ amount \in [Payers -> Amounts \cup {0}]
    /\ paidSeen \in [Payers -> Nat]
    /\ dropped \in BOOLEAN /\ overlapped \in BOOLEAN

BillInit ==
    /\ counter = 0 /\ taken = [m \in Makers |-> 0] /\ numbers = {}
    /\ amountPaid = 0 /\ amountDue = InvoiceTotal
    /\ status = "DRAFT" /\ byHand = FALSE /\ received = 0
    /\ payPc = [p \in Payers |-> "idle"]
    /\ amount = [p \in Payers |-> 0]
    /\ paidSeen = [p \in Payers |-> 0]
    /\ dropped = FALSE /\ overlapped = FALSE

-----------------------------------------------------------------------------
(* Numbering *)

\* The atomic increment returns the new counter; the number is one above it.
TakeNumber(m) ==
    /\ taken[m] = 0 /\ counter < MaxInvoices
    /\ counter' = counter + 1
    /\ taken' = [taken EXCEPT ![m] = counter + 2]
    /\ UNCHANGED <<numbers, invoiceVars, payVars>>

\* Mutant: the copy of this code for quotations does not add one.
TakeNumberForQuotation_Drifted(m) ==
    /\ taken[m] = 0 /\ counter < MaxInvoices
    /\ counter' = counter + 1
    /\ taken' = [taken EXCEPT ![m] = counter + 1]
    /\ UNCHANGED <<numbers, invoiceVars, payVars>>

\* convertToInvoice has the same code. A quotation may be converted again.
TakeNumberForQuotation(m) ==
    /\ taken[m] = 0 /\ counter < MaxInvoices
    /\ counter' = counter + 1
    /\ taken' = [taken EXCEPT ![m] = counter + 2]
    /\ UNCHANGED <<numbers, invoiceVars, payVars>>

\* The invoice is created with it, unless the unique index knows the number ...
MakeInvoice(m) ==
    /\ taken[m] # 0 /\ taken[m] \notin numbers
    /\ numbers' = numbers \cup {taken[m]}
    /\ taken' = [taken EXCEPT ![m] = 0]
    /\ UNCHANGED <<counter, invoiceVars, payVars>>

\* ... or the call fails, and the number is never used.
MakerFails(m) ==
    /\ taken[m] # 0
    /\ taken' = [taken EXCEPT ![m] = 0]
    /\ UNCHANGED <<counter, numbers, invoiceVars, payVars>>

-----------------------------------------------------------------------------
(* Payments *)

\* create inserts the Payment row; nothing asks what is still due.
InsertPayment(p, n) ==
    /\ payPc[p] = "idle" /\ received + n <= MaxReceived
    /\ received' = received + n
    /\ payPc' = [payPc EXCEPT ![p] = "inserted"]
    /\ amount' = [amount EXCEPT ![p] = n]
    /\ UNCHANGED <<numberVars, amountPaid, amountDue, status, byHand, paidSeen, dropped, overlapped>>

\* It reads the invoice ...
ReadInvoice(p) ==
    /\ payPc[p] = "inserted"
    /\ paidSeen' = [paidSeen EXCEPT ![p] = amountPaid]
    /\ payPc' = [payPc EXCEPT ![p] = "read"]
    /\ overlapped' = (overlapped \/ \E q \in Payers : payPc[q] = "read")
    /\ UNCHANGED <<numberVars, invoiceVars, amount, dropped>>

\* Mutant: the payment is added to what was read and to what is due by now.
Post_Replay(p) ==
    /\ payPc[p] = "read"
    /\ amountPaid' = paidSeen[p] + amount[p]
    /\ amountDue' = IF amountDue >= amount[p] THEN amountDue - amount[p] ELSE 0
    /\ status' = IF amountDue' = 0 THEN "PAID" ELSE "PARTIAL"
    /\ byHand' = FALSE
    /\ payPc' = [payPc EXCEPT ![p] = "idle"]
    /\ UNCHANGED <<numberVars, received, amount, paidSeen, dropped, overlapped>>

\* ... and writes the sums it computed, whatever the status is by now.
Post(p) ==
    /\ payPc[p] = "read"
    /\ LET paid == paidSeen[p] + amount[p]
           due == IF paid >= InvoiceTotal THEN 0 ELSE InvoiceTotal - paid
       IN amountPaid' = paid /\ amountDue' = due /\ status' = IF due = 0 THEN "PAID" ELSE "PARTIAL"
    /\ byHand' = FALSE
    /\ payPc' = [payPc EXCEPT ![p] = "idle"]
    /\ UNCHANGED <<numberVars, received, amount, paidSeen, dropped, overlapped>>

\* A database call fails or the process dies: the Payment row stays.
PayerFails(p) ==
    /\ payPc[p] # "idle"
    /\ dropped' = TRUE
    /\ payPc' = [payPc EXCEPT ![p] = "idle"]
    /\ UNCHANGED <<numberVars, invoiceVars, amount, paidSeen, overlapped>>

\* update writes any status, delete CANCELLED and markAsSent SENT.
SetStatus(s) ==
    /\ status' = s /\ byHand' = TRUE
    /\ UNCHANGED <<numberVars, amountPaid, amountDue, received, payVars>>

Numbering ==
    \E m \in Makers : TakeNumber(m) \/ TakeNumberForQuotation(m) \/ MakeInvoice(m) \/ MakerFails(m)

Paying ==
    \/ \E p \in Payers :
        ReadInvoice(p) \/ Post(p) \/ PayerFails(p) \/ \E n \in Amounts : InsertPayment(p, n)
    \/ \E s \in InvoiceStatus : SetStatus(s)

BillNext == Numbering \/ Paying

BillSpec == BillInit /\ [][BillNext]_billVars

-----------------------------------------------------------------------------
(* Properties *)

\* The unique index never has to refuse an invoice: the number a call was given
\* is no invoice's, and no other call was given it, made directly or from a
\* quotation. The number of a call that fails is skipped.
NumbersAreFree ==
    \A m \in Makers : taken[m] # 0 =>
        /\ taken[m] \notin numbers
        /\ \A n \in Makers \ {m} : taken[n] # taken[m]

Settled == \A p \in Payers : payPc[p] = "idle"

\* The invoice never claims more than its payments, and claims all of them once
\* no call is in flight, unless one failed after its payment was recorded or two
\* had read the invoice at once. Its status, unless set by hand, says whether
\* that covers the total.
BooksBalance ==
    /\ amountPaid <= received
    /\ Settled /\ ~dropped /\ ~overlapped => amountPaid = received
    /\ amountDue = IF amountPaid >= InvoiceTotal THEN 0 ELSE InvoiceTotal - amountPaid
    /\ status = "PAID" /\ ~byHand => amountPaid >= InvoiceTotal
    /\ status = "PARTIAL" /\ ~byHand => amountPaid < InvoiceTotal

\* Neither the numbers of the invoices nor their amounts go wrong when calls run
\* at once, with the exceptions above.
InvoicesAddUp == NumbersAreFree /\ BooksBalance

=============================================================================
