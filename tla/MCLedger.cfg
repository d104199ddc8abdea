\* Any three calls, at the same time or one after the other.
SPECIFICATION FairSpec
CONSTANTS
    a = a  b = b
    betA = betA  potA = potA  toA = toA  toB = toB  band = band
    pay = pay  deny = deny  propose = propose  compensate = compensate
    cancel = cancel  dismiss = dismiss
    withdrawal = withdrawal  dispute = dispute
    User = {a, b}
    Session = {s1, s2, s3}
    Op = {betA, potA, toA, toB, band, pay, deny, propose, compensate, cancel, dismiss}
    NoOp = NoOp
    Row = {withdrawal, dispute}
    NoRow = NoRow
    Kind <- KindHere
    On <- RowHere
    Legs <- LegsHere
    Opening <- OneEach
    Waiting = {withdrawal}
INVARIANTS TypeOK EntriesAddUp ApprovedIsPaid
PROPERTIES KeepsAccounts CallsAreAnswered
CHECK_DEADLOCK FALSE
