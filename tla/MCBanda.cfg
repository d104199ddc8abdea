\* A banda, then a pot.
SPECIFICATION Spec
CONSTANTS
    a = a  b = b
    betA = betA  potA = potA  toA = toA  toB = toB  band = band
    pay = pay  deny = deny  propose = propose  compensate = compensate
    cancel = cancel  dismiss = dismiss
    withdrawal = withdrawal  dispute = dispute
    User = {a, b}
    Session = {s1, s2}
    Op = {betA, potA, toA, toB, band, pay, deny, propose, compensate, cancel, dismiss}
    NoOp = NoOp
    Row = {withdrawal, dispute}
    NoRow = NoRow
    Kind <- KindHere
    On <- RowHere
    Legs <- LegsHere
    Opening <- OneEach
    Waiting = {withdrawal}
INVARIANT WalletKeepsTheMoney
CHECK_DEADLOCK FALSE
