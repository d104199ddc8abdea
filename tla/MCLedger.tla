------------------------------ MODULE MCLedger ------------------------------
EXTENDS LedgerTransactions, TLC

CONSTANTS a, b, betA, potA, toA, toB, band, pay, deny, propose, compensate,
          cancel, dismiss, withdrawal, dispute

Of(u, n, t) == [user |-> u, amount |-> n, type |-> t]

(* A bet of a, a pot a won less its commission, two transfers that cross,  *)
(* a banda, a withdrawal of b to be approved or rejected, and an           *)
(* investigation whose compensation of b is proposed, cancelled, approved. *)
TheLegs ==
    betA :> <<Of(a, -1, "bet")>>
    @@ potA :> <<Of(a, 2, "win"), Of(a, -1, "rake")>>
    @@ toB :> <<Of(a, -1, "transfer"), Of(b, 1, "transfer")>>
    @@ toA :> <<Of(b, -1, "transfer"), Of(a, 1, "transfer")>>
    @@ band :> <<Of(b, -1, "bet"), Of(a, 1, "win")>>
    @@ pay :> <<Of(b, -1, "withdrawal")>>
    @@ compensate :> <<Of(b, 1, "adjustment")>>

TheKind ==
    betA :> "entry" @@ potA :> "award" @@ toA :> "transfer" @@ toB :> "transfer"
    @@ band :> "banda" @@ pay :> "approve" @@ deny :> "reject"
    @@ propose :> "propose" @@ compensate :> "approve" @@ cancel :> "cancel"
    @@ dismiss :> "dismiss"

TheRow ==
    [o \in {pay, deny} |-> withdrawal]
    @@ [o \in {propose, compensate, cancel, dismiss} |-> dispute]

LegsHere == [o \in Op |-> IF o \in DOMAIN TheLegs THEN TheLegs[o] ELSE <<>>]
KindHere == [o \in Op |-> TheKind[o]]
RowHere == [o \in Op |-> IF o \in DOMAIN TheRow THEN TheRow[o] ELSE NoRow]
OneEach == [u \in User |-> 1]
=============================================================================
