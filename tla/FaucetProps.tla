----------------------------- MODULE FaucetProps ----------------------------
(***************************************************************************)
(* What the demo faucet promises the operator and the person who asks.     *)
(***************************************************************************)
EXTENDS Faucet

(* One drip per wallet per cooldown, however many pages ask, however late  *)
(* the explorer, unless the process had lost the first drip while the      *)
(* explorer did not have it yet (faucet.service.ts:25 and 124).            *)
OnceADay ==
    \A x, y \in sent :
        (x # y /\ x.to = y.to /\ x.to \notin Deaf /\ x.age <= Cooldown /\ y.age <= x.age)
            => x.forgotten \/ (x.age = y.age /\ y.forgotten)

-----------------------------------------------------------------------------
(* Nobody is told to wait but a wallet to which a transfer went out, and   *)
(* not for longer than the cooldown of that one.                           *)
earned(w, wait) ==
    wait \in 1 .. Cooldown =>
        \E x \in sent : x.to = w /\ x.age + wait <= Cooldown + Lag

refusesTheDue == \A w \in Wallets : recent[w] <= Cooldown => earned(w, tooSoon(recent[w]))

toldToWait == \A r \in requests : r.pc = "answered" => earned(r.to, r.wait)

(* The button wears the clock of the wallet beside it, across reloads and  *)
(* changes of wallet, unless an answer came in after the wallet changed.   *)
wearsItsOwnClock ==
    \A d \in Devices :
        LET hook == device[d] IN
        ~hook.strayed => hook.wait = stored[d][hook.wallet] /\ earned(hook.wallet, hook.wait)

(* A wait, wherever it is kept, was earned by the wallet it is kept for    *)
(* (faucet.service.ts:194 and 235, useFaucet.ts:98, 122 and 143).          *)
WaitsAreEarned == refusesTheDue /\ toldToWait /\ wearsItsOwnClock

-----------------------------------------------------------------------------
(* Whoever goes on asking for one wallet is paid again and again: no mark, *)
(* memory or clock outlives its reason (faucet.service.ts:189, 209, 214,   *)
(* useFaucet.ts:105).                                                      *)
PaidEveryDay ==
    \A w \in Wallets \ Deaf : \A d \in Devices :
        <>[](w \in visit.owns[d] /\ device[d].wallet = w) => []<>(\E x \in sent : x.to = w /\ x.age = 0)
=============================================================================
