------------------------------- MODULE Faucet -------------------------------
(***************************************************************************)
(* The demo faucet: the service that pays a wallet once per cooldown       *)
(* (api/faucet) and the button that asks for it (hooks/useFaucet.ts).      *)
(* The chain is the record of what was paid, but the service reads it      *)
(* through an explorer that lags, and covers the gap from memory, which a  *)
(* restart loses.                                                          *)
(*                                                                         *)
(* A date is kept as its distance from now: how long ago, or how long      *)
(* still to wait.  One tick is a share of the cooldown, and anything older *)
(* than that is as good as never.                                          *)
(***************************************************************************)
EXTENDS Integers

CONSTANTS
    Wallets, Devices,
    Nobody,         \* who is answered when the page that asked is gone
    Deaf,           \* wallets that reject a plain transfer
    Cooldown,       \* FAUCET_COOLDOWN_HOURS, in ticks
    Lag,            \* bound: ticks until the explorer has a transfer
    Hashes,         \* what tells the transfers to one wallet apart
    Visits          \* the situations explored

(* owns: the wallets each device signs into, none if it stays off.         *)
(* faults: calls that fail, answers lost, restarts and reloads.            *)
ASSUME FaucetAssumption ==
    /\ Nobody \notin Devices /\ Deaf \subseteq Wallets /\ Wallets # {}
    /\ Visits \subseteq [owns : [Devices -> SUBSET Wallets], faults : Nat]
    /\ {Cooldown, Lag} \subseteq Nat /\ Lag < Cooldown

VARIABLES
    sent,       \* the transfers broadcast, while anything is counted from them
    recent,     \* how long ago this process knows a wallet to have been paid
    inFlight,   \* the wallets it is serving
    requests,   \* every request, from the press to its answer
    device,     \* the hook's state
    stored,     \* the cooldowns in the storage of each device
    visit       \* the situation, with the faults it has left

faucetVars == <<sent, recent, inFlight, requests, device, stored, visit>>

Never == Cooldown + 1
NoDate == Cooldown + 1

(* explorer, balance, sending: the await a request being served is in.     *)
Awaits == {"explorer", "balance", "sending"}

(* forgotten: the process lost it before the explorer had it.              *)
Transfer(hash, w) ==
    [hash |-> hash, to |-> w, age |-> 0, indexed |-> FALSE, forgotten |-> FALSE]

FaucetInit ==
    /\ sent = {}
    /\ recent = [w \in Wallets |-> Never]
    /\ inFlight = {}
    /\ requests = {}
    /\ visit \in Visits
    /\ device = [d \in Devices |->
                    [ wallet |-> CHOOSE w \in Wallets : visit.owns[d] # {} => w \in visit.owns[d],
                      sending |-> FALSE, wait |-> 0, strayed |-> FALSE ]]
    /\ stored = [d \in Devices |-> [w \in Wallets |-> 0]]

-----------------------------------------------------------------------------
(* Time.                                                                   *)

(* Also recentDrip: what is older than the cooldown is not remembered.     *)
older(age) == IF age = Never THEN Never ELSE age + 1
shorter(wait) == IF wait \in {0, NoDate} THEN wait ELSE wait - 1

(* The explorer and the RPC are late by at most Lag.                       *)
inTime(x) == x.age < Lag

(* Nothing is counted any more from a transfer older than that.            *)
counts(x) == x.age < Cooldown + Lag

Tick ==
    /\ \A x \in sent : x.indexed \/ inTime(x)
    /\ \A r \in requests : r.pc = "sending" => \E x \in sent : x.to = r.to /\ inTime(x)
    /\ sent' = {[x EXCEPT !.age = @ + 1] : x \in {y \in sent : counts(y)}}
    /\ recent' = [w \in Wallets |-> older(recent[w])]
    /\ requests' = {[r EXCEPT !.wait = shorter(@)] : r \in requests}
    /\ device' = [d \in Devices |-> [device[d] EXCEPT !.wait = shorter(@)]]
    /\ stored' = [d \in Devices |-> [w \in Wallets |-> shorter(stored[d][w])]]
    /\ UNCHANGED <<inFlight, visit>>

-----------------------------------------------------------------------------
(* The page.                                                               *)

rememberedCooldown(d, w) == stored[d][w]

(* The button of a wallet short of ETH.                                    *)
Press(d) ==
    LET hook == device[d] IN
    /\ visit.owns[d] # {}
    /\ ~hook.sending /\ hook.wait = 0
    /\ device' = [device EXCEPT ![d] = [hook EXCEPT !.sending = TRUE]]
    /\ requests' = requests \cup {[from |-> d, to |-> hook.wallet, pc |-> "asked", wait |-> NoDate]}
    /\ UNCHANGED <<sent, recent, inFlight, stored, visit>>

(* Both answers can date the next request.  The hook shows the date for    *)
(* whatever wallet is on screen by then, and stores it for the one asked   *)
(* for.                                                                    *)
recordCooldown(d, w, wait) ==
    /\ device' = [device EXCEPT ![d].sending = FALSE, ![d].wait = wait,
                                ![d].strayed = (w # device[d].wallet)]
    /\ stored' = [stored EXCEPT ![d][w] = wait]

Answered(d) ==
    \E r \in requests :
        /\ r.from = d /\ r.pc = "answered"
        /\ requests' = requests \ {r}
        /\ IF r.wait = NoDate
           THEN /\ device' = [device EXCEPT ![d].sending = FALSE]
                /\ UNCHANGED stored
           ELSE recordCooldown(d, r.to, r.wait)
        /\ UNCHANGED <<sent, recent, inFlight, visit>>

(* A mutant: the remembered cooldown is read when the hook is mounted only.*)
FaultyShowsWallet(d, w) ==
    device' = [device EXCEPT ![d].wallet = w]

(* The effect on the address.                                              *)
ShowsWallet(d, w) ==
    device' = [device EXCEPT ![d].wallet = w, ![d].strayed = FALSE,
                             ![d].wait = rememberedCooldown(d, w)]

SwitchWallet(d) ==
    /\ \E w \in visit.owns[d] \ {device[d].wallet} : ShowsWallet(d, w)
    /\ UNCHANGED <<sent, recent, inFlight, requests, stored, visit>>

fails == visit.faults > 0 /\ visit' = [visit EXCEPT !.faults = @ - 1]

(* The page is loaded again.  What it asked for is served all the same.    *)
Reload(d) ==
    /\ fails
    /\ device' = [device EXCEPT ![d].sending = FALSE, ![d].strayed = FALSE,
                                ![d].wait = rememberedCooldown(d, device[d].wallet)]
    /\ requests' = {IF r.from = d THEN [r EXCEPT !.from = Nobody] ELSE r :
                       r \in {s \in requests : ~(s.from = d /\ s.pc = "answered")}}
    /\ UNCHANGED <<sent, recent, inFlight, stored>>

-----------------------------------------------------------------------------
(* The service.                                                            *)

answers(r, wait) ==
    requests' = (requests \ {r}) \cup
                (IF r.from = Nobody THEN {} ELSE {[r EXCEPT !.pc = "answered", !.wait = wait]})

tooSoon(age) == Cooldown - age

goesOn(r, pc) == requests' = (requests \ {r}) \cup {[r EXCEPT !.pc = pc]}

(* A mutant: the mark is set without being looked at.                      *)
FaultyBeingServed(w) == FALSE

beingServed(w) == w \in inFlight

(* drip, as far as its first await.                                        *)
Drip(r) ==
    /\ r.pc = "asked"
    /\ \/ /\ beingServed(r.to)
          /\ answers(r, NoDate)
          /\ UNCHANGED inFlight
       \/ /\ ~beingServed(r.to) /\ recent[r.to] # Never
          /\ answers(r, tooSoon(recent[r.to]))
          /\ UNCHANGED inFlight
       \/ /\ ~beingServed(r.to) /\ recent[r.to] = Never
          /\ inFlight' = inFlight \cup {r.to}
          /\ goesOn(r, "explorer")
    /\ UNCHANGED <<sent, recent, device, stored, visit>>

(* A mutant: the mark is taken away by the answers and not by a throw.     *)
FaultyReleases(w, threw) == inFlight' = IF threw THEN inFlight ELSE inFlight \ {w}

(* finally.                                                                *)
releases(w, threw) == inFlight' = inFlight \ {w}

(* What the explorer knows, a transfer that moved no value left out.       *)
paid(w) ==
    {x \in sent : x.to = w /\ w \notin Deaf /\ x.indexed /\ x.age <= Cooldown}

(* The newest of them.                                                     *)
isLastDrip(w, age) ==
    /\ \E x \in paid(w) : x.age = age
    /\ \A x \in paid(w) : age <= x.age

ExplorerAnswers(r) ==
    /\ r.pc = "explorer"
    /\ \/ /\ paid(r.to) = {}
          /\ goesOn(r, "balance")
          /\ UNCHANGED <<recent, inFlight>>
       \/ \E age \in 0 .. Cooldown :
             /\ isLastDrip(r.to, age)
             /\ recent' = [recent EXCEPT ![r.to] = age]
             /\ answers(r, tooSoon(age))
             /\ releases(r.to, FALSE)
    /\ UNCHANGED <<sent, device, stored, visit>>

unused(w) == Hashes \ {x.hash : x \in {y \in sent : y.to = w}}

(* The balance is enough, and the transfer goes out.                       *)
Sends(r) ==
    /\ r.pc = "balance"
    /\ unused(r.to) # {}
    /\ sent' = sent \cup {Transfer(CHOOSE hash \in unused(r.to) : TRUE, r.to)}
    /\ goesOn(r, "sending")
    /\ UNCHANGED <<recent, inFlight, device, stored, visit>>

remember(w) == recent' = [recent EXCEPT ![w] = 0]

SendAnswers(r) ==
    /\ r.pc = "sending"
    /\ remember(r.to)
    /\ answers(r, Cooldown)
    /\ releases(r.to, FALSE)
    /\ UNCHANGED <<sent, device, stored, visit>>

-----------------------------------------------------------------------------
(* What fails.                                                             *)

(* What this process knew and the explorer does not.                       *)
forgets(w) ==
    {[x EXCEPT !.forgotten = @ \/ (x.to = w /\ ~x.indexed)] : x \in sent}

(* The explorer or the RPC throws, the faucet is empty, or the answer to a *)
(* transfer that went out is lost.                                         *)
CallFails(r) ==
    /\ fails /\ r.pc \in Awaits
    /\ answers(r, NoDate)
    /\ releases(r.to, TRUE)
    /\ sent' = IF r.pc = "sending" THEN forgets(r.to) ELSE sent
    /\ UNCHANGED <<recent, device, stored>>

(* A request or an answer is lost on its way: the hook catches it.         *)
NetworkFails(r) ==
    /\ fails /\ r.pc \in {"asked", "answered"}
    /\ requests' = requests \ {r}
    /\ device' = IF r.from = Nobody THEN device ELSE [device EXCEPT ![r.from].sending = FALSE]
    /\ UNCHANGED <<sent, recent, inFlight, stored>>

(* A deploy: the memory is gone, and so is every request being served.     *)
Restart ==
    /\ fails
    /\ recent' = [w \in Wallets |-> Never]
    /\ inFlight' = {}
    /\ sent' = {[x EXCEPT !.forgotten = @ \/ ~x.indexed] : x \in sent}
    /\ requests' = {IF r.pc \in Awaits THEN [r EXCEPT !.pc = "answered", !.wait = NoDate] ELSE r :
                       r \in {s \in requests : ~(s.pc \in Awaits /\ s.from = Nobody)}}
    /\ UNCHANGED <<device, stored>>

-----------------------------------------------------------------------------
(* The explorer has every transfer to a wallet up to now.                  *)
Indexes(w) ==
    /\ \E x \in sent : x.to = w /\ ~x.indexed
    /\ sent' = {[x EXCEPT !.indexed = @ \/ x.to = w] : x \in sent}
    /\ UNCHANGED <<recent, inFlight, requests, device, stored, visit>>

Serves(r) == ExplorerAnswers(r) \/ Sends(r) \/ SendAnswers(r)

FaucetNext ==
    \/ Tick
    \/ \E d \in Devices : Press(d) \/ Answered(d) \/ SwitchWallet(d) \/ Reload(d)
    \/ \E r \in requests : Drip(r) \/ Serves(r) \/ CallFails(r) \/ NetworkFails(r)
    \/ Restart
    \/ \E w \in Wallets : Indexes(w)

FaucetSpec == FaucetInit /\ [][FaucetNext]_faucetVars

(* Time passes, the explorer catches up, whoever is short presses a lit    *)
(* button, and the process goes on serving what it has begun.              *)
FaucetFairSpec ==
    /\ FaucetSpec
    /\ WF_faucetVars(Tick)
    /\ \A w \in Wallets :
          /\ WF_faucetVars(Indexes(w))
          /\ WF_faucetVars(\E r \in requests : r.to = w /\ Drip(r))
          /\ WF_faucetVars(\E r \in requests : r.to = w /\ Serves(r))
    /\ \A d \in Devices : WF_faucetVars(Press(d)) /\ WF_faucetVars(Answered(d))
=============================================================================
