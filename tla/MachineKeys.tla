----------------------------- MODULE MachineKeys -----------------------------
(***************************************************************************)
(* Machine keys and the loopback MCP gateway that accepts them              *)
(* (server/mcp_keys.rs, server/mcp_server.rs), with the two account routes   *)
(* that retire keys (server/routes/auth.rs) and the `mcp-key' command, which *)
(* runs in a process of its own.  The key table is SQLite; every statement   *)
(* is one step, and nothing but SQLite orders the processes.                  *)
(*                                                                          *)
(* A gateway call runs on the server's runtime but does its store work on    *)
(* blocking threads that cannot be aborted: after a timeout the call is       *)
(* answered while its thread goes on, holding the concurrency permit.         *)
(***************************************************************************)
EXTENDS Integers, FiniteSets, Sequences

CONSTANTS
    KeyOwners,    \* accounts that may hold a key
    KeyIds,       \* random key ids
    Calls,        \* gateway requests
    MaxKeys,      \* mcp.server.max_keys
    Concurrency,  \* mcp.server.concurrency
    PerKeyRate, GlobalRate,   \* requests per minute
    MaxSwitches   \* bound: account changes and minute boundaries

ASSUME KeyAssumption ==
    /\ MaxKeys \in Nat \ {0} /\ Concurrency \in Nat \ {0}
    /\ PerKeyRate \in Nat /\ GlobalRate \in Nat
    /\ IsFiniteSet(Calls)

VARIABLES
    account,    \* what the account store says of each owner
    keyTable,   \* rows of mcp_keys, oldest first
    minted,     \* key ids drawn
    minting,    \* the mcp-key process: the owners it found enabled
    retiring,   \* owners whose disable request has yet to reach the key table
    calls,      \* the gateway's requests
    rates,      \* counters of the current minute
    switches

keyVars == <<account, keyTable, minted, minting, retiring, calls, rates, switches>>

NoKey == "none"
NoCall == [pc |-> "idle", key |-> NoKey, answered |-> FALSE]
LiveKey(k) == \E i \in DOMAIN keyTable : keyTable[i].id = k /\ ~keyTable[i].disabled
LiveRows == {i \in DOMAIN keyTable : ~keyTable[i].disabled}

(* ------------------------- the mcp-key command ------------------------ *)
(* The account directory is read once, before the mint.                       *)
CheckOwners ==
    /\ minting = {}
    /\ minting' = {o \in KeyOwners : account[o] = "enabled"}
    /\ minting' # {}
    /\ UNCHANGED <<account, keyTable, minted, retiring, calls, rates, switches>>

(* In one transaction: the limit counts enabled keys, and the oldest disabled *)
(* rows make room for the new one.                                            *)
Surplus == Len(keyTable) + 1 - MaxKeys
Pruned ==
    LET dead == {i \in DOMAIN keyTable : keyTable[i].disabled}
        oldest == {i \in dead : Cardinality({j \in dead : j < i}) < Surplus}
    IN  [i \in 1..(Len(keyTable) - Cardinality(oldest)) |->
            keyTable[CHOOSE j \in DOMAIN keyTable \ oldest :
                        Cardinality({m \in DOMAIN keyTable \ oldest : m < j}) = i - 1]]
Mint(o, k) ==
    /\ o \in minting /\ k \notin minted
    /\ Cardinality(LiveRows) < MaxKeys
    /\ keyTable' = Append(Pruned, [id |-> k, owner |-> o, disabled |-> FALSE])
    /\ minted' = minted \cup {k}
    /\ minting' = {}
    /\ UNCHANGED <<account, retiring, calls, rates, switches>>
MintRefused ==
    /\ minting # {} /\ Cardinality(LiveRows) >= MaxKeys
    /\ minting' = {}
    /\ UNCHANGED <<account, keyTable, minted, retiring, calls, rates, switches>>

Revoke(k) ==
    /\ LiveKey(k)
    /\ keyTable' = [i \in DOMAIN keyTable |-> [keyTable[i] EXCEPT !.disabled = @ \/ keyTable[i].id = k]]
    /\ UNCHANGED <<account, minted, minting, retiring, calls, rates, switches>>

(* -------------------------- the account routes ------------------------ *)
DisableAccount(o) ==
    /\ account[o] = "enabled" /\ switches < MaxSwitches
    /\ switches' = switches + 1
    /\ account' = [account EXCEPT ![o] = "disabled"]
    /\ retiring' = retiring \cup {o}
    /\ UNCHANGED <<keyTable, minted, minting, calls, rates>>
(* A mistyped or unknown owner and a missing table are no-ops; otherwise one   *)
(* UPDATE disables every enabled key of the owner.                            *)
DisableOwner(o) ==
    /\ o \in retiring
    /\ keyTable' = [i \in DOMAIN keyTable |-> [keyTable[i] EXCEPT !.disabled = @ \/ keyTable[i].owner = o]]
    /\ retiring' = retiring \ {o}
    /\ UNCHANGED <<account, minted, minting, calls, rates, switches>>
(* Enabling the account does not bring its keys back.                         *)
EnableAccount(o) ==
    /\ account[o] = "disabled" /\ o \notin retiring /\ switches < MaxSwitches
    /\ switches' = switches + 1
    /\ account' = [account EXCEPT ![o] = "enabled"]
    /\ UNCHANGED <<keyTable, minted, minting, retiring, calls, rates>>

(* ----------------------------- the gateway ---------------------------- *)
(* The permit is shared by the request and its blocking thread: it is free     *)
(* again when both are gone.                                                   *)
Working == {"authenticate", "update", "authenticated", "recheck", "read"}
Blocking == {"authenticate", "update", "recheck", "read"}
MutHoldsPermit(c) == calls[c].pc \in Working /\ ~calls[c].answered
HoldsPermit(c) == calls[c].pc \in Working
PermitsInUse == Cardinality({c \in Calls : HoldsPermit(c)})

GuardCall(c, k) ==
    /\ calls[c].pc = "idle"
    /\ rates' = [rates EXCEPT !.total = @ + 1]
    /\ calls' = [calls EXCEPT ![c] =
          IF rates.total + 1 <= GlobalRate /\ PermitsInUse < Concurrency
          THEN [pc |-> "authenticate", key |-> k, answered |-> FALSE]
          ELSE [NoCall EXCEPT !.pc = "refused"]]
    /\ UNCHANGED <<account, keyTable, minted, minting, retiring, switches>>

MoveCall(c, pc) == calls' = [calls EXCEPT ![c].pc = pc]
(* A call whose deadline passed was answered already; its thread just ends.   *)
Goes(c, pc) == MoveCall(c, IF calls[c].answered THEN "timeout" ELSE pc)
tableVars == <<account, keyTable, minted, minting, retiring, switches>>

(* authenticate: look the key up, then stamp it with an UPDATE that only       *)
(* touches an enabled row and so sees a revocation in between.                 *)
Lookup(c) ==
    /\ calls[c].pc = "authenticate"
    /\ IF LiveKey(calls[c].key) THEN MoveCall(c, "update") ELSE Goes(c, "refused")
    /\ UNCHANGED rates /\ UNCHANGED tableVars
Stamp(c) ==
    /\ calls[c].pc = "update"
    /\ Goes(c, IF LiveKey(calls[c].key) THEN "authenticated" ELSE "refused")
    /\ UNCHANGED rates /\ UNCHANGED tableVars
Admit(c) ==
    LET k == calls[c].key
    IN  /\ calls[c].pc = "authenticated"
        /\ rates' = [rates EXCEPT !.keys[k] = @ + 1]
        /\ MoveCall(c, IF rates.keys[k] + 1 <= PerKeyRate THEN "recheck" ELSE "refused")
        /\ UNCHANGED tableVars

(* Handler::read, on a second blocking thread: the key is looked at again,     *)
(* and the memory is read under the owner of its row.                          *)
StillAuthorized(c) == LiveKey(calls[c].key)
Recheck(c) ==
    /\ calls[c].pc = "recheck"
    /\ IF StillAuthorized(c) THEN MoveCall(c, "read") ELSE Goes(c, "refused")
    /\ UNCHANGED rates /\ UNCHANGED tableVars
ReadFacts(c) ==
    /\ calls[c].pc = "read"
    /\ Goes(c, "ok")
    /\ UNCHANGED rates /\ UNCHANGED tableVars

(* The request deadline: the caller is answered, running threads are not       *)
(* stopped, and a request between threads is dropped.                          *)
CallTimeout(c) ==
    /\ calls[c].pc \in Working /\ ~calls[c].answered
    /\ calls' = [calls EXCEPT ![c] =
          IF @.pc \in Blocking THEN [@ EXCEPT !.answered = TRUE] ELSE [@ EXCEPT !.pc = "timeout"]]
    /\ UNCHANGED rates /\ UNCHANGED tableVars

(* rate: fixed one-minute windows.                                            *)
NoRates == [total |-> 0, keys |-> [k \in KeyIds |-> 0]]
MinutePasses ==
    /\ rates # NoRates /\ switches < MaxSwitches
    /\ switches' = switches + 1
    /\ rates' = NoRates
    /\ UNCHANGED <<account, keyTable, minted, minting, retiring, calls>>

KeysInit ==
    /\ account = [o \in KeyOwners |-> "enabled"]
    /\ keyTable = <<>> /\ minted = {} /\ minting = {} /\ retiring = {}
    /\ calls = [c \in Calls |-> NoCall]
    /\ rates = NoRates /\ switches = 0

KeysNext ==
    \/ CheckOwners \/ MintRefused \/ MinutePasses
    \/ \E o \in KeyOwners : \/ DisableAccount(o) \/ DisableOwner(o) \/ EnableAccount(o)
                            \/ \E k \in KeyIds : Mint(o, k)
    \/ \E k \in KeyIds : Revoke(k)
    \/ \E c \in Calls : \/ Lookup(c) \/ Stamp(c) \/ Admit(c) \/ Recheck(c) \/ ReadFacts(c) \/ CallTimeout(c)
                        \/ \E k \in KeyIds : GuardCall(c, k)
KeysSpec == KeysInit /\ [][KeysNext]_keyVars

KeysTypeOK ==
    /\ account \in [KeyOwners -> {"enabled", "disabled"}]
    /\ keyTable \in Seq([id : KeyIds, owner : KeyOwners, disabled : BOOLEAN])
    /\ Len(keyTable) <= MaxKeys
    /\ minted \subseteq KeyIds /\ minting \subseteq KeyOwners /\ retiring \subseteq KeyOwners
    /\ \A c \in Calls : calls[c].pc \in Working \cup {"idle", "refused", "timeout", "ok"}

(* The gateway never has more than `concurrency' store operations running,     *)
(* however many callers time out and call again: a timed-out call keeps its     *)
(* permit until its thread is done (mcp_server.rs:126, 323).                    *)
BlockingWorkBounded == Cardinality({c \in Calls : calls[c].pc \in Blocking}) <= Concurrency

(* "Disabling or deleting an account disables that owner's machine keys"        *)
(* (docs/MCP_SERVER.md:78-79) and "`mcp-key create` refuses a missing or         *)
(* disabled owner" (:77): when the disable request is done, a disabled account   *)
(* holds no enabled key.                                                         *)
RetiredOwnerHoldsNoKey ==
    \A i \in DOMAIN keyTable :
        account[keyTable[i].owner] = "disabled" /\ keyTable[i].owner \notin retiring => keyTable[i].disabled
=============================================================================
