----------------------------- MODULE Belongings -----------------------------
(***************************************************************************)
(* Tables of one account's own: the wishlist (internal/wishlist), the      *)
(* connected apps (internal/integration) and, from internal/user, device   *)
(* tokens and the avatar.                                                  *)
(***************************************************************************)
EXTENDS Social

CONSTANTS
    WishIds,            \* ids the database hands out (bound)
    Items,              \* explore items
    Snapshots,          \* versions of an item that clients send
    Plans, NoPlan,      \* date, booking, calendar and companions; none made
    Apps,               \* the catalog of apps
    Tokens              \* push tokens of devices

ASSUME PlanAssumption == NoPlan \notin Plans

VARIABLES
    wishlists,          \* rows by id
    wished,             \* ids handed out so far
    integrations,       \* <<user, app>>
    devices,            \* <<user, token>>
    avatars             \* the accounts that have one

belongVars == <<wishlists, wished, integrations, devices, avatars>>

Wish == [user : People, item : Items, snapshot : Snapshots,
         plan : Plans \cup {NoPlan}]

BelongInit ==
    /\ wishlists = EmptyTable
    /\ wished = {}
    /\ integrations = {}
    /\ devices = {}
    /\ avatars = {}

-----------------------------------------------------------------------------
(* Wishlist.                                                               *)

WishesOf(u) == {i \in DOMAIN wishlists : wishlists[i].user = u}

NewWish(u, item, snapshot) ==
    [user |-> u, item |-> item, snapshot |-> snapshot, plan |-> NoPlan]

\* Mutant: the row is written anew.
OverwriteWish(u, i, snapshot) == NewWish(u, wishlists[i].item, snapshot)

\* ON CONFLICT (user_id, explore_item_id) DO UPDATE SET item.
UpdatedWish(u, i, snapshot) == [wishlists[i] EXCEPT !.snapshot = snapshot]

AddWish(u, item, snapshot) ==
    /\ u \in users
    /\ \/ \E i \in WishesOf(u) :
             /\ wishlists[i].item = item
             /\ wishlists' = [wishlists EXCEPT ![i] = UpdatedWish(u, i, snapshot)]
             /\ UNCHANGED wished
       \/ /\ \A i \in WishesOf(u) : wishlists[i].item # item
          /\ \E i \in WishIds \ wished :
                /\ wishlists' = Put(wishlists, i, NewWish(u, item, snapshot))
                /\ wished' = wished \cup {i}
    /\ UNCHANGED socialVars /\ UNCHANGED <<integrations, devices, avatars>>

\* The whole plan is replaced, the item is not.
UpdatedPlan(i, plan) == [wishlists[i] EXCEPT !.plan = plan]

\* 404 for a row of another or none.
UpdatePlan(u, i, plan) ==
    /\ i \in WishesOf(u)
    /\ wishlists' = [wishlists EXCEPT ![i] = UpdatedPlan(i, plan)]
    /\ UNCHANGED socialVars
    /\ UNCHANGED <<wished, integrations, devices, avatars>>

RemoveWish(u, i) ==
    /\ i \in WishesOf(u)
    /\ wishlists' = Drop(wishlists, {i})
    /\ UNCHANGED socialVars
    /\ UNCHANGED <<wished, integrations, devices, avatars>>

-----------------------------------------------------------------------------
(* Apps: a write, then the list for the answer.                            *)

\* Connect, of an app of the catalog.
Connect(w, u, p) ==
    /\ At(w, "idle")
    /\ u \in users
    /\ integrations' = integrations \cup {<<u, p>>}
    /\ Go(w, [at |-> "apps", user |-> u])
    /\ UNCHANGED <<users, friendships, befriended>>
    /\ UNCHANGED <<wishlists, wished, devices, avatars>>

Disconnect(w, u, p) ==
    /\ At(w, "idle")
    /\ integrations' = integrations \ {<<u, p>>}
    /\ Go(w, [at |-> "apps", user |-> u])
    /\ UNCHANGED <<users, friendships, befriended>>
    /\ UNCHANGED <<wishlists, wished, devices, avatars>>

\* connected, as the answer shows it: no app when the query fails.
ListApps(w) ==
    /\ At(w, "apps")
    /\ Answer(w)
    /\ UNCHANGED <<users, friendships, befriended>> /\ UNCHANGED belongVars

-----------------------------------------------------------------------------
(* Devices and avatar: upserts.                                            *)

RegisterDevice(u, t) ==
    /\ u \in users
    /\ devices' = devices \cup {<<u, t>>}
    /\ UNCHANGED socialVars
    /\ UNCHANGED <<wishlists, wished, integrations, avatars>>

SetAvatar(u) ==
    /\ u \in users
    /\ avatars' = avatars \cup {u}
    /\ UNCHANGED socialVars
    /\ UNCHANGED <<wishlists, wished, integrations, devices>>

\* What the deletion of u cascades to here.
BelongDelete(u) ==
    /\ wishlists' = Drop(wishlists, WishesOf(u))
    /\ integrations' = {i \in integrations : i[1] # u}
    /\ devices' = {d \in devices : d[1] # u}
    /\ avatars' = avatars \ {u}
    /\ UNCHANGED wished
=============================================================================
