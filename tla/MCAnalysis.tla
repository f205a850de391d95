---------------------------- MODULE MCAnalysis ----------------------------
(* Tenants for the Analysis run: each family varies what some rules look at. *)
EXTENDS Analysis, TLC

CONSTANTS e5, e3, mail, ann, bob

MCSkuIds == {e5, e3, mail}
MCUserIds == {ann, bob}
MCPrice == (e5 :> 57) @@ (e3 :> None) @@ (mail :> 8)
\* Mail is part of both others, as one Exchange plan is in the source's table.
MCOverlaps == {[skus |-> {e5, e3}, redundant |-> e3], [skus |-> {e5, mail}, redundant |-> mail],
               [skus |-> {e3, mail}, redundant |-> mail]}

Nobody == [u \in {} |-> None]

Blank == [skus |-> Nobody, users |-> Nobody, signInKnown |-> TRUE, subs |-> Nobody,
          registration |-> Nobody, roles |-> Nobody, policies |-> {}, methods |-> {},
          locations |-> Nobody, perUser |-> Nobody, domains |-> Nobody, unread |-> {}]

\* Two SKUs in every state, around the edges of slack, buffer and quota
SeatTenants ==
  LET sku == [enabled : {0, 4, 9999}, warning : {0, 1, 6}, consumed : {0, 2, 9},
              active : BOOLEAN]
  IN  {[Blank EXCEPT !.skus = f] : f \in [{e5, e3} -> sku]}

Account == [enabled : BOOLEAN, guest : BOOLEAN, created : {None, -Days(30), -Days(30) + 1},
            interactive : {None, -Days(90), -Days(90) - 1}, background : {None, -1},
            licenses : SUBSET MCSkuIds]

Seats(n, active) == [enabled |-> n, warning |-> 0, consumed |-> n, active |-> active]

\* One account in every state, with one SKU that may be suspended
AccountTenants ==
  {[Blank EXCEPT !.skus = (e5 :> Seats(3, active)) @@ (mail :> Seats(3, TRUE))
                            @@ (e3 :> Seats(3, TRUE)),
                 !.users = (ann :> account), !.signInKnown = known] :
     account \in Account, active \in BOOLEAN, known \in BOOLEAN}

Held(users, s) == Cardinality({u \in DOMAIN users : s \in users[u].licenses})

\* Two accounts, and exactly or nearly as many seats as they hold
PairTenants ==
  LET plain == {a \in Account : a.background = None /\ a.created # None}
  IN  {[Blank EXCEPT !.users = f,
                     !.skus = [s \in {e5, e3} |->
                        [enabled |-> Held(f, s) + spare, warning |-> 0,
                         consumed |-> Held(f, s), active |-> TRUE]]] :
         f \in [MCUserIds -> {a \in plain : a.licenses \in {{e5}, {e5, e3}}}], spare \in {0, 3}}

\* Two accounts with products that duplicate one another, of which one may be a
\* guest's or disabled, and exactly as many seats as they hold, or three more
DuplicateTenants ==
  LET account == [enabled |-> TRUE, guest |-> FALSE, created |-> None,
                  interactive |-> -1, background |-> None, licenses |-> {}]
      users == {(ann :> [account EXCEPT !.licenses = l, !.enabled = e, !.guest = g])
                  @@ (bob :> [account EXCEPT !.licenses = m]) :
                  l \in SUBSET MCSkuIds, m \in SUBSET MCSkuIds, e \in BOOLEAN, g \in BOOLEAN}
  IN  {[Blank EXCEPT !.users = f,
                     !.skus = [s \in MCSkuIds |->
                        [enabled |-> Held(f, s) + spare, warning |-> 0,
                         consumed |-> Held(f, s), active |-> TRUE]]] :
         f \in users, spare \in {0, 3}}

\* Two subscriptions, around the edges of the days that matter
SubscriptionTenants ==
  LET edges == UNION {{Days(n) - 1, Days(n), Days(n) + 1} : n \in {0, 30, 31, 60, 90, 91}}
  IN  {[Blank EXCEPT !.subs = f] : f \in [{e5, e3} -> edges \cup {None}]}

Roles(n) == (GlobalAdministrator :> [privileged |-> TRUE, members |-> n])
              @@ ("Directory Readers" :> [privileged |-> FALSE, members |-> 1])

RegistrationTenants ==
  LET person == [admin : BOOLEAN, mfa : BOOLEAN, type : {"member", "guest", None}]
  IN  {[Blank EXCEPT !.registration = f, !.roles = r] :
         f \in [MCUserIds -> person], r \in {Nobody} \cup {Roles(n) : n \in {0, 4, 5}}}

\* One policy with exclusions, groups and clients, alone or beside one of four others
PolicyTenants ==
  LET policy == [state : PolicyStates, users : {{}, {"All"}, {"ann"}},
                 exclude_users : {{}, {"ann"}}, roles : {{}, {GlobalAdministrator}},
                 exclude_roles : {{}, {GlobalAdministrator}}, groups : {{}, {"staff"}},
                 apps : {{"All"}, {"mail"}}, clients : {{"all"}, {"browser"}, {"other"}},
                 grants : {{"mfa"}, {"block"}}]
      forAll == [state |-> "enabled", users |-> {"All"}, exclude_users |-> {"ann"},
                 roles |-> {}, exclude_roles |-> {GlobalAdministrator}, groups |-> {},
                 apps |-> {"All"}, clients |-> {}, grants |-> {"mfa"}]
      others == {forAll, [forAll EXCEPT !.grants = {"block"}, !.clients = {"other"}],
                 [forAll EXCEPT !.users = {}, !.roles = {GlobalAdministrator},
                                !.exclude_roles = {}, !.apps = {"mail"}],
                 [forAll EXCEPT !.users = {"GuestsOrExternalUsers"}, !.groups = {"staff"}]}
  IN  {[Blank EXCEPT !.policies = {p}] : p \in policy}
        \cup {[Blank EXCEPT !.policies = {p, q}] :
                p \in {r \in policy : r.state # "disabled" /\ r.grants = {"mfa"}}, q \in others}

\* Settings that are only listed for review
SettingTenants ==
  {[Blank EXCEPT !.methods = m] :
     m \in SUBSET {"MicrosoftAuthenticator", "Fido2", "Sms", "Email"}}
  \cup {[Blank EXCEPT !.locations = (e5 :> l)] : l \in Location}
  \cup {[Blank EXCEPT !.perUser = f] : f \in [MCUserIds -> PerUserStates]}
  \cup {[Blank EXCEPT !.domains = f] : f \in [{e5, e3} -> BOOLEAN]}

\* A tenant with something in each unit
Full ==
  [Blank EXCEPT !.subs = (e5 :> Days(-2)), !.methods = {"Sms"}, !.domains = (e5 :> FALSE),
     !.registration = (ann :> [admin |-> TRUE, mfa |-> FALSE, type |-> "member"])
                        @@ (bob :> [admin |-> FALSE, mfa |-> FALSE, type |-> None]),
     !.roles = Roles(5), !.perUser = (ann :> "disabled"),
     !.policies = {[state |-> "enabled", users |-> {"All"}, exclude_users |-> {"ann"},
                    roles |-> {}, exclude_roles |-> {}, groups |-> {}, apps |-> {"All"},
                    clients |-> {"browser"}, grants |-> {"mfa"}]},
     !.locations = (e5 :> [kind |-> "ip", flagged |-> TRUE])]

\* What is left of a tenant of which some units could not be read
Without(t, unread) ==
  LET Kept(unit, rows) == IF unit \in unread THEN Nobody ELSE rows
  IN  [t EXCEPT !.unread = unread,
         !.subs = Kept("subscriptions", @), !.domains = Kept("domains", @),
         !.registration = Kept("user_registration", @), !.roles = Kept("directory_roles", @),
         !.perUser = Kept("per_user_mfa", @), !.locations = Kept("named_locations", @),
         !.methods = IF "auth_methods" \in unread THEN {} ELSE @,
         !.policies = IF "ca_policies" \in unread THEN {} ELSE @]

UnreadTenants == {Without(t, unread) : t \in {Blank, Full}, unread \in SUBSET FlaggedUnits}

MCTenantSet == SeatTenants \cup AccountTenants \cup PairTenants \cup DuplicateTenants
                 \cup SubscriptionTenants \cup RegistrationTenants \cup PolicyTenants
                 \cup SettingTenants \cup UnreadTenants
=============================================================================
