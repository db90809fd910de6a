----------------------------- MODULE MCServices -----------------------------
(***************************************************************************)
(* Small instances of the components around the hall's sessions, tables    *)
(* and guilds: purchases, friendships and bosses of a hall; its links to   *)
(* the login servers; their accounts; the center's registry; a rank list,  *)
(* and the roles of a player that one ranks; his mails and the system      *)
(* mails. They share no variable, but for the list the roles are ranked    *)
(* in, so that one of them moves in a behaviour, chosen at the start, and  *)
(* the others stay: their products would show nothing more.                *)
(***************************************************************************)
EXTENDS Charge, Friends, FriendBoss, HallLinks, LoginRegistry, Accounts,
        RolePowerRank, Mail, SysMails

VARIABLE focus   \* the component that moves

servicesVars == <<chargeVars, friendVars, bossVars, linksVars, registryVars,
                  accountVars, powerVars, mailVars, sysMailVars, focus>>

ServicesInit ==
  /\ focus \in {"charge", "friends", "boss", "links", "registry", "accounts",
                "list", "roles", "mail", "sys_mail"}
  /\ ChargeInit /\ FriendsInit /\ BossInit
  /\ LinksInit /\ RegistryInit /\ AccountsInit
  /\ PowerInit /\ (focus # "roles" => roles = {})
  /\ MailInit /\ SysMailsInit

HallNext ==
  /\ \/ /\ focus = "charge" /\ ChargeNext
        /\ UNCHANGED <<friendVars, bossVars>>
     \/ /\ focus = "friends" /\ FriendsNext
        /\ UNCHANGED <<chargeVars, bossVars>>
     \/ /\ focus = "boss" /\ BossNext
        /\ UNCHANGED <<chargeVars, friendVars>>
  /\ UNCHANGED <<linksVars, registryVars, accountVars, powerVars, mailVars, sysMailVars>>

LoginNext ==
  /\ \/ /\ focus = "links" /\ LinksNext
        /\ UNCHANGED <<registryVars, accountVars>>
     \/ /\ focus = "registry" /\ RegistryNext
        /\ UNCHANGED <<linksVars, accountVars>>
     \/ /\ focus = "accounts" /\ AccountsNext
        /\ UNCHANGED <<linksVars, registryVars>>
  /\ UNCHANGED <<chargeVars, friendVars, bossVars, powerVars, mailVars, sysMailVars>>

PlayerDataNext ==
  /\ \/ /\ focus = "list" /\ Next
        /\ UNCHANGED <<roles, power, to_load, loaded, told_powers, unranked, intruders>>
        /\ UNCHANGED <<mailVars, sysMailVars>>
     \/ /\ focus = "roles" /\ PowerNext
        /\ UNCHANGED <<mailVars, sysMailVars>>
     \/ /\ focus = "mail" /\ MailNext
        /\ UNCHANGED <<powerVars, sysMailVars>>
     \/ /\ focus = "sys_mail" /\ SysMailsNext
        /\ UNCHANGED <<powerVars, mailVars>>
  /\ UNCHANGED <<chargeVars, friendVars, bossVars, linksVars, registryVars, accountVars>>

ServicesNext ==
  /\ HallNext \/ LoginNext \/ PlayerDataNext
  /\ focus' = focus

ServicesSpec == ServicesInit /\ [][ServicesNext]_servicesVars

\* Every variable of pay.go, player_charge.go, player_friend.go, login_conn.go,
\* the center's and the login server's managers, dbc.Accounts, short_ranklist.go,
\* player_role_power_rank.go, player_mail.go and the system mails has its type.
ServicesTypeOK ==
  /\ ChargeTypeOK /\ FriendsTypeOK /\ BossTypeOK
  /\ LinksTypeOK /\ RegistryTypeOK /\ AccountsTypeOK
  /\ PowerTypeOK /\ MailTypeOK /\ SysMailsTypeOK
=============================================================================
