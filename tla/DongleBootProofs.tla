-------------------------- MODULE DongleBootProofs --------------------------
(***************************************************************************)
(* Proofs about DongleBoot, for all sets of time zones and baud rates and  *)
(* all waiting times that satisfy its assumptions.  The inductive          *)
(* invariant follows the portal flag from the page that sets it, through   *)
(* the store and riden_config, to the portal, and says when the result of  *)
(* begin() is known.                                                       *)
(***************************************************************************)
EXTENDS DongleBoot, TLAPS

InCommit == pc \in {"commit", "write"}

\* A portal that is due is flagged in the store until it is about to start.
DueIsFlagged ==
    due = "yes" =>
        \/ /\ pc \in {"off", "config", "modbus", "flag", "restart"}
           /\ Loaded(flash).portal
           /\ pc \in {"modbus", "flag"} => ram.portal
        \/ /\ forced
           /\ pc = "connect" \/ (InCommit /\ after = "connect")
           /\ pc = "commit" => Loaded(flash).portal
           /\ pc = "connect" => ~Loaded(flash).portal /\ ~ram.portal

\* Nothing is flagged unless a portal is due, or is being asked for.
FlagIsDue ==
    due = "no" =>
        /\ ~Loaded(flash).portal
        /\ ram.portal => (InCommit \/ pc = "restart") /\ after = "restart"
        /\ InCommit => after # "connect"

\* commit() is called with the flag set to announce a portal, and from
\* get_and_reset_config_portal_on_boot() if one is to be shown.
CommitKnows ==
    InCommit => /\ after = "restart" => ram.portal
                /\ after = "connect" => forced /\ ~ram.portal

\* The outcome of begin() is known from the moment it was last called.
Begun == \/ pc \in {"flag", "connect", "portal", "running", "restart", "hung"}
         \/ InCommit /\ after # "modbus"
LinkIsKnown == IF Begun THEN initialized <=> link = psuBaud /\ ~missed
                        ELSE ~initialized /\ ~missed

IInv == /\ TypeOK
        /\ SettingsSurvive
        /\ DueIsFlagged /\ FlagIsDue /\ CommitKnows
        /\ LinkIsKnown

-----------------------------------------------------------------------------
(* The store.                                                              *)

\* What begin() loads is a configuration.
LEMMA LoadedType == ASSUME NEW s \in Stores PROVE Loaded(s) \in Config
  BY BaudAssumption DEF Loaded, Stores, Config, Defaults, Names, Rates

\* The defaults, an erased store and an image of RAM are well formed.
LEMMA ImageType ==
    ASSUME ram \in Config
    PROVE  Defaults \in Config /\ Erased \in Stores /\ Image \in Stores
  BY BaudAssumption
     DEF Defaults, Erased, Image, Stores, Config, Names, Rates

\* An erased store loads as the defaults, an image as what was stored.
LEMMA LoadedBack ==
    /\ \A s \in Stores : s.version = "none" => Loaded(s) = Defaults
    /\ Loaded(Erased) = Defaults /\ Loaded(Image) = ram
    /\ Defaults.portal = FALSE
  BY DEF Loaded, Erased, Image, Defaults

\* A half-written store is a store.
LEMMA TornType == ASSUME ram \in Config PROVE Torn \subseteq Stores
  BY ImageType DEF Torn, Stores, Config, Names, Rates

\* Changing the flag or the settings of a configuration gives a configuration
\* with the other part as it was.
LEMMA SetFlag ==
    ASSUME NEW c \in Config, NEW b \in BOOLEAN
    PROVE  LET d == [c EXCEPT !.portal = b]
           IN  d \in Config /\ Settings(d) = Settings(c) /\ d.portal = b
  BY DEF Config, Settings
LEMMA SetChoice ==
    ASSUME NEW c \in Config, NEW s \in Choices
    PROVE  LET d == [c EXCEPT !.zone = s.zone, !.baud = s.baud]
           IN  d \in Config /\ Settings(d) = s /\ d.portal = c.portal
  BY DEF Config, Settings, Choices, Names, Rates

\* The invariant holds before the dongle has ever been switched on.
LEMMA InitInv == Init => IInv
  <1> SUFFICES ASSUME Init PROVE IInv
    OBVIOUS
  <1> PICK v \in {"v1", "v2"}, c \in Choices, p \in BOOLEAN :
          flash \in {Erased, [version |-> v,
                        config |-> [zone |-> c.zone, portal |-> p, baud |-> c.baud]]}
    BY DEF Init
  <1>1. Defaults \in Config
    BY BaudAssumption DEF Defaults, Config, Names, Rates
  <1>2. /\ flash \in Stores /\ wanted \in Choices
        /\ Settings(Loaded(flash)) = wanted
        /\ Loaded(flash).portal = flash.config.portal
    <2>1. CASE flash = Erased
      <3>1. wanted = Settings(Defaults) /\ Settings(Defaults) \in Choices
        BY <2>1, BaudAssumption DEF Init, Erased, Defaults, Settings, Choices, Rates
      <3>2. Loaded(flash) = Defaults /\ flash.config = Defaults
        BY <2>1 DEF Loaded, Erased
      <3> QED
        BY <1>1, <2>1, <3>1, <3>2 DEF Stores, Erased
    <2>2. CASE flash = [version |-> v,
                  config |-> [zone |-> c.zone, portal |-> p, baud |-> c.baud]]
      <3>1. flash.config = [zone |-> c.zone, portal |-> p, baud |-> c.baud]
            /\ flash.version = v
        BY <2>2
      <3>2. flash.config \in Config /\ flash \in Stores
        BY <2>2, <3>1 DEF Config, Stores, Choices, Names, Rates
      <3>3. Loaded(flash) = [zone |-> c.zone, portal |-> p,
                        baud |-> IF v = "v1" THEN DefaultBaud ELSE c.baud]
        BY <3>1 DEF Loaded
      <3>4. wanted = [zone |-> c.zone,
                      baud |-> IF v = "v1" THEN DefaultBaud ELSE c.baud]
        BY <3>1 DEF Init
      <3> QED
        BY <3>1, <3>2, <3>3, <3>4, BaudAssumption DEF Settings, Choices, Rates
    <2> QED
      BY <2>1, <2>2
  <1>3. TypeOK
    <2>1. /\ pc = "off" /\ after = "running" /\ ram = Defaults
          /\ forced = FALSE /\ waited = 0 /\ link = Noise
          /\ initialized = FALSE /\ missed = FALSE /\ clock = "unset"
          /\ readyAt = 0 /\ psuBaud = DefaultBaud /\ lost = FALSE
          /\ due \in {"yes", "no"}
      BY DEF Init
    <2>2. 0 \in 0..MaxWait /\ 0 \in 0..BootTime
      BY BootAssumption
    <2> QED
      BY <1>1, <1>2, <2>1, <2>2, BaudAssumption DEF TypeOK, Places, Rates
  <1>5. SettingsSurvive
    BY <1>2 DEF Init, SettingsSurvive, Configured, Storing
  <1>6. DueIsFlagged /\ FlagIsDue /\ CommitKnows /\ LinkIsKnown
    BY <1>2 DEF Init, DueIsFlagged, FlagIsDue, CommitKnows, LinkIsKnown, Begun,
                InCommit, Defaults
  <1> QED
    BY <1>3, <1>5, <1>6 DEF IInv

\* Every step keeps the invariant: the portal flag is followed through page,
\* commit(), store, begin() and get_and_reset_config_portal_on_boot().
LEMMA NextInv == IInv /\ [Next]_vars => IInv'
  <1> SUFFICES ASSUME IInv, [Next]_vars PROVE IInv'
    OBVIOUS
  <1> USE DEF IInv, TypeOK, Places, SettingsSurvive, Configured, Storing,
              DueIsFlagged, FlagIsDue, CommitKnows, InCommit, LinkIsKnown, Begun, trying
  <1>1. /\ ram \in Config /\ ram.baud \in Rates /\ ram.portal \in BOOLEAN
        /\ Noise \in Rates
    BY DEF Config, Rates
  <1>2. /\ 0 \in 0..MaxWait /\ 0 \in 0..BootTime
        /\ waited < MaxWait => waited + 1 \in 0..MaxWait
        /\ waited = MaxWait => waited >= readyAt
    BY BootAssumption
  <1>3. CASE LoadConfig
    BY <1>3, LoadedBack, LoadedType
       DEF LoadConfig, boot, supply, history, Commit
  <1>4. CASE BeginSucceeds
    BY <1>4, <1>1 DEF BeginSucceeds, store, supply, history, Answers
  <1>5. CASE BeginAgain
    BY <1>5, <1>1, <1>2 DEF BeginAgain, store, supply, history, Answers
  <1>6. CASE BeginGivesUp
    BY <1>6, <1>1, <1>2 DEF BeginGivesUp, store, supply, history, Answers
  <1>7. CASE ReadFlag
    BY <1>7, <1>1, SetFlag DEF ReadFlag, supply, history, Commit
  <1>8. CASE CommitSkip
    BY <1>8, LoadedBack DEF CommitSkip, Stored, boot, supply
  <1>9. CASE CommitErase
    BY <1>9, ImageType, LoadedBack DEF CommitErase, boot, supply, history
  <1>10. CASE CommitWrite
    BY <1>10, ImageType, LoadedBack DEF CommitWrite, Stored, boot, supply
  <1>11. CASE CommitFails
    BY <1>11 DEF CommitFails, store, boot, supply
  <1>12. CASE WriteFails
    BY <1>12, TornType DEF WriteFails, boot, supply
  <1>13. CASE StartPortal
    BY <1>13 DEF StartPortal, store, boot, supply
  <1>14. CASE Restart
    BY <1>14, <1>1, <1>2, ImageType, LoadedBack DEF Restart, history, Fresh
  <1>15. CASE WifiConnects
    BY <1>15 DEF WifiConnects, store, supply, history, Connecting
  <1>16. CASE WifiFails
    BY <1>16 DEF WifiFails, store, boot, supply, history, Connecting
  <1>17. CASE MdnsFails
    BY <1>17 DEF MdnsFails, store, boot, supply, history, Connecting
  <1>18. CASE TimeReceived
    BY <1>18 DEF TimeReceived, store, supply, history
  <1>19. CASE RebootToPortal
    BY <1>19, SetFlag DEF RebootToPortal, boot, supply, history, Commit
  <1>20. CASE Reboot
    BY <1>20 DEF Reboot, store, boot, supply, history
  <1>21. CASE PowerOn
    BY <1>21 DEF PowerOn, store, boot, history
  <1>22. CASE PowerOff
    BY <1>22, <1>1, <1>2, ImageType, LoadedBack, TornType
       DEF PowerOff, supply, Fresh
  <1>23. ASSUME NEW ok \in BOOLEAN, SetClock(ok) PROVE IInv'
    BY <1>23 DEF SetClock, store, supply, history
  <1>24. ASSUME NEW c \in Choices, PostConfig(c) PROVE IInv'
    BY <1>24, SetChoice DEF PostConfig, boot, supply, Commit
  <1>25. CASE UNCHANGED vars
    BY <1>25 DEF vars, store, boot, supply, history
  <1> QED
    BY <1>3, <1>4, <1>5, <1>6, <1>7, <1>8, <1>9, <1>10, <1>11, <1>12, <1>13, <1>14,
       <1>15, <1>16, <1>17, <1>18, <1>19, <1>20, <1>21, <1>22, <1>23, <1>24, <1>25
       DEF Next, Firmware, Network, Users, Power

-----------------------------------------------------------------------------
\* The invariant holds always.
THEOREM Invariance == Spec => []IInv
  BY InitInv, NextInv, PTL DEF Spec

\* Every variable of DongleBoot has its type, for all constants.
THEOREM BootTypeCorrect == Spec => []TypeOK
  <1>1. IInv => TypeOK
    BY DEF IInv
  <1> QED
    BY <1>1, Invariance, PTL

\* The settings the user posted last are in use and in the store, through
\* restarts, power failures, failing commits that store no settings, and the
\* first version of the store, unless storing them went wrong.
THEOREM SettingsAreKept == Spec => []SettingsSurvive
  <1>1. IInv => SettingsSurvive
    BY DEF IInv
  <1> QED
    BY <1>1, Invariance, PTL

\* A supply is found in setup() exactly if the stored baud rate is its own and the
\* last try is not lost.
THEOREM SupplyFound == Spec => []SupplyIsFound
  <1>1. IInv => SupplyIsFound
    BY DEF IInv, SupplyIsFound, LinkIsKnown, Begun
  <1> QED
    BY <1>1, Invariance, PTL

\* Only get_and_reset_config_portal_on_boot() leads from "flag" into the rest
\* of connect_wifi(), and only it sets forced.
LEMMA FlagRead ==
    ASSUME Next, (pc = "flag" /\ Configured') \/ (~forced /\ forced')
    PROVE  ReadFlag
  <1>1. CASE \E ok \in BOOLEAN : SetClock(ok)
    BY <1>1 DEF SetClock
  <1>2. CASE \E c \in Choices : PostConfig(c)
    BY <1>2 DEF PostConfig, boot
  <1>3. CASE LoadConfig \/ BeginSucceeds \/ BeginAgain \/ BeginGivesUp \/ StartPortal
    BY <1>3 DEF LoadConfig, BeginSucceeds, BeginAgain, BeginGivesUp, StartPortal, boot,
                Configured
  <1>4. CASE CommitSkip \/ CommitErase \/ CommitWrite \/ CommitFails \/ WriteFails
    BY <1>4 DEF CommitSkip, CommitErase, CommitWrite, CommitFails, WriteFails, Stored, boot
  <1>5. CASE WifiConnects \/ WifiFails \/ MdnsFails \/ TimeReceived
    BY <1>5 DEF WifiConnects, WifiFails, MdnsFails, TimeReceived, Connecting, boot
  <1>6. CASE RebootToPortal \/ Reboot \/ Restart \/ PowerOn \/ PowerOff
    BY <1>6 DEF RebootToPortal, Reboot, Restart, PowerOn, PowerOff, Fresh, Configured, boot
  <1> QED
    BY <1>1, <1>2, <1>3, <1>4, <1>5, <1>6 DEF Next, Firmware, Network, Users, Power

\* A portal the page has announced is shown at the next start.
THEOREM PortalIsShown == Spec => PortalWhenAsked
  <1>1. IInv /\ [Next]_vars
           => [pc = "flag" /\ Configured' /\ ~forced' => due # "yes"]_vars
    <2> SUFFICES ASSUME IInv, Next, pc = "flag", Configured', ~forced'
                 PROVE  due # "yes"
      OBVIOUS
    <2> QED
      BY FlagRead DEF ReadFlag, IInv, DueIsFlagged, InCommit
  <1> QED
    BY <1>1, Invariance, PTL DEF Spec, PortalWhenAsked

\* A portal is not shown again, by whatever restart, once it has been shown.
THEOREM PortalIsShownOnce == Spec => PortalOnlyWhenAsked
  <1>1. IInv /\ [Next]_vars => [~forced /\ forced' => due # "no"]_vars
    <2> SUFFICES ASSUME IInv, Next, ~forced, forced' PROVE due # "no"
      OBVIOUS
    <2> QED
      BY FlagRead DEF ReadFlag, IInv, FlagIsDue, InCommit
  <1> QED
    BY <1>1, Invariance, PTL DEF Spec, PortalOnlyWhenAsked

-----------------------------------------------------------------------------
\* A start never goes back, and takes a bounded number of steps, for every
\* number of tries that begin() has: what is left of it falls with each step.
THEOREM StartsAdvance == Spec => StartAdvances
  <1>1. IInv /\ [Next]_vars
           => [InStart' => IF InStart THEN StepsToGo' < StepsToGo
                                      ELSE pc \in {"off", "restart"}]_vars
    <2> SUFFICES ASSUME IInv, Next, InStart'
                 PROVE  IF InStart THEN StepsToGo' < StepsToGo
                                   ELSE pc \in {"off", "restart"}
      OBVIOUS
    <2> USE DEF InStart, StepsToGo, trying
    <2>1. MaxWait \in Nat /\ waited \in 0..MaxWait /\ pc \in Places
          /\ after \in {"modbus", "connect", "running", "restart"}
      BY BootAssumption DEF IInv, TypeOK
    <2>2. CASE LoadConfig
      BY <2>1, <2>2 DEF LoadConfig, Commit, boot
    <2>3. CASE BeginSucceeds \/ BeginAgain \/ BeginGivesUp
      BY <2>1, <2>3 DEF BeginSucceeds, BeginAgain, BeginGivesUp
    <2>4. CASE ReadFlag
      BY <2>1, <2>4 DEF ReadFlag, Commit
    <2>5. CASE CommitSkip \/ CommitErase \/ CommitWrite \/ CommitFails \/ WriteFails
      BY <2>1, <2>5 DEF CommitSkip, CommitErase, CommitWrite, CommitFails, WriteFails, Stored, boot
    <2>6. CASE StartPortal
      BY <2>1, <2>6 DEF StartPortal
    <2>7. CASE Restart \/ PowerOn
      BY <2>7 DEF Restart, PowerOn
    <2>8. ~(WifiConnects \/ WifiFails \/ MdnsFails \/ TimeReceived)
      BY DEF WifiConnects, WifiFails, MdnsFails, TimeReceived
    <2>9. ~(RebootToPortal \/ Reboot \/ PowerOff)
      BY DEF RebootToPortal, Reboot, PowerOff, Commit
    <2>10. ~(\E ok \in BOOLEAN : SetClock(ok)) /\ ~(\E c \in Choices : PostConfig(c))
      BY DEF SetClock, PostConfig, Commit
    <2> QED
      BY <2>2, <2>3, <2>4, <2>5, <2>6, <2>7, <2>8, <2>9, <2>10
         DEF Next, Firmware, Network, Users, Power
  <1> QED
    BY <1>1, Invariance, PTL DEF Spec, StartAdvances
=============================================================================
