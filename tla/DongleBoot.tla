----------------------------- MODULE DongleBoot -----------------------------
(***************************************************************************)
(* How the dongle starts, and what survives until it starts again:         *)
(* setup(), connect_wifi() and the clock update of main.cpp, RidenConfig   *)
(* with its EEPROM store, and the web pages that change the configuration  *)
(* or restart the dongle.  Power may fail at any moment; the dongle sits   *)
(* inside the power supply, so that both start together.                   *)
(***************************************************************************)
EXTENDS Naturals

CONSTANTS Zones,        \* time zone names the configuration page offers
          NoZone,       \* the empty name
          Bauds,        \* baud rates the page offers and a supply may use
          DefaultBaud,  \* DEFAULT_UART_BAUDRATE
          Noise,        \* a name or a rate read from a half-written store, or a
                        \* rate that did not parse
          BootTime,     \* bound: tries of begin() before the supply answers
          MaxWait       \* tries of begin() that fit in five seconds

ASSUME BaudAssumption == DefaultBaud \in Bauds
ASSUME BootAssumption == MaxWait \in Nat /\ BootTime \in 0..MaxWait

VARIABLES
    pc,          \* where the thread is
    after,       \* where the caller of commit() goes on
    flash,       \* the store in the EEPROM
    ram,         \* the members of riden_config
    forced,      \* connect_wifi(): force_wifi_configuration
    waited,      \* tries of riden_modbus.begin() in this boot that failed
    link,        \* the baud rate the UART was opened with
    initialized, \* riden_modbus.begin() has succeeded
    missed,      \* history: its last try failed, although the supply answers
    clock,       \* has_time, did_update_time, and set_clock()'s result
    readyAt,     \* the supply answers from this try of begin() on
    psuBaud,     \* the baud rate the supply is configured for
    wanted,      \* history: the settings the user chose last
    lost,        \* history: storing them has failed or was cut short
    due          \* history: the user has asked for a portal not yet shown;
                 \* "maybe" after a failure that leaves it open

store == <<flash, ram>>
trying == <<waited, link, initialized, missed>>
boot == <<forced, trying, clock>>
supply == <<readyAt, psuBaud>>
history == <<wanted, lost, due>>
vars == <<pc, after, store, boot, supply, history>>

-----------------------------------------------------------------------------
(* The store.                                                              *)

Names == Zones \cup {NoZone, Noise}
Rates == Bauds \cup {Noise}
\* What a post may ask for: handle_config_post() takes any rate, and one that does
\* not parse for 0, with which no supply is found.
Choices == [zone : Zones \cup {NoZone}, baud : Rates]

Config == [zone : Names, portal : BOOLEAN, baud : Rates]
\* "none": no magic, or a version that begin() does not know.
Stores == [version : {"none", "v1", "v2"}, config : Config]

Defaults == [zone |-> NoZone, portal |-> FALSE, baud |-> DefaultBaud]
Erased == [version |-> "none", config |-> Defaults]
\* Fault: the baud rate is not stored.
ImageWithoutBaud == [version |-> "v2", config |-> [ram EXCEPT !.baud = DefaultBaud]]
\* Fault: the flag is not stored.
ImageWithoutFlag == [version |-> "v2", config |-> [ram EXCEPT !.portal = FALSE]]
\* What commit() writes.
Image == [version |-> "v2", config |-> ram]

\* What begin() makes of a store: version 1 has no baud rate.
Loaded(s) ==
    CASE s.version = "v2"   -> s.config
      [] s.version = "v1"   -> [s.config EXCEPT !.baud = DefaultBaud]
      [] s.version = "none" -> Defaults

Settings(c) == [zone |-> c.zone, baud |-> c.baud]

\* A write that does not complete leaves the erased sector, or a header
\* followed by fields of which any may be unwritten: there is no checksum.
Torn ==
    {Erased} \cup [version : {"v2"},
                   config : [zone : {ram.zone, Noise}, portal : BOOLEAN,
                             baud : {ram.baud, Noise}]]

-----------------------------------------------------------------------------
(* RidenConfig::commit().  Its result is never looked at.                  *)

Commit(next) == pc' = "commit" /\ after' = next

\* The user's settings, or everything, are at risk.
Storing == pc = "write" \/ (pc = "commit" /\ after = "running")

\* The configuration is stored, and what was due is known again: a portal the
\* page has announced, or the one that is about to be shown.
Stored ==
    /\ flash' = Image
    /\ pc' = after
    /\ lost' = (lost /\ Settings(ram) # wanted)
    /\ due' = IF after \in {"restart", "connect"} THEN "yes" ELSE due
    /\ UNCHANGED <<after, ram, boot, supply, wanted>>

\* EEPROM.commit() does nothing if nothing has changed,
CommitSkip == pc = "commit" /\ flash = Image /\ Stored

\* and otherwise erases the sector
CommitErase ==
    /\ pc = "commit"
    /\ flash' = Erased
    /\ pc' = "write"
    /\ UNCHANGED <<after, ram, boot, supply, history>>

\* and writes it.
CommitWrite == pc = "write" /\ Stored

\* The sector could not be erased.  Only a post of the configuration had
\* settings to store; a flag that is not cleared will be seen again.
CommitFails ==
    /\ pc = "commit"
    /\ pc' = after
    /\ lost' = (lost \/ after = "running")
    /\ due' = IF after = "connect" THEN "maybe" ELSE due
    /\ UNCHANGED <<after, store, boot, supply, wanted>>

WriteFails ==
    /\ pc = "write"
    /\ flash' \in Torn
    /\ pc' = after
    /\ lost' = TRUE /\ due' = "maybe"
    /\ UNCHANGED <<after, ram, boot, supply, wanted>>

-----------------------------------------------------------------------------
(* setup()                                                                 *)

\* Fault: begin() begins again when it has stored the defaults.
LoadConfigAgain ==
    /\ pc = "config"
    /\ ram' = Loaded(flash)
    /\ IF flash.version = "none" THEN Commit("config")
                                 ELSE pc' = "modbus" /\ UNCHANGED after
    /\ UNCHANGED <<flash, boot, supply, history>>
\* RidenConfig::begin(): an unknown store is replaced by the defaults.
LoadConfig ==
    /\ pc = "config"
    /\ ram' = Loaded(flash)
    /\ IF flash.version = "none" THEN Commit("modbus")
                                 ELSE pc' = "modbus" /\ UNCHANGED after
    /\ UNCHANGED <<flash, boot, supply, history>>

\* riden_modbus.begin() opens the UART and reads the supply's id.  A supply that
\* answers may be missed all the same: the request, or its answer, is lost.
Answers == ram.baud = psuBaud /\ waited >= readyAt

BeginSucceeds ==
    /\ pc = "modbus" /\ Answers
    /\ link' = ram.baud /\ initialized' = TRUE
    /\ pc' = "flag"
    /\ UNCHANGED <<after, store, forced, waited, missed, clock, supply, history>>

\* Fault: the five seconds are not looked at.
BeginForever ==
    /\ pc = "modbus"
    /\ link' = ram.baud /\ waited' = waited + 1
    /\ UNCHANGED <<pc, after, store, forced, initialized, missed, clock, supply, history>>
BeginAgain ==
    /\ pc = "modbus" /\ waited < MaxWait
    /\ link' = ram.baud /\ waited' = waited + 1
    /\ UNCHANGED <<pc, after, store, forced, initialized, missed, clock, supply, history>>

\* Fault: begin() is tried once.
GiveUpAtOnce ==
    /\ pc = "modbus"
    /\ link' = ram.baud /\ missed' = Answers
    /\ pc' = "flag"
    /\ UNCHANGED <<after, store, forced, waited, initialized, clock, supply, history>>
\* Fault: begin() is tried until it succeeds.
NeverGiveUp ==
    /\ pc = "modbus" /\ waited = MaxWait
    /\ link' = ram.baud
    /\ UNCHANGED <<pc, after, store, forced, waited, initialized, missed, clock, supply, history>>
\* Five seconds are over: the dongle starts without a supply.
BeginGivesUp ==
    /\ pc = "modbus" /\ waited = MaxWait
    /\ link' = ram.baud /\ missed' = Answers
    /\ pc' = "flag"
    /\ UNCHANGED <<after, store, forced, waited, initialized, clock, supply, history>>

\* Fault: the flag is cleared in RAM only.
ReadFlagOnly ==
    /\ pc = "flag"
    /\ forced' = ram.portal
    /\ ram' = [ram EXCEPT !.portal = FALSE]
    /\ pc' = "connect"
    /\ UNCHANGED <<after, flash, trying, clock, supply, history>>
\* get_and_reset_config_portal_on_boot()
ReadFlag ==
    /\ pc = "flag"
    /\ forced' = ram.portal
    /\ ram' = [ram EXCEPT !.portal = FALSE]
    /\ IF ram.portal THEN Commit("connect")
                     ELSE pc' = "connect" /\ UNCHANGED after
    /\ UNCHANGED <<flash, trying, clock, supply, history>>

\* wifiManager.startConfigPortal()
StartPortal ==
    /\ pc = "connect" /\ forced
    /\ pc' = "portal"
    /\ due' = IF due = "yes" THEN "no" ELSE due
    /\ UNCHANGED <<after, store, boot, supply, wanted, lost>>

Connecting == pc = "portal" \/ (pc = "connect" /\ ~forced)

\* The time is asked for if there is a supply to tell it, and a time zone.
WifiConnects ==
    /\ Connecting
    /\ clock' = IF initialized /\ ram.zone \in Zones THEN "waiting" ELSE clock
    /\ pc' = "running"
    /\ UNCHANGED <<after, store, forced, trying, supply, history>>

\* autoConnect() or startConfigPortal() returns false: ESP.reset().
WifiFails ==
    /\ Connecting
    /\ pc' = "restart"
    /\ UNCHANGED <<after, store, boot, supply, history>>

\* "while (true)": without mDNS the dongle stops here.
MdnsFails ==
    /\ Connecting /\ initialized
    /\ pc' = "hung"
    /\ UNCHANGED <<after, store, boot, supply, history>>

-----------------------------------------------------------------------------
(* loop(): the clock, and the web pages.                                   *)

TimeReceived ==
    /\ pc = "running" /\ clock = "waiting"
    /\ clock' = "received"
    /\ UNCHANGED <<pc, after, store, forced, trying, supply, history>>

\* did_update_time is set whatever set_clock() returns.
SetClock(ok) ==
    /\ pc = "running" /\ clock = "received"
    /\ clock' = IF ok THEN "set" ELSE "failed"
    /\ UNCHANGED <<pc, after, store, forced, trying, supply, history>>

\* handle_config_post(): the rate is used after the next start only.
PostConfig(c) ==
    /\ pc = "running"
    /\ wanted' = c
    /\ ram' = [ram EXCEPT !.zone = c.zone, !.baud = c.baud]
    /\ Commit("running")
    /\ UNCHANGED <<flash, boot, supply, lost, due>>

\* handle_reboot_dongle_get() with config_portal=true, and without; the latter
\* is also how a firmware update ends.
RebootToPortal ==
    /\ pc = "running"
    /\ ram' = [ram EXCEPT !.portal = TRUE]
    /\ Commit("restart")
    /\ UNCHANGED <<flash, boot, supply, history>>

Reboot ==
    /\ pc = "running"
    /\ pc' = "restart"
    /\ UNCHANGED <<after, store, boot, supply, history>>

-----------------------------------------------------------------------------
(* Power and resets.                                                       *)

\* RAM is as the constructors leave it.
Fresh ==
    /\ ram' = Defaults /\ after' = "running"
    /\ forced' = FALSE /\ waited' = 0 /\ link' = Noise
    /\ initialized' = FALSE /\ missed' = FALSE /\ clock' = "unset"

\* ESP.reset(): the supply keeps running and answers at once.
Restart ==
    /\ pc = "restart"
    /\ pc' = "config"
    /\ Fresh
    /\ readyAt' = 0
    /\ UNCHANGED <<flash, psuBaud, history>>

\* The supply may have been given another baud rate while it was on.
PowerOn ==
    /\ pc = "off"
    /\ pc' = "config"
    /\ readyAt' \in 0..BootTime /\ psuBaud' \in Bauds
    /\ UNCHANGED <<after, store, boot, history>>

\* A portal whose flag is cleared and that has not started is forgotten.
PowerOff ==
    /\ pc # "off"
    /\ pc' = "off"
    /\ Fresh
    /\ IF pc = "write" THEN flash' \in Torn ELSE UNCHANGED flash
    /\ lost' = (lost \/ Storing)
    /\ due' = IF pc = "write" \/ (pc = "connect" /\ forced) THEN "maybe" ELSE due
    /\ UNCHANGED <<supply, wanted>>

-----------------------------------------------------------------------------
\* Any store that this or an older firmware has written, or none.
Init ==
    /\ pc = "off" /\ after = "running"
    /\ \E v \in {"v1", "v2"}, c \in Choices, p \in BOOLEAN :
          flash \in {Erased, [version |-> v,
                        config |-> [zone |-> c.zone, portal |-> p, baud |-> c.baud]]}
    /\ ram = Defaults
    /\ forced = FALSE /\ waited = 0 /\ link = Noise
    /\ initialized = FALSE /\ missed = FALSE /\ clock = "unset"
    /\ readyAt = 0 /\ psuBaud = DefaultBaud
    /\ wanted = [zone |-> flash.config.zone,
                 baud |-> IF flash.version = "v1" THEN DefaultBaud
                                                  ELSE flash.config.baud]
    /\ lost = FALSE
    /\ due = IF flash.config.portal THEN "yes" ELSE "no"

\* Steps the firmware takes by itself, and the EEPROM with it.
Firmware ==
    \/ LoadConfig \/ BeginSucceeds \/ BeginAgain \/ BeginGivesUp \/ ReadFlag
    \/ CommitSkip \/ CommitErase \/ CommitWrite \/ CommitFails \/ WriteFails
    \/ StartPortal \/ Restart
    \/ \E ok \in BOOLEAN : SetClock(ok)

Network == WifiConnects \/ WifiFails \/ MdnsFails \/ TimeReceived

Users == (\E c \in Choices : PostConfig(c)) \/ RebootToPortal \/ Reboot

Power == PowerOn \/ PowerOff

Next == Firmware \/ Network \/ Users \/ Power

Spec == Init /\ [][Next]_vars

\* The thread keeps running, and the network is found sooner or later (or the
\* user enters it in the portal).
StartingSpec ==
    /\ Spec
    /\ WF_vars(Firmware)
    /\ SF_vars(WifiConnects)
-----------------------------------------------------------------------------
(* Properties.                                                             *)

Places == {"off", "config", "modbus", "flag", "commit", "write", "connect",
           "portal", "running", "restart", "hung"}

\* Every variable has its type.
TypeOK ==
    /\ pc \in Places
    /\ after \in {"modbus", "connect", "running", "restart"}
    /\ flash \in Stores /\ ram \in Config
    /\ forced \in BOOLEAN /\ waited \in 0..MaxWait /\ link \in Rates
    /\ initialized \in BOOLEAN /\ missed \in BOOLEAN
    /\ clock \in {"unset", "waiting", "received", "set", "failed"}
    /\ readyAt \in 0..BootTime /\ psuBaud \in Bauds
    /\ wanted \in Choices
    /\ lost \in BOOLEAN /\ due \in {"yes", "no", "maybe"}

\* RidenConfig::begin() has run in this boot.
Configured == pc \notin {"off", "config"}

\* The settings the user posted last are those in use and those in the store,
\* across restarts, power failures, upgrades from the first version of the
\* store and requests for the portal, unless storing them itself went wrong;
\* and then storing them once more repairs it (begin(), commit(),
\* handle_config_post(), get_and_reset_config_portal_on_boot()).
SettingsSurvive ==
    ~lost => /\ Configured => Settings(ram) = wanted
             /\ ~Storing => Settings(Loaded(flash)) = wanted

\* A portal the page has announced is shown at the next start, whatever
\* happened since; only a failing EEPROM and a power failure between clearing
\* the flag and starting the portal leave it open
\* (get_and_reset_config_portal_on_boot(), handle_reboot_dongle_get()).
PortalWhenAsked ==
    [][pc = "flag" /\ Configured' /\ ~forced' => due # "yes"]_vars

\* The portal is shown once per request: no restart shows it again, unless the
\* EEPROM failed (get_and_reset_config_portal_on_boot()).
PortalOnlyWhenAsked ==
    [][~forced /\ forced' => due # "no"]_vars

\* A supply that uses the stored baud rate and needs no longer to start than
\* setup() waits is found, unless the request of the last try is lost, and no other
\* supply is found (begin() in setup()).
SupplyIsFound ==
    pc = "running" => (initialized <=> link = psuBaud /\ ~missed)

\* The places of a start, and how far it is from its end: each place is passed
\* once, begin() of the supply apart, and the two calls of commit() differ.
InStart == \/ pc \in {"config", "modbus", "flag", "connect", "portal"}
           \/ pc \in {"commit", "write"} /\ after \notin {"running", "restart"}
StepsToGo ==
    CASE pc = "config"                        -> MaxWait + 9
      [] pc = "commit" /\ after # "connect"   -> MaxWait + 8
      [] pc = "write" /\ after # "connect"    -> MaxWait + 7
      [] pc = "modbus"                        -> MaxWait - waited + 6
      [] pc = "flag"                          -> 5
      [] pc = "commit" /\ after = "connect"   -> 4
      [] pc = "write" /\ after = "connect"    -> 3
      [] pc = "connect"                       -> 2
      [] OTHER                                -> 1

\* A start never goes back: whatever the EEPROM, the supply and the network do,
\* each step of setup() brings it nearer to its end, within MaxWait + 9 steps,
\* and only power and a reset begin one.
StartAdvances ==
    [][InStart' => IF InStart THEN StepsToGo' < StepsToGo
                              ELSE pc \in {"off", "restart"}]_vars

\* The dongle comes up, or stops for want of mDNS, whether or not a supply
\* answers, the EEPROM works and the network is found at once (setup()).
ComesUp == pc = "config" ~> pc \in {"running", "hung", "off"}
=============================================================================
