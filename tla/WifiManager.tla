------------------------------- MODULE WifiManager ------------------------------
(***************************************************************************)
(* The station side of the WiFi manager (wifi_manager.cpp): the event      *)
(* handler, the reconnect task and the task that starts the network        *)
(* services, over the driver's association.  The three run on one core and *)
(* preempt each other; a step is what happens between two points where the *)
(* order shows.  The length of the backoff is left out: a sleep lasts any  *)
(* time.                                                                   *)
(***************************************************************************)
EXTENDS Naturals

CONSTANT Threshold \* kApFallbackThreshold

ASSUME WifiAssumption == Threshold \in Nat \ {0}

VARIABLES
  range,     \* the network is there
  assoc,     \* the driver: "off", "down", "joining", "linked" (no address), "up"
  connected, \* s_connected
  lost,      \* BIT_LOST_IP
  gotIp,     \* BIT_GOT_IP
  attempts,  \* s_attempts, no further than the threshold it is compared with
  rc,        \* reconnect_task: "wait", "sleep", "retry", "check"
  seen,      \* s_attempts + 1 as the task worked it out
  apActive,  \* s_ap_active
  services   \* start_network_services has run

driver == <<range, assoc>>
link == <<connected, lost, gotIp, attempts>>
wifi == <<range, assoc, connected, lost, gotIp, attempts, rc, seen, apActive, services>>

WifiTypeOK ==
  /\ range \in BOOLEAN /\ assoc \in {"off", "down", "joining", "linked", "up"}
  /\ connected \in BOOLEAN /\ lost \in BOOLEAN /\ gotIp \in BOOLEAN
  /\ attempts \in 0 .. Threshold /\ seen \in 0 .. Threshold
  /\ rc \in {"wait", "sleep", "retry", "check"}
  /\ apActive \in BOOLEAN /\ services \in BOOLEAN

\* Before wifi_start_sta: nothing is allocated and no task runs.
Off ==
  /\ assoc = "off" /\ connected = FALSE /\ lost = FALSE /\ gotIp = FALSE
  /\ attempts = 0 /\ rc = "wait" /\ seen = 0 /\ apActive = FALSE /\ services = FALSE

\* A reset.
TurnOff ==
  /\ assoc' = "off" /\ connected' = FALSE /\ lost' = FALSE /\ gotIp' = FALSE
  /\ attempts' = 0 /\ rc' = "wait" /\ seen' = 0 /\ apActive' = FALSE /\ services' = FALSE

\* The driver starts, and WIFI_EVENT_STA_START connects.
StartStation ==
  /\ assoc = "off" /\ assoc' = "joining"
  /\ UNCHANGED <<range, link, rc, seen, apActive, services>>

--------------------------------------------------------------------------------
(* on_event, and the driver that posts the events.                             *)

\* WIFI_EVENT_STA_DISCONNECTED and IP_EVENT_STA_LOST_IP.
HandleLost ==
  /\ connected' = FALSE /\ lost' = TRUE
  /\ UNCHANGED <<gotIp, attempts>>

\* IP_EVENT_STA_GOT_IP.
HandleGotIp ==
  /\ connected' = TRUE /\ gotIp' = TRUE /\ attempts' = 0
  /\ UNCHANGED lost

Join ==
  /\ assoc = "joining" /\ range /\ assoc' = "linked"
  /\ UNCHANGED <<range, link, rc, seen, apActive, services>>

JoinFails ==
  /\ assoc = "joining" /\ assoc' = "down" /\ HandleLost
  /\ UNCHANGED <<range, rc, seen, apActive, services>>

GetAddress ==
  /\ assoc = "linked" /\ range /\ assoc' = "up" /\ HandleGotIp
  /\ UNCHANGED <<range, rc, seen, apActive, services>>

\* The lease ends with the association up; the DHCP client goes on asking.
LoseAddress ==
  /\ assoc = "up" /\ assoc' = "linked" /\ HandleLost
  /\ UNCHANGED <<range, rc, seen, apActive, services>>

Disassociate ==
  /\ assoc \in {"linked", "up"} /\ assoc' = "down" /\ HandleLost
  /\ UNCHANGED <<range, rc, seen, apActive, services>>

\* The access point goes out of reach, and comes back.
RangeChanges == range' = ~range /\ UNCHANGED <<assoc, link, rc, seen, apActive, services>>

--------------------------------------------------------------------------------
(* reconnect_task and net_start_task.                                          *)

\* xEventGroupWaitBits clears the bit it waited for.
RcWake ==
  /\ assoc # "off" /\ rc = "wait" /\ lost
  /\ lost' = FALSE /\ rc' = "sleep"
  /\ UNCHANGED <<driver, connected, gotIp, attempts, seen, apActive, services>>

Counted(n) == IF n < Threshold THEN n + 1 ELSE n

\* After the backoff, s_attempts + 1 is a read and then a store.
RcRead ==
  /\ rc = "sleep" /\ rc' = "retry" /\ seen' = Counted(attempts)
  /\ UNCHANGED <<driver, link, apActive, services>>

\* esp_wifi_connect does nothing on a link that is up or on its way.
Reconnected == IF assoc = "down" THEN "joining" ELSE assoc

\* Mutant: once the access point of its own is up the station is left alone.
RcRetryUntilAp ==
  /\ rc = "retry" /\ rc' = "check"
  /\ attempts' = seen /\ seen' = 0 /\ assoc' = IF apActive THEN assoc ELSE Reconnected
  /\ UNCHANGED <<range, connected, lost, gotIp, apActive, services>>

RcRetry ==
  /\ rc = "retry" /\ rc' = "check"
  /\ attempts' = seen /\ seen' = 0 /\ assoc' = Reconnected
  /\ UNCHANGED <<range, connected, lost, gotIp, apActive, services>>

\* start_ap_fallback, which app_main always requests.
RcCheck ==
  /\ rc = "check" /\ rc' = "wait"
  /\ apActive' = (apActive \/ attempts >= Threshold)
  /\ UNCHANGED <<driver, link, seen, services>>

NetStart ==
  /\ gotIp /\ ~services /\ services' = TRUE
  /\ UNCHANGED <<driver, link, rc, seen, apActive>>

Reconnect == RcWake \/ RcRead \/ RcRetry \/ RcCheck
================================================================================
