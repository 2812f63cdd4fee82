----------------------------- MODULE CloudRanges -----------------------------
(***************************************************************************)
(* The prefix table of monitors/cloud_ranges.rs: classification of an      *)
(* address by the longest matching prefix, the hardcoded table every       *)
(* reader falls back to, and the task of main.rs that replaces it by the   *)
(* lists AWS and GCP publish.                                              *)
(*                                                                         *)
(* An address is a number of Width bits, both families in one; an IPv6     *)
(* address that maps an IPv4 one is that number with the mark "mapped".    *)
(***************************************************************************)
EXTENDS Integers, Sequences

CONSTANTS
  Width,          \* bits of an address
  LocalHosts,     \* loopback, private, link-local, unspecified, unique-local
  SharedHosts,    \* RFC 6598 shared space
  Fallback,       \* the entries of build_fallback
  AwsLists,       \* the lists of prefixes each provider may publish
  GcpLists,
  NetworkStates   \* what fetches may meet

Hosts == 0..(2 ^ Width - 1)
Addresses == [mapped : BOOLEAN, host : Hosts]
Nets == [bits : Hosts, len : 0..Width]
Clouds == {"AWS", "Azure", "GCP", "Cloudflare"}
Providers == Clouds \union {"Tailscale", "Local", "Internet"}
Entries == [net : Nets, provider : Clouds, detail : {"fallback", "published"}]

ASSUME WidthAssumption == Width \in Nat
ASSUME HostAssumption == LocalHosts \subseteq Hosts /\ SharedHosts \subseteq Hosts
ASSUME FallbackAssumption == Fallback \in Seq(Entries)
ASSUME ListAssumption == AwsLists \subseteq Seq(Nets) /\ GcpLists \subseteq Seq(Nets)
ASSUME NetworkAssumption == NetworkStates \subseteq {"up", "down", "stalled"}

VARIABLES
  table,          \* RANGES: where it comes from, and its entries
  fetch,          \* the refreshing task: what it does, and the entries it has
  published,      \* external: the lists as the providers publish them now
  network         \* external: what a request meets

cloud == <<table, fetch, published, network>>

NoTable == [source |-> "none", entries |-> <<>>]
FallbackTable == [source |-> "fallback", entries |-> Fallback]
Asleep == [pc |-> "asleep", entries |-> <<>>]

CloudTypeOK ==
  /\ table \in [source : {"none", "fallback", "live"}, entries : Seq(Entries)]
  /\ fetch \in [pc : {"asleep", "aws", "gcp", "stuck"}, entries : Seq(Entries)]
  /\ published \in [aws : AwsLists, gcp : GcpLists]
  /\ network \in NetworkStates

CloudInit ==
  /\ table = NoTable /\ fetch = Asleep
  /\ published \in [aws : AwsLists, gcp : GcpLists]
  /\ network \in NetworkStates

-----------------------------------------------------------------------------
(* What an address is.                                                     *)
Metered == {"AWS", "Azure", "GCP"}
IsMesh(provider) == provider = "Tailscale"

\* Mutant of IsLocal: a mapped address is not folded to IPv4 first.
IsLocalUnfolded(ip) == ~ip.mapped /\ ip.host \in LocalHosts
Canonical(ip) == ip.host
IsLocal(ip) == Canonical(ip) \in LocalHosts
IsShared(ip) == Canonical(ip) \in SharedHosts

Covers(net, host) == host \div 2 ^ (Width - net.len) = net.bits

(* match_public: the longest prefix, the first entry among equal ones.     *)
Matching(entries, host) == {i \in DOMAIN entries : Covers(entries[i].net, host)}
\* Mutant of Longest: the first match wins.
LongestFirst(entries, host) ==
  CHOOSE i \in Matching(entries, host) : \A j \in Matching(entries, host) : i <= j
Longest(entries, host) ==
  CHOOSE i \in Matching(entries, host) : \A j \in Matching(entries, host) :
    \/ entries[j].net.len < entries[i].net.len
    \/ entries[j].net.len = entries[i].net.len /\ i <= j

(* ensure_initialized: readers find the fallback table at least.           *)
Initialized == IF table = NoTable THEN FallbackTable ELSE table

Is(provider, detail) == [provider |-> provider, detail |-> detail]
Classify(ip) ==
  LET entries == Initialized.entries IN
  IF IsShared(ip) THEN Is("Tailscale", "mesh")
  ELSE IF IsLocal(ip) THEN Is("Local", "local")
  ELSE IF Matching(entries, Canonical(ip)) = {} THEN Is("Internet", "unattributed")
  ELSE LET best == entries[Longest(entries, Canonical(ip))] IN Is(best.provider, best.detail)

-----------------------------------------------------------------------------
(* refresh_from_network and its loop.                                      *)
EntriesOf(prefixes, provider) ==
  [i \in DOMAIN prefixes |->
     [net |-> prefixes[i], provider |-> provider, detail |-> "published"]]

BeginRefresh ==
  /\ fetch.pc = "asleep"
  /\ fetch' = [pc |-> "aws", entries |-> Fallback]
  /\ UNCHANGED <<table, published, network>>

(* A request on a connection that stalls has no timeout to end it.         *)
Stall ==
  /\ fetch.pc \in {"aws", "gcp"} /\ network = "stalled"
  /\ fetch' = [fetch EXCEPT !.pc = "stuck"]
  /\ UNCHANGED <<table, published, network>>

Fetched(prefixes, provider) ==
  fetch.entries \o (IF network = "up" THEN EntriesOf(prefixes, provider) ELSE <<>>)

FetchAws ==
  /\ fetch.pc = "aws" /\ network # "stalled"
  /\ fetch' = [pc |-> "gcp", entries |-> Fetched(published.aws, "AWS")]
  /\ UNCHANGED <<table, published, network>>

\* Mutant of FetchGcp: the table is published whatever was fetched.
FetchGcpAndPublish ==
  /\ fetch.pc = "gcp" /\ network # "stalled"
  /\ fetch' = Asleep
  /\ table' = [source |-> "live", entries |-> Fetched(published.gcp, "GCP")]
  /\ UNCHANGED <<published, network>>

\* Mutant of FetchGcp: a live table is not replaced any more.
FetchGcpFirst ==
  /\ fetch.pc = "gcp" /\ network # "stalled"
  /\ LET entries == Fetched(published.gcp, "GCP") IN
       table' = IF Len(entries) > Len(Fallback) /\ table.source # "live"
                THEN [source |-> "live", entries |-> entries] ELSE table
  /\ fetch' = Asleep
  /\ UNCHANGED <<published, network>>

(* The second list, and without a pause the publication.                   *)
FetchGcp ==
  /\ fetch.pc = "gcp" /\ network # "stalled"
  /\ LET entries == Fetched(published.gcp, "GCP") IN
       table' = IF Len(entries) > Len(Fallback)
                THEN [source |-> "live", entries |-> entries] ELSE table
  /\ fetch' = Asleep
  /\ UNCHANGED <<published, network>>

RefreshStep == BeginRefresh \/ FetchAws \/ FetchGcp \/ Stall

NetworkBecomes(state) ==
  /\ network' = state
  /\ UNCHANGED <<table, fetch, published>>

Announce(lists) ==
  /\ published' = lists
  /\ UNCHANGED <<table, fetch, network>>

CloudNext ==
  \/ RefreshStep
  \/ \E state \in NetworkStates : NetworkBecomes(state)
  \/ \E lists \in [aws : AwsLists, gcp : GcpLists] : Announce(lists)

-----------------------------------------------------------------------------
Narrowest(entries, h) ==
  {i \in Matching(entries, h) : \A j \in Matching(entries, h) : entries[j].net.len <= entries[i].net.len}

(* An address goes to a provider whose prefix around it is the narrowest   *)
(* known, and what no published prefix covers goes where the hardcoded     *)
(* table puts it, however many refreshes have replaced the table.          *)
AttributionIsMostSpecific ==
  \A ip \in Addresses :
    LET h == Canonical(ip)
        found == Classify(ip)
        entries == Initialized.entries
        listed == {i \in Matching(entries, h) : entries[i].detail = "published"}
    IN h \notin LocalHosts \union SharedHosts =>
         /\ Narrowest(entries, h) # {} =>
              \E i \in Narrowest(entries, h) : found.provider = entries[i].provider
         /\ listed = {} /\ Narrowest(Fallback, h) # {} =>
              \E i \in Narrowest(Fallback, h) : found = Is(Fallback[i].provider, "fallback")

(* A table that calls itself live has something published in it, whatever  *)
(* mixture of failures the refreshes met.                                  *)
LiveMeansAList ==
  table.source = "live" => \E i \in DOMAIN table.entries : table.entries[i].detail = "published"

=============================================================================
