---------------------------- MODULE SiteRegistry ----------------------------
(***************************************************************************)
(* The list of sites (registry.py): names, addresses, the limit, and how   *)
(* config.yaml shadows what the store holds.  MonitorService models the    *)
(* steps of these operations and takes the name as given; here each        *)
(* operation is one step, since only the bot calls them, one at a time,    *)
(* and the names are what is looked at.                                    *)
(*                                                                         *)
(* A name is <<title, k>>: k = 1 is the title itself, k > 1 the title with *)
(* the suffix " (k)" that _unique_name appends.                            *)
(***************************************************************************)
EXTENDS Naturals, FiniteSets

CONSTANTS
    None,
    Urls,
    Titles,     \* what name_from_url may return
    Host,       \* address -> the title that is derived from it
    MaxSites,   \* MAX_TELEGRAM_SERVICES
    Configs     \* contents config.yaml may have: name -> address or None

Names == Titles \X (1..(MaxSites + 1))

ASSUME RegistryAssumption ==
    /\ IsFiniteSet(Titles) /\ MaxSites \in Nat \ {0}
    /\ Host \in [Urls -> Titles]
    /\ None \notin Urls
    /\ Configs # {} /\ Configs \subseteq [Names -> Urls \union {None}]

VARIABLES
    config,     \* ServiceRegistry._config
    telegram,   \* ServiceRegistry._telegram
    rows        \* table managed_service

vars == <<config, telegram, rows>>

\* load: a row is ignored while config.yaml has a site of its name.
Loaded(c, r) == [n \in Names |-> IF c[n] = None THEN r[n] ELSE None]

Init ==
    /\ config \in Configs
    /\ rows = [n \in Names |-> None]
    /\ telegram = Loaded(config, rows)

Named(f) == {n \in Names : f[n] # None}

\* get
Get(n) == IF config[n] # None THEN config[n] ELSE telegram[n]

BelowLimit == Cardinality(Named(telegram)) < MaxSites

\* Mutant: only the sites added from Telegram are compared.
IsListed_InTelegram(u) == \E n \in Names : telegram[n] = u

\* all(): the address belongs to a site that is listed.
IsListed(u) == \E n \in Names : config[n] = u \/ telegram[n] = u

\* Mutant: the suffixes end one too early.
Suffixes_Short == 2..(MaxSites - 1)

Suffixes == 2..(MaxSites + 1)

\* The names _unique_name may return.
Free(t) == {k \in Suffixes : Get(<<t, k>>) = None}

Addable(u) == BelowLimit /\ ~IsListed(u)

\* Mutant: a new site is kept in memory only.
Store_MemoryOnly(n, u) ==
    /\ telegram' = [telegram EXCEPT ![n] = u]
    /\ UNCHANGED <<config, rows>>

Store(n, u) ==
    /\ rows' = [rows EXCEPT ![n] = u]
    /\ telegram' = [telegram EXCEPT ![n] = u]
    /\ UNCHANGED config

\* /add <address> <name>
AddNamed(u, n) == Addable(u) /\ Get(n) = None /\ Store(n, u)

\* /add <address>: the host, or the host with the first free suffix.
Add(u) ==
    LET bare == <<Host[u], 1>>
    IN  /\ Addable(u)
        /\ IF Get(bare) = None
           THEN Store(bare, u)
           ELSE \E k \in Free(Host[u]) :
                    /\ \A j \in Free(Host[u]) : k <= j
                    /\ Store(<<Host[u], k>>, u)

\* Mutant: any site that is listed may be removed.
Editable_Any(n) == Get(n) # None

\* _require_editable
Editable(n) == Get(n) # None /\ config[n] = None

Remove(n) ==
    /\ Editable(n)
    /\ rows' = [rows EXCEPT ![n] = None]
    /\ telegram' = [telegram EXCEPT ![n] = None]
    /\ UNCHANGED config

\* The process starts again, perhaps with an edited config.yaml.
Restart ==
    /\ config' \in Configs
    /\ telegram' = Loaded(config', rows)
    /\ UNCHANGED rows

Next ==
    \/ \E u \in Urls : Add(u) \/ \E n \in Names : AddNamed(u, n)
    \/ \E n \in Names : Remove(n)
    \/ Restart

Spec == Init /\ [][Next]_vars

-----------------------------------------------------------------------------
(* Properties.                                                             *)

Lists == [Names -> Urls \union {None}]

(* Every variable holds a value of its kind.                               *)
TypeOK == config \in Lists /\ telegram \in Lists /\ rows \in Lists

(* A restart with the same config.yaml finds the sites that were listed:   *)
(* every operation changes memory and store alike (registry.py:76-86,      *)
(* 121-139).  The proofs rest on this invariant.                           *)
RegistryInv == TypeOK /\ telegram = Loaded(config, rows)

(* An address that may be added gets a name of its own: the search of      *)
(* _unique_name never ends empty-handed, however many sites share a host,  *)
(* if config.yaml holds at most one site (registry.py:106-107, 128-133).   *)
NameIsFound ==
    Cardinality(Named(config)) <= 1 =>
        \A u \in Urls :
            Addable(u) /\ Get(<<Host[u], 1>>) # None => Free(Host[u]) # {}

\* No address is listed twice, and no more sites are added than the limit.
Proper ==
    /\ \A m, n \in Names : m # n /\ Get(m) # None => Get(m) # Get(n)
    /\ Cardinality(Named(telegram)) <= MaxSites

(* Only an edited config.yaml can bring an address onto the list twice, or *)
(* more sites than the limit: no operation of the bot does, and no restart *)
(* with the same file (registry.py:106-111).                               *)
StaysProper == [][Proper /\ config' = config => Proper']_vars

(* A row of the store is lost only when its own site is deleted: a site    *)
(* that config.yaml shadows comes back when config.yaml drops it, whatever *)
(* was done to its namesake meanwhile (registry.py:76-81, 155-163).        *)
ShadowedRowsAreKept ==
    [][\A n \in Names :
         rows[n] # None /\ rows'[n] # rows[n] => telegram[n] = rows[n]]_vars
=============================================================================
