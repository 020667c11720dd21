---------------------------- MODULE PanelPkiFiles -----------------------------
(***************************************************************************)
(* The files of the Panel's management PKI                                 *)
(* (panel/internal/pki/manager.go, the flag -pki-rotate-intermediate of    *)
(* cmd/panel/main.go): the Panel opens and, where there are none, creates  *)
(* them, renews its client identity, and a run of the command replaces the *)
(* intermediate. Each file is replaced by a rename, one after the other;   *)
(* the process may stop between any two, and a renewal may fail there.     *)
(*                                                                         *)
(* docs/management-pki.md has the Panel stopped while the command runs and *)
(* the root's key taken away afterwards: one process at a time has the     *)
(* files. Abstracted: a key is a number, time goes in ticks of about a     *)
(* month, and the certificates the Panel issues to Agents (ManagementPki). *)
(***************************************************************************)
EXTENDS Naturals, Sequences

CONSTANTS
    IntermediateLife, ClientLife, \* validity of the two certificates, in ticks
    RenewBefore,    \* the time left at which the client identity is renewed
    MaxTicks,       \* bound: time
    MaxStarts        \* bound: starts of the Panel and of the command

ASSUME PkiFilesAssumption ==
    /\ {IntermediateLife, ClientLife, RenewBefore, MaxTicks, MaxStarts} \subseteq Nat
    /\ 0 < RenewBefore /\ RenewBefore < ClientLife /\ ClientLife <= IntermediateLife

VARIABLES
    file,       \* the files
    keys,       \* keys generated so far
    pc,         \* what the process does: down, opening, load, client, running
    cli,        \* the process is the command; "rotated" once it has a new intermediate
    todo,       \* the files it is about to write
    mem,        \* Manager: the intermediate certificate, the client certificate and its key
    clock, starts,
    renewalFailed, \* history: the last renewal of a Panel that runs on failed
    torn        \* history: a stop between two files that belong together

pkiVars == <<file, keys, pc, cli, todo, mem, clock, starts, renewalFailed, torn>>

\* A certificate: its key, the key that signed it, its end. No certificate: key 0.
Cert(key, issuer, until) == [key |-> key, issuer |-> issuer, until |-> until]
NoCert == Cert(0, 0, 0)
Key(k) == Cert(k, 0, 0)

Files == {"root.key", "root.crt", "int.key", "int.crt", "client.key", "client.crt"}
Certs == [key : Nat, issuer : Nat, until : Nat]

PkiFilesTypeOK ==
    /\ file \in [Files -> Certs]
    /\ keys \in Nat
    /\ pc \in {"down", "load", "client", "running"}
    /\ cli \in {"no", "rotate", "rotated"}
    /\ \A i \in 1 .. Len(todo) : todo[i].name \in Files /\ todo[i].data \in Certs
    /\ mem \in [int : Certs, client : Certs, key : Certs]
    /\ clock \in 0 .. MaxTicks /\ starts \in 0 .. MaxStarts
    /\ renewalFailed \in BOOLEAN /\ torn \in BOOLEAN
    /\ pc = "running" => todo = <<>>

NoMem == [int |-> NoCert, client |-> NoCert, key |-> NoCert]

PkiFilesInit ==
    /\ file = [f \in Files |-> NoCert]
    /\ keys = 0
    /\ pc = "down" /\ cli = "no" /\ todo = <<>>
    /\ mem = NoMem
    /\ clock = 0 /\ starts = 0
    /\ renewalFailed = FALSE /\ torn = FALSE

Has(f) == file[f] # NoCert
Write(f, data) == [name |-> f, data |-> data]
CaFiles == {"root.crt", "int.crt", "int.key"}
Earlier(a, b) == IF a < b THEN a ELSE b

\* issue: no longer than the intermediate, and not at all once that is over.
Until(int) == Earlier(clock + ClientLife, int.until)
CanIssue(int) == Until(int) > clock

\* A key and its certificate, signed by the intermediate that is in use.
ClientFiles(int) == <<Write("client.key", Key(keys + 1)),
                      Write("client.crt", Cert(keys + 1, int.key, Until(int)))>>

-----------------------------------------------------------------------------
(* Open.                                                                   *)

\* bootstrap, when there is none of the three files; what is incomplete is not opened.
OpenBegins(command) ==
    /\ pc = "down"
    /\ starts < MaxStarts /\ starts' = starts + 1
    /\ cli' = command
    /\ \/ /\ \A f \in CaFiles : Has(f)
          /\ UNCHANGED <<todo, keys>>
       \/ /\ \A f \in CaFiles : ~Has(f)
          /\ keys' = keys + 2
          /\ todo' = <<Write("root.key", Key(keys + 1)),
                       Write("root.crt", Cert(keys + 1, keys + 1, MaxTicks + 1)),
                       Write("int.key", Key(keys + 2)),
                       Write("int.crt", Cert(keys + 2, keys + 1, clock + IntermediateLife))>>
    /\ pc' = "load"
    /\ UNCHANGED <<file, mem, clock, renewalFailed, torn>>

WritesNext ==
    /\ todo # <<>>
    /\ file' = [file EXCEPT ![Head(todo).name] = Head(todo).data]
    /\ todo' = Tail(todo)
    /\ UNCHANGED <<keys, pc, cli, mem, clock, starts, renewalFailed, torn>>

CaMatches == /\ file["int.crt"].issuer = file["root.crt"].key
             /\ file["int.crt"].key = file["int.key"].key

\* MUTANT: the client's certificate is looked at without its key.
ClientReadable == Has("client.crt")

\* LoadX509KeyPair: both files, and they belong together.
ClientPair == Has("client.crt") /\ Has("client.key") /\ file["client.crt"].key = file["client.key"].key

ClientCurrent == ClientPair /\ file["client.crt"].until > clock + RenewBefore

\* ensurePanelClient: the pair that is there, or a new one.
Loads ==
    LET int == file["int.crt"] IN
    /\ pc = "load" /\ todo = <<>>
    /\ CaMatches
    /\ \/ /\ ClientCurrent
          /\ mem' = [int |-> int, client |-> file["client.crt"], key |-> file["client.key"]]
          /\ pc' = "running"
          /\ UNCHANGED <<keys, todo>>
       \/ /\ ~ClientCurrent /\ CanIssue(int)
          /\ mem' = [mem EXCEPT !.int = int]
          /\ todo' = ClientFiles(int)
          /\ keys' = keys + 1
          /\ pc' = "client"
    /\ UNCHANGED <<file, cli, clock, starts, renewalFailed, torn>>

\* The new pair is read back; the command that has rotated the intermediate exits.
ClientLoaded ==
    /\ pc = "client" /\ todo = <<>>
    /\ ClientPair
    /\ mem' = [mem EXCEPT !.client = file["client.crt"], !.key = file["client.key"]]
    /\ pc' = IF cli = "rotated" THEN "down" ELSE "running"
    /\ renewalFailed' = FALSE
    /\ UNCHANGED <<file, keys, cli, todo, clock, starts, torn>>

\* Open returns an error, the process ends.
OpenFails ==
    /\ pc = "load" /\ todo = <<>>
    /\ ~CaMatches \/ (~ClientCurrent /\ ~CanIssue(file["int.crt"]))
    /\ pc' = "down"
    /\ UNCHANGED <<file, keys, cli, todo, mem, clock, starts, renewalFailed, torn>>

-----------------------------------------------------------------------------
(* Run and RotateIntermediate.                                             *)

\* Run, every twelve hours: rotatePanelClient when less than a week is left.
\* (An identity that ends with its intermediate is renewed every time: to no effect here.)
RenewDue == /\ cli = "no" /\ mem.client.until <= clock + RenewBefore
            /\ CanIssue(mem.int) /\ Until(mem.int) > mem.client.until

Renews ==
    /\ pc = "running" /\ RenewDue
    /\ todo' = ClientFiles(mem.int)
    /\ keys' = keys + 1
    /\ pc' = "client"
    /\ UNCHANGED <<file, cli, mem, clock, starts, renewalFailed, torn>>

\* The key or the certificate cannot be written, or the pair not read back: the Panel runs on with
\* the pair it has, the files stay as they are. (Where Open or the command fail so, they end: Stop.)
\* Bound: once until the next success; a second failure leaves no other pair of files.
RenewalFails ==
    /\ pc = "client" /\ cli = "no" /\ mem.client # NoCert /\ ~renewalFailed
    /\ todo' = <<>> /\ pc' = "running"
    /\ renewalFailed' = TRUE
    /\ UNCHANGED <<file, keys, cli, mem, clock, starts, torn>>

\* With the root's key back in its place: the key, then the certificate of a new intermediate, and
\* at once a client identity of it.
Rotates ==
    /\ pc = "running" /\ cli = "rotate" /\ todo = <<>>
    /\ file["root.key"].key = file["root.crt"].key
    /\ LET int == Cert(keys + 1, file["root.crt"].key, clock + IntermediateLife) IN
       /\ todo' = <<Write("int.key", Key(keys + 1)), Write("int.crt", int),
                    Write("client.key", Key(keys + 2)),
                    Write("client.crt", Cert(keys + 2, keys + 1, Earlier(clock + ClientLife, int.until)))>>
       /\ mem' = [mem EXCEPT !.int = int]
    /\ keys' = keys + 2
    /\ pc' = "client" /\ cli' = "rotated"
    /\ UNCHANGED <<file, clock, starts, renewalFailed, torn>>

\* The command exits, the Panel is stopped; or either is, between two files.
Stop ==
    /\ pc # "down"
    /\ torn' = (torn \/ (todo # <<>> /\
           \/ Head(todo).name = "int.crt"
           \/ Head(todo).name = "int.key" /\ Has("root.crt") /\ ~Has("int.crt")))
    /\ pc' = "down" /\ todo' = <<>> /\ cli' = "no"
    /\ mem' = NoMem /\ renewalFailed' = FALSE
    /\ UNCHANGED <<file, keys, clock, starts>>

\* A month is long against the ticks of Run and against the command; it passes with a renewal
\* that is due only when that fails again and again.
Month ==
    /\ clock < MaxTicks
    /\ pc = "down" \/ (pc = "running" /\ cli = "no" /\ (~RenewDue \/ renewalFailed))
    /\ clock' = clock + 1
    /\ UNCHANGED <<file, keys, pc, cli, todo, mem, starts, renewalFailed, torn>>

PkiFilesNext ==
    \/ \E command \in {"no", "rotate"} : OpenBegins(command)
    \/ WritesNext \/ Loads \/ ClientLoaded \/ OpenFails
    \/ Renews \/ RenewalFails \/ Rotates \/ Stop \/ Month

-----------------------------------------------------------------------------

\* A Panel that runs shows Agents a client certificate it has the key of, in time while its own
\* intermediate is unless the renewal failed, and signs with the key of the intermediate it hands
\* out, which is the root's; wherever an earlier process was stopped or a renewal failed.
IdentityUsable ==
    pc = "running" =>
        /\ mem.client # NoCert /\ mem.key.key = mem.client.key
        /\ mem.int = file["int.crt"] /\ file["int.key"].key = mem.int.key
        /\ mem.int.issuer = file["root.crt"].key
        /\ mem.client.until <= clock => mem.int.until <= clock \/ renewalFailed

\* A stop between two files leaves what the next start opens, unless it fell between the key
\* and the certificate of an intermediate or, at the first start, of root and intermediate.
OpensAgain ==
    pc = "down" /\ ~torn /\ (Has("int.crt") => file["int.crt"].until > clock) =>
        \/ \A f \in CaFiles : ~Has(f)
        \/ (\A f \in CaFiles : Has(f)) /\ CaMatches

\* The trust anchor of all Agents never changes once it is written.
RootKept == [][Has("root.crt") => file'["root.crt"] = file["root.crt"]]_pkiVars
=============================================================================
