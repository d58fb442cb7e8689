------------------------------- MODULE Camera -------------------------------
(***************************************************************************)
(* The four industrial cameras of the library, each over the SDK of its    *)
(* vendor: a call of the class is a sequence of calls of the SDK, and      *)
(* every one of these is an action, which may fail.  A device that does    *)
(* not answer is released and opened again inside read().                  *)
(*                                                                         *)
(* Of the SDKs, which are external, it is assumed: one handle at a time    *)
(* holds a device, until it is closed or the device is unplugged; a call   *)
(* on a handle that does not exist, or is not in the state that it needs,  *)
(* fails and changes nothing.                                              *)
(***************************************************************************)
EXTENDS Naturals, Sequences

CONSTANTS
  MaxHandles,  (* bound: handles that exist at once                        *)
  MaxFaults,   (* bound: calls that fail for no lasting reason             *)
  MaxUnplugs   (* bound: times the device is unplugged                     *)

CameraAssumptions == MaxHandles \in Nat \ {0} /\ MaxFaults \in Nat /\ MaxUnplugs \in Nat

Kinds == {"hik", "galaxy", "mv", "opt"}

VARIABLES
  kind,       (* the class                                                 *)
  continuous, (* grab_mode is Continuous, not one of the triggered ones    *)
  plugged,    (* external: the device is there                             *)
  handles,    (* external: the handles that exist                          *)
  open,       (* external: those that have opened the device               *)
  held,       (* external: the one that holds it, 0 if none does           *)
  grabbing,   (* external: those on which the stream runs                  *)
  frames,     (* external: frames of the stream not yet given back         *)
  handle,     (* _handle, 0 if it has never been set                       *)
  isOpened,   (* _opened or _is_opened                                     *)
  counts,     (* mv: _camera_counts is not 0, so that a device is found    *)
  doing,      (* calls of the SDK that the call of the class has yet to do *)
  image,      (* what the caller passes: "empty", "old", or "new" if it    *)
              (* has been assigned by the last call                        *)
  result,     (* what the last read() returned                             *)
  gone,       (* the object has been destroyed                             *)
  gaveUp,     (* history: a release or a conversion has left things behind *)
  faultCount, unplugs

device == <<plugged, handles, open, held, grabbing, frames>>
cameraVars == <<kind, continuous, device, handle, isOpened, counts, doing, image, result, gone,
                gaveUp, faultCount, unplugs>>

Calls(group, names) == [i \in DOMAIN names |-> [of |-> group, do |-> names[i]]]

(* open(), by the constructor or reconnect(): "attach" creates a handle and *)
(* opens the device in one call, "set" stands for settings whose outcome is *)
(* looked at, "try" for others.                                            *)
HikOpen == <<"enumerate", "create", "open", "set", "start">>
MvOpen == <<"enumerate", "attach", "try", "start">>
OptOpen == <<"enumerate", "create", "open", "set">>

(* galaxy does not go on to start the stream when it is triggered. *)
GalaxyOpen ==
  <<"library", "enumerate", "attach", "try">> \o (IF continuous THEN <<"start">> ELSE <<>>)

Open(group) ==
  Calls(group, CASE kind = "hik" -> HikOpen [] kind = "galaxy" -> GalaxyOpen
                 [] kind = "mv" -> MvOpen [] OTHER -> OptOpen)

(* Faulty variant: the device is not closed. *)
GalaxyReleaseHalf == <<"stop">>

(* release() *)
HikRelease == <<"stop", "close", "destroy">>

GalaxyRelease == <<"stop", "detach">>

MvRelease == <<"detach">>
OptRelease ==
  IF handle \notin open THEN <<>>
  ELSE (IF handle \in grabbing THEN <<"stop">> ELSE <<>>) \o <<"close", "destroy">>

Release ==
  Calls("release", CASE kind = "hik" -> HikRelease [] kind = "galaxy" -> GalaxyRelease
                     [] kind = "mv" -> MvRelease [] OTHER -> OptRelease)

(* read() if nothing fails. *)
HikRead == <<"get", "convert", "free">>
GalaxyRead == <<"get", "convert", "free">>
MvRead == <<"get", "convert", "free">>
OptRead ==
  (IF handle \notin grabbing THEN <<"start">> ELSE <<>>) \o <<"get", "convert", "free">>

Reading ==
  Calls("read", CASE kind = "hik" -> HikRead [] kind = "galaxy" -> GalaxyRead
                  [] kind = "mv" -> MvRead [] OTHER -> OptRead)

Idle == doing = <<>>

CameraInit ==
  /\ kind \in Kinds /\ continuous \in BOOLEAN
  /\ plugged \in BOOLEAN
  /\ handles = {} /\ open = {} /\ held = 0 /\ grabbing = {} /\ frames = 0
  /\ handle = 0 /\ isOpened = FALSE /\ counts = TRUE
  /\ doing = Open("constructor")
  /\ image = "empty" /\ result = FALSE
  /\ gone = FALSE /\ gaveUp = FALSE /\ faultCount = 0 /\ unplugs = 0

-----------------------------------------------------------------------------
(* The device *)

Unplug ==
  /\ plugged /\ unplugs < MaxUnplugs
  /\ plugged' = FALSE /\ held' = 0 /\ unplugs' = unplugs + 1
  /\ UNCHANGED <<kind, continuous, handles, open, grabbing, frames, handle, isOpened,
                 counts, doing, image, result, gone, gaveUp, faultCount>>

Plug ==
  /\ ~plugged
  /\ plugged' = TRUE
  /\ UNCHANGED <<kind, continuous, handles, open, held, grabbing, frames, handle, isOpened,
                 counts, doing, image, result, gone, gaveUp, faultCount, unplugs>>

-----------------------------------------------------------------------------
(* The calls of the class *)

(* read(image), of an image that is empty or has been read before. *)
Read ==
  /\ Idle /\ ~gone
  /\ doing' = Reading
  /\ image' \in {"empty", IF image = "empty" THEN "empty" ELSE "old"}
  /\ result' = FALSE
  /\ UNCHANGED <<kind, continuous, device, handle, isOpened, counts, gone, gaveUp,
                 faultCount, unplugs>>

(* opt: what has not been opened is not destroyed either. *)
Skipped == kind = "opt" /\ handle \in handles \ open

(* Faulty variant: mv finds as many as it has found last. *)
RenewCounted ==
  /\ doing' = Release \o Open("reconnect")
  /\ UNCHANGED counts
  /\ gaveUp' = (gaveUp \/ Skipped)

(* release() and open(): mv lets the SDK find any number of devices again. *)
Renew ==
  /\ doing' = Release \o Open("reconnect")
  /\ counts' = TRUE
  /\ gaveUp' = (gaveUp \/ Skipped)

(* reconnect() *)
Reconnect ==
  /\ Idle /\ ~gone
  /\ Renew
  /\ UNCHANGED <<kind, continuous, device, handle, isOpened, image, result, gone, faultCount,
                 unplugs>>

(* ~Impl() *)
DestroyCamera ==
  /\ Idle /\ ~gone
  /\ gone' = TRUE
  /\ doing' = Release
  /\ gaveUp' = (gaveUp \/ Skipped)
  /\ UNCHANGED <<kind, continuous, device, handle, isOpened, counts, image, result, faultCount,
                 unplugs>>

-----------------------------------------------------------------------------
(* The calls of the SDK that succeed *)

Unused == CHOOSE h \in 1 .. MaxHandles : h \notin handles

Able(do) ==
  CASE do = "library" -> TRUE
    [] do = "enumerate" -> plugged /\ counts
    [] do = "create" -> TRUE
    [] do = "attach" -> plugged /\ held = 0
    [] do = "open" -> plugged /\ held = 0 /\ handle \in handles \ open
    [] do \in {"set", "try", "start"} -> handle # 0 /\ handle = held
    [] do = "get" -> handle # 0 /\ handle = held /\ handle \in grabbing
    [] do \in {"convert", "free"} -> frames > 0
    [] do = "stop" -> handle \in grabbing
    [] do = "close" -> handle \in open
    [] OTHER -> handle \in handles

Effect(do) ==
  /\ handle' = IF do \in {"create", "attach"} THEN Unused ELSE handle
  /\ handles' = CASE do \in {"create", "attach"} -> handles \cup {Unused}
                  [] do \in {"destroy", "detach"} -> handles \ {handle}
                  [] OTHER -> handles
  /\ open' = CASE do \in {"open", "attach"} -> open \cup {handle'}
               [] do \in {"close", "destroy", "detach"} -> open \ {handle}
               [] OTHER -> open
  /\ held' = CASE do \in {"open", "attach"} -> handle'
               [] do \in {"close", "destroy", "detach"} /\ held = handle -> 0
               [] OTHER -> held
  /\ grabbing' = CASE do = "start" -> grabbing \cup {handle}
                   [] do \in {"stop", "close", "destroy", "detach"} -> grabbing \ {handle}
                   [] OTHER -> grabbing
  /\ frames' = CASE do = "get" -> frames + 1
                 [] do = "free" -> frames - 1
                 [] do \in {"stop", "close", "destroy", "detach"} -> 0
                 [] OTHER -> frames
  /\ UNCHANGED plugged

(* The flag of isOpened(): hik sets it in the constructor only, opt never, *)
(* and nobody resets it.                                                   *)
Flag(call) ==
  isOpened \/ /\ call.do = "start"
              /\ \/ kind = "hik" /\ call.of = "constructor"
                 \/ kind \in {"galaxy", "mv"} /\ call.of # "read"

Succeed ==
  /\ ~Idle
  /\ LET call == Head(doing) IN
       /\ Able(call.do)
       /\ call.do \in {"create", "attach"} => handles # 1 .. MaxHandles
       /\ Effect(call.do)
       /\ isOpened' = Flag(call)
       /\ IF call.do = "convert" THEN image' = "new" /\ result' = TRUE
          ELSE UNCHANGED <<image, result>>
       /\ doing' = Tail(doing)
  /\ UNCHANGED <<kind, continuous, plugged, counts, gone, gaveUp, faultCount, unplugs>>

-----------------------------------------------------------------------------
(* The calls of the SDK that fail *)

(* A call fails if it cannot succeed; it may fail if the device is lost or *)
(* no trigger has come; and any call whose outcome matters may, MaxFaults  *)
(* times in all.                                                           *)
Fault(do) ==
  \/ /\ \/ ~Able(do)
        \/ do = "stop" /\ handle # held
        \/ do = "get" /\ ~continuous
     /\ UNCHANGED faultCount
  \/ /\ Able(do) /\ faultCount < MaxFaults /\ (do = "free" => kind = "hik")
     /\ faultCount' = faultCount + 1

(* The calls whose failure only is reported, if at all. *)
Ignored(call) ==
  \/ call.do = "try"
  \/ kind = "mv" /\ call.do \in {"start", "free"}
  \/ kind = "galaxy" /\ call.do \in {"stop", "free"}
  \/ kind \in {"galaxy", "mv", "opt"} /\ call.of = "release"
  \/ kind = "opt" /\ call.do = "free"

GoOn ==
  /\ Ignored(Head(doing))
  /\ doing' = Tail(doing)
  /\ gaveUp' =
       (gaveUp \/ (Head(doing).do \in {"close", "destroy", "detach"} /\ handle \in handles))
  /\ UNCHANGED <<device, handle, counts, image, result>>

(* open() returns; mv has found that there is no device. *)
OpenFails ==
  /\ Head(doing).of \in {"constructor", "reconnect"} /\ ~Ignored(Head(doing))
  /\ doing' = <<>>
  /\ counts' = (counts /\ ~(kind = "mv" /\ Head(doing).do = "enumerate"))
  /\ UNCHANGED <<device, handle, image, result, gaveUp>>

(* hik: release() returns, and reconnect() goes on. *)
ReleaseFails ==
  /\ Head(doing).of = "release" /\ ~Ignored(Head(doing))
  /\ doing' = IF gone THEN <<>> ELSE Open("reconnect")
  /\ gaveUp' = (gaveUp \/ handle \in handles)
  /\ UNCHANGED <<device, handle, counts, image, result>>

(* No frame: all but opt reconnect, and mv judges by the image of before. A *)
(* frame of galaxy may be a broken one, which is not given back.            *)
NoFrame ==
  /\ Head(doing) = [of |-> "read", do |-> "get"]
  /\ IF kind = "opt"
     THEN doing' = <<>> /\ image' = "empty" /\ UNCHANGED <<counts, gaveUp, result>>
     ELSE Renew /\ UNCHANGED image /\ result' = (kind = "mv" /\ image # "empty")
  /\ frames' = IF kind = "galaxy" /\ Able("get") THEN frames + 1 ELSE frames
  /\ UNCHANGED <<plugged, handles, open, held, grabbing, handle>>

(* retrieve() of a frame that cannot be converted; opt does not give it     *)
(* back, and galaxy leaves the image of before.                            *)
HikNoImage == kind = "hik" /\ image' = "empty" /\ doing' = Tail(doing) /\ UNCHANGED gaveUp
GalaxyNoImage == kind = "galaxy" /\ doing' = Tail(doing) /\ UNCHANGED <<image, gaveUp>>
OptNoImage == kind = "opt" /\ image' = "empty" /\ doing' = <<>> /\ gaveUp' = TRUE

NoImage ==
  /\ Head(doing) = [of |-> "read", do |-> "convert"]
  /\ HikNoImage \/ GalaxyNoImage \/ OptNoImage
  /\ UNCHANGED <<device, handle, counts, result>>

(* opt cannot start the stream; hik cannot give the frame back. *)
ReadFails ==
  /\ \/ Head(doing) = [of |-> "read", do |-> "start"]
     \/ kind = "hik" /\ Head(doing).do = "free"
  /\ doing' = <<>> /\ result' = FALSE
  /\ gaveUp' = (gaveUp \/ kind = "hik")
  /\ UNCHANGED <<device, handle, counts, image>>

Fail ==
  /\ ~Idle
  /\ Fault(Head(doing).do)
  /\ GoOn \/ OpenFails \/ ReleaseFails \/ NoFrame \/ NoImage \/ ReadFails
  /\ UNCHANGED <<kind, continuous, isOpened, gone, unplugs>>

-----------------------------------------------------------------------------
CameraNext == Unplug \/ Plug \/ Read \/ Reconnect \/ DestroyCamera \/ Succeed \/ Fail

CameraSpec == CameraInit /\ [][CameraNext]_cameraVars

(* Calls of the SDK return, and the user goes on reading. *)
CameraFairness == WF_cameraVars(Succeed \/ Fail) /\ SF_cameraVars(Read)

CameraFairSpec == CameraSpec /\ CameraFairness

-----------------------------------------------------------------------------
(* Properties *)

(* Every variable has a value of its type. *)
CameraTypeOK ==
  /\ kind \in Kinds /\ image \in {"empty", "old", "new"}
  /\ handles \subseteq 1 .. MaxHandles /\ handle \in 0 .. MaxHandles
  /\ held \in open \cup {0} /\ open \subseteq handles /\ grabbing \subseteq open
  /\ frames \in Nat
  /\ {continuous, plugged, isOpened, counts, result, gone, gaveUp} \subseteq BOOLEAN

(* Whatever fails, and whenever the device goes and comes: between calls   *)
(* no handle exists but the current one, and none when the object is gone; *)
(* a frame is not kept; and a read() that says so has read a frame.        *)
(* Except where the SDK has refused to close something, or hik or opt have *)
(* not come to close it; and mv returns an old image for a new one         *)
(* (hik_camera.cpp:62, galaxy_camera.cpp:221, mv_camera_impl.h:75,         *)
(* opt_camera.cpp:180, :235).                                              *)
Returned ==
  Idle =>
    /\ ~gaveUp => handles \subseteq {handle} /\ frames = 0 /\ (gone => handles = {})
    /\ result => image = "new" \/ (kind = "mv" /\ image = "old")

(* Once the device is there again, and answers, a user who goes on reading *)
(* gets frames again; not from opt, whose read() does not reconnect, nor   *)
(* from hik after a release that has kept the device                       *)
(* (galaxy_camera.cpp:207, mv_camera.cpp:180, hik_camera.cpp:281).         *)
FramesAgain ==
  (plugged /\ continuous /\ kind # "opt")
     ~> (image = "new" \/ ~plugged \/ (kind = "hik" /\ gaveUp) \/ gone)
=============================================================================
