------------------------------- MODULE Vision -------------------------------
(***************************************************************************)
(* The vision node (vision.cpp): one executor thread that takes images and *)
(* point clouds from two subscriptions in any order, keeps the last cloud, *)
(* and publishes the cubes it finds in each image at the points of that    *)
(* cloud, which may be older or newer than the image.                      *)
(*                                                                         *)
(* A view is what the camera sees of each spot of the table: the colour    *)
(* class of the cube there, nothing, or the arm.  As an image it gives the *)
(* colours, as a cloud the heights.                                        *)
(***************************************************************************)
EXTENDS Integers, Sequences

CONSTANTS
  Spot,         \* places on the table, at least 7 cm apart
  Color,        \* the colour classes of detectCubes
  Rank,         \* their order in detectCubes
  Empty, Arm,   \* what a view shows of a spot without a visible cube
  QueueSize     \* depth of both subscriptions

ASSUME QueueAssumption == QueueSize \in Nat \ {0}
ASSUME ViewAssumption == {Empty, Arm} \cap Color = {}
ASSUME RankAssumption == Rank \in [Color -> Nat]

View == [Spot -> Color \cup {Empty, Arm}]
Detection == [spot : Spot, color : Color]

VARIABLES
  images, clouds,      \* the subscriptions' queues
  latest_pointcloud_,  \* none, or one cloud whose points can be transformed
  inbox                \* the pick-and-place node's subscription, of depth one:
                       \* no message, or one, of which only the first
                       \* detection, if there is one, is looked at

visionVars == <<images, clouds, latest_pointcloud_, inbox>>

VisionInit ==
  /\ images = <<>> /\ clouds = <<>>
  /\ latest_pointcloud_ = {}
  /\ inbox = {}

(* A full queue drops its oldest message. *)
Enqueue(queue, view) ==
  IF Len(queue) < QueueSize THEN Append(queue, view) ELSE Append(Tail(queue), view)

(* Mutant: the position is taken from another pixel than the centre. *)
OtherPixel(image, cloud) ==
  {d \in Detection :
     \E s \in Spot : image[s] = d.color /\ cloud[d.spot] # Arm /\ cloud[s] # Arm}

(***************************************************************************)
(* detectCubes and get3DPosition: the colour is the image's, the point the *)
(* cloud's.  A point on the arm is above the table's box, one on the empty *)
(* table on its lower border.  A failed transform leaves a camera-frame    *)
(* pose, which is outside the box (the camera is 1.2 m above it): until    *)
(* the static transform arrives it is as if there were no cloud.           *)
(***************************************************************************)
Detected(image, cloud) ==
  {d \in Detection : image[d.spot] = d.color /\ cloud[d.spot] # Arm}

Found(image) == UNION {Detected(image, cloud) : cloud \in latest_pointcloud_}

Border == {d \in Detection : \E cloud \in latest_pointcloud_ : cloud[d.spot] = Empty}

(* The first of them in the array: the order of detectCubes' colours, and  *)
(* any order among the contours of a colour.                               *)
First(D) == {d \in D : \A e \in D : Rank[d.color] <= Rank[e.color]}

(* Mutant: the first cloud is kept. *)
KeepsFirstCloud ==
  /\ clouds # <<>>
  /\ latest_pointcloud_' = IF latest_pointcloud_ = {} THEN {Head(clouds)} ELSE latest_pointcloud_
  /\ clouds' = Tail(clouds)
  /\ UNCHANGED <<images, inbox>>

pointcloudCallback ==
  /\ clouds # <<>>
  /\ latest_pointcloud_' = {Head(clouds)}
  /\ clouds' = Tail(clouds)
  /\ UNCHANGED <<images, inbox>>

(* The array is published also when it is empty, and without a cloud it    *)
(* is.  missed: points on the wrong side of the border.                    *)
imageCallback(missed) ==
  /\ images # <<>>
  /\ LET D == Found(Head(images)) \ missed
     IN  \/ D = {} /\ inbox' = {{}}
         \/ \E d \in First(D) : inbox' = {{d}}
  /\ images' = Tail(images)
  /\ UNCHANGED <<clouds, latest_pointcloud_>>

VisionNext == pointcloudCallback \/ \E missed \in SUBSET Border : imageCallback(missed)

VisionTypeOK ==
  /\ images \in Seq(View) /\ Len(images) <= QueueSize
  /\ clouds \in Seq(View) /\ Len(clouds) <= QueueSize
  /\ latest_pointcloud_ \subseteq View
  /\ inbox \subseteq {{}} \cup {{d} : d \in Detection}
=============================================================================
