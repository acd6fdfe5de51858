----------------------------- MODULE PolicyOps -----------------------------
(***************************************************************************)
(* What a policy does to a request and to the model's answer: images onto  *)
(* the canvas (src/policy/image_ops.cpp), the state vector                 *)
(* (state_ops.cpp), the noise (action_noise.cpp), all of an observation    *)
(* (observation_processor.cpp), and the decoded action                     *)
(* (action_decoder.cpp).                                                   *)
(*                                                                         *)
(* A pixel's value is where it comes from: the image, the channel, and the *)
(* source columns and rows that weigh in it.  Numbers of a state or an     *)
(* action are exact fractions; single precision is not modelled.           *)
(***************************************************************************)
EXTENDS PolicySpec

CONSTANT Background     \* the value of a canvas pixel no view covers

Channels == 3

(* Fractions with a positive denominator. *)
Fraction(n) == <<n, 1>>
Plus(a, b) == <<a[1] * b[2] + b[1] * a[2], a[2] * b[2]>>
Times(a, b) == <<a[1] * b[1], a[2] * b[2]>>
Over(a, n) == <<a[1], a[2] * n>>
AtMost(a, b) == a[1] * b[2] <= b[1] * a[2]
Same(a, b) == a[1] * b[2] = b[1] * a[2]
Within(v, low, high) == IF AtMost(v, low) THEN low ELSE IF AtMost(high, v) THEN high ELSE v

-----------------------------------------------------------------------------
(* An image of a request: a name, an encoding, a size in pixels, a row     *)
(* stride in bytes (0: packed) and the size of its payload.                *)
Stride(image) == IF image.stride = 0 THEN image.width * image.channels ELSE image.stride

ValidRgbImage(image) ==
  /\ image.encoding = "rgb_u8" /\ image.name # ""
  /\ image.width \in 1..MaxInt /\ image.height \in 1..MaxInt
  /\ image.channels = Channels
  /\ Stride(image) >= image.width * image.channels
  /\ image.byte_size = Stride(image) * image.height

(* Exactly one image for every view, none besides. *)
ValidNamedImages(images, views) ==
  /\ Len(images) = Len(views)
  /\ \A i \in DOMAIN images : ValidRgbImage(images[i])
  /\ \A v \in DOMAIN views : \E i \in DOMAIN images : images[i].name = views[v].role
  /\ Distinct([i \in DOMAIN images |-> images[i].name])

(* The images are taken in the order of the request. *)
OrderOfRequest(images, views) == [v \in DOMAIN views |-> v]

(* Position in the request of the image for each view. *)
ImageOrder(images, views) ==
  [v \in DOMAIN views |-> Min({i \in DOMAIN images : images[i].name = views[v].role})]

(* Resampling one axis from "source" to "resized" pixels: the weight of    *)
(* source pixel i in output pixel p, times a positive constant.  With      *)
(* d = |i - center| / filter_scale = n / m the kernels are 1 - d and the   *)
(* cubic with a = -1/2.                                                    *)
Center(p, source, resized) == (2 * p + 1) * source - resized   \* over 2 * resized

FilterScale(source, resized, antialias) ==                     \* over resized
  IF antialias THEN Max({resized, source}) ELSE resized

KernelWeight(n, m, interpolation) ==
  IF interpolation = "bilinear" THEN Max({0, m - n})
  ELSE IF n < m THEN 3 * n * n * n - 5 * n * n * m + 2 * m * m * m
  ELSE IF n < 2 * m THEN -(n - m) * (n - 2 * m) * (n - 2 * m)
  ELSE 0

(* A position that is no int converts to the least one: C++ leaves it      *)
(* undefined, this is what x86-64 does.                                    *)
ToInt(n) == IF n \in -MaxInt - 1..MaxInt THEN n ELSE -MaxInt - 1

(* The taps of output pixel p: source position (possibly outside the       *)
(* image) and weight.                                                      *)
Taps(p, source, resized, view, boundary) ==
  LET m == 2 * FilterScale(source, resized, view.antialias)
      c == Center(p, source, resized)
      reach == (IF view.interpolation = "bicubic" THEN 2 ELSE 1) * m
      first == ToInt(-((reach - c) \div (2 * resized)))
      last == ToInt((reach + c) \div (2 * resized))
      distance(i) == IF 2 * resized * i > c THEN 2 * resized * i - c
                     ELSE c - 2 * resized * i
      weight(i) == KernelWeight(distance(i), m, view.interpolation)
  IN {<<i, weight(i)>> :
        i \in {j \in first..last :
                 weight(j) # 0 /\ (boundary = "truncate" => j \in 0..source - 1)}}

Clamped(i, source) == Max({0, Min({source - 1, i})})

(* The source positions that weigh in output pixel p; none is a failure.   *)
AxisSample(p, source, resized, view, boundary) ==
  IF view.interpolation = "nearest"
    THEN {Clamped(ToInt(((2 * p + 1) * source) \div (2 * resized)), source)}
    ELSE LET taps == Taps(p, source, resized, view, boundary) IN
           IF MapThenSumSet(LAMBDA t : t[2], taps) = 0 THEN {}
           ELSE {Clamped(t[1], source) : t \in taps}

(* Rounding n / d to the nearest integer, a tie to the even one, or away   *)
(* from zero where the f32 path of older artifacts uses lround.            *)
Rounded(n, d, legacy) ==
  LET floor == n \div d
      twice == 2 * (n % d)
  IN IF twice > d \/ (twice = d /\ (legacy \/ floor % 2 = 1)) THEN floor + 1 ELSE floor

(* The size an image is resized to before the target is cut out of it.     *)
FullSize(image, view, legacy) ==
  IF view.resize = "none" THEN [width |-> image.width, height |-> image.height]
  ELSE IF view.resize = "stretch" THEN [width |-> view.width, height |-> view.height]
  ELSE IF view.width * image.height >= view.height * image.width
    THEN [ width |-> view.width,
           height |-> Rounded(image.height * view.width, image.width, legacy) ]
    ELSE [ width |-> Rounded(image.width * view.height, image.height, legacy),
           height |-> view.height ]

(* The f32 path stores it in 32 bits, whatever it is. *)
ResizedSize(image, view, legacy) ==
  LET full == FullSize(image, view, legacy)
  IN [width |-> U32(full.width), height |-> U32(full.height)]

Crop(resized, view) ==
  [ x |-> U32(resized.width - view.width) \div 2,
    y |-> U32(resized.height - view.height) \div 2 ]

(* image_index: the place of a pixel's channel in the flat vector, and the *)
(* pixel and channel at a place.                                           *)
PixelIndex(image, x, y, channel) ==
  IF image.layout = "hwc" THEN (y * image.width + x) * Channels + channel
  ELSE (channel * image.height + y) * image.width + x

PixelAt(image, k) ==
  IF image.layout = "hwc"
    THEN [ x |-> (k \div Channels) % image.width,
           y |-> k \div (Channels * image.width), channel |-> k % Channels ]
    ELSE [ x |-> k % image.width, y |-> (k \div image.width) % image.height,
           channel |-> k \div (image.width * image.height) ]

Frame(size, layout) == [width |-> size.width, height |-> size.height, layout |-> layout]

PixelsIn(frame) == 0..frame.width * frame.height * Channels - 1

FillImage(frame, pixels) ==
  [ width |-> frame.width, height |-> frame.height, layout |-> frame.layout,
    pixels |-> pixels ]

TransformImage(image, view, spec, legacy) ==
  LET resized == ResizedSize(image, view, legacy)
      crop == Crop(resized, view)
      frame == Frame(view, spec.layout)
      columns == [x \in 0..view.width - 1 |->
                    AxisSample(x + crop.x, image.width, resized.width, view, spec.boundary)]
      rows == [y \in 0..view.height - 1 |->
                 AxisSample(y + crop.y, image.height, resized.height, view, spec.boundary)]
  IN FillImage(frame,
       [k \in PixelsIn(frame) |->
          LET at == PixelAt(frame, k) IN
            [ image |-> image.name, channel |-> at.channel,
              columns |-> columns[at.x], rows |-> rows[at.y] ]])

CanTransform(image, view, spec, legacy) ==
  LET full == FullSize(image, view, legacy)
      resized == ResizedSize(image, view, legacy)
  IN
    /\ view.width <= MaxInt /\ view.height <= MaxInt
    /\ view.resize = "none" =>
         image.width = view.width /\ image.height = view.height
    /\ ~legacy => full.width <= MaxU32 /\ full.height <= MaxU32
    /\ resized.width > 0 /\ resized.height > 0
    /\ \A p \in 0..view.width - 1 :
         {} # AxisSample(p + Crop(resized, view).x, image.width,
                         resized.width, view, spec.boundary)
    /\ \A p \in 0..view.height - 1 :
         {} # AxisSample(p + Crop(resized, view).y, image.height,
                         resized.height, view, spec.boundary)

Placement(spec, role) ==
  LET placed == spec.composition.placements
  IN placed[Min({i \in DOMAIN placed : placed[i].role = role})]

(* images: the transformed views, of which only the frames matter here.    *)
CanCompose(images, spec) ==
  /\ spec.composition.kind = "canvas"
  /\ Len(images) = Len(spec.views)
  /\ Len(spec.composition.placements) = Len(spec.views)
  /\ \A v \in DOMAIN spec.views :
       /\ \E i \in DOMAIN spec.composition.placements :
            spec.composition.placements[i].role = spec.views[v].role
       /\ images[v].width = Placement(spec, spec.views[v].role).width
       /\ images[v].height = Placement(spec, spec.views[v].role).height
       /\ images[v].layout = spec.layout

(* The views are copied onto the background one after the other: where two *)
(* meet, the later one stays.                                              *)
Covers(p, x, y) == x \in p.x..p.x + p.width - 1 /\ y \in p.y..p.y + p.height - 1

ComposeCanvas(images, spec) ==
  LET frame == Frame(spec.composition, spec.layout)
      place == [v \in DOMAIN spec.views |-> Placement(spec, spec.views[v].role)]
      Covering(at) == {v \in DOMAIN spec.views : Covers(place[v], at.x, at.y)}
      Copied(v, at) == images[v].pixels[PixelIndex(images[v], at.x - place[v].x,
                                                   at.y - place[v].y, at.channel)]
  IN FillImage(frame,
       [k \in PixelsIn(frame) |->
          LET at == PixelAt(frame, k) IN
            IF Covering(at) = {} THEN Background ELSE Copied(Max(Covering(at)), at)])

-----------------------------------------------------------------------------
(* A tensor of a request: its type, byte order, shape, layout ("": not     *)
(* said), payload size and values.  checked_numel and copy_f32_tensor.     *)
ValidShape(shape) ==
  shape # <<>> /\ (\A i \in DOMAIN shape : shape[i] > 0) /\ Product(shape) <= MaxU64

CopiesF32(tensor, shape) ==
  /\ ValidShape(tensor.shape)
  /\ tensor.dtype = "f32" /\ tensor.order = "little"
  /\ tensor.shape = shape
  /\ tensor.byte_size = 4 * Product(tensor.shape)
  /\ \A i \in DOMAIN tensor.values : IsFinite(tensor.values[i])

ValidStateInput(tensor, state) ==
  tensor.layout \in {"", "D"} /\ CopiesF32(tensor, <<state.real_dim>>)

PadState(values, state) ==
  [i \in 1..state.model_dim |->
     IF i <= state.real_dim THEN values[i] ELSE state.pad_value]

(* Normalised to what the model was trained on: statistics, then the clip  *)
(* of a range to [-1, 1], then the output clamp.                           *)
Standardize(v, i, norm, stats) ==
  IF norm.kind = "z_score" THEN Over(Plus(v, Fraction(-stats.mean[i])), stats.stddev[i])
  ELSE IF norm.kind = "none" THEN v
  ELSE LET unit == Over(Plus(v, Fraction(-stats.lower[i])), stats.upper[i] - stats.lower[i])
           scaled == Plus(Times(Fraction(2), unit), Fraction(-1))
       IN IF norm.clip THEN Within(scaled, Fraction(-1), Fraction(1)) ELSE scaled

OutputClamp(v, norm) ==
  IF norm.clamp.lower = <<>> THEN v
  ELSE Within(v, Fraction(norm.clamp.lower[1]), Fraction(norm.clamp.upper[1]))

NormalizeState(values, norm, stats) ==
  [i \in DOMAIN values |->
     IF Active(stats, i)
       THEN OutputClamp(Standardize(Fraction(values[i]), i, norm, stats), norm)
       ELSE Fraction(values[i])]

(* Only the z-score is clipped, which the contract never clips. *)
ClipOther(v, norm) ==
  IF norm.clip /\ norm.kind \notin RangeKinds
    THEN Within(v, Fraction(-1), Fraction(1)) ELSE v

(* The inverse, in the inverse order: clamp, clip, statistics. *)
ClipAction(v, norm) ==
  IF norm.clip /\ norm.kind \in RangeKinds
    THEN Within(v, Fraction(-1), Fraction(1)) ELSE v

(* The z-score is undone in the order it was made. *)
UnstandardizeForward(v, i, norm, stats) ==
  IF norm.kind = "z_score"
    THEN Times(Plus(v, Fraction(stats.mean[i])), Fraction(stats.stddev[i]))
  ELSE IF norm.kind = "none" THEN v
  ELSE Plus(Times(Over(Plus(v, Fraction(1)), 2),
                  Fraction(stats.upper[i] - stats.lower[i])),
            Fraction(stats.lower[i]))

Unstandardize(v, i, norm, stats) ==
  IF norm.kind = "z_score"
    THEN Plus(Times(v, Fraction(stats.stddev[i])), Fraction(stats.mean[i]))
  ELSE IF norm.kind = "none" THEN v
  ELSE Plus(Times(Over(Plus(v, Fraction(1)), 2),
                  Fraction(stats.upper[i] - stats.lower[i])),
            Fraction(stats.lower[i]))

DecodeValue(v, i, norm, stats) ==
  IF Active(stats, i)
    THEN Unstandardize(ClipAction(OutputClamp(v, norm), norm), i, norm, stats)
    ELSE v

(* An action dimension that is relative to the state adds the raw value of *)
(* the state entry it refers to; -1 refers to none.                        *)
Recovered(v, i, action, raw_state) ==
  IF action.recovery = "add_current_state" /\ action.indices[i] >= 0
    THEN Plus(v, Fraction(raw_state[action.indices[i] + 1])) ELSE v

(* core: the model's answer, horizon rows of model_dim normalised values.  *)
ValidCoreAction(core, action) ==
  Len(core) = action.horizon /\ \A t \in DOMAIN core : Len(core[t]) = action.model_dim

DecodeAction(core, raw_state, action) ==
  [t \in 1..action.horizon |->
     [i \in 1..action.real_dim |->
        Recovered(DecodeValue(core[t][i], i, action.norm, action.stats),
                  i, action, raw_state)]]

CanDecode(core, raw_state, action) ==
  /\ ValidCoreAction(core, action)
  /\ action.recovery = "add_current_state" =>
       /\ Len(action.indices) = action.real_dim
       /\ \A i \in 1..action.real_dim : action.indices[i] < Len(raw_state)

-----------------------------------------------------------------------------
(* Noise a request brings is checked and taken; else the session draws.    *)
Omitted(noise) == noise = <<>>

ValidNoise(noise, action) ==
  Omitted(noise) \/ /\ noise[1].layout \in {"", "T,A"}
                    /\ CopiesF32(noise[1], <<action.horizon, action.model_dim>>)

NoiseShape(action) == <<action.horizon, action.model_dim>>

(* prepare_observation_reference: images, state, noise, in this order.  An *)
(* observation that is refused leaves the session's generator alone.       *)
Transforms(request, spec, legacy) ==
  LET order == ImageOrder(request.images, spec.views) IN
    [v \in DOMAIN spec.views |->
       TransformImage(request.images[order[v]], spec.views[v], spec, legacy)]

ObservationAccepted(request, spec, legacy) ==
  /\ ValidNamedImages(request.images, spec.views)
  /\ LET order == ImageOrder(request.images, spec.views) IN
       \A v \in DOMAIN spec.views :
         CanTransform(request.images[order[v]], spec.views[v], spec, legacy)
  /\ CanCompose([v \in DOMAIN spec.views |-> Frame(spec.views[v], spec.layout)], spec)
  /\ ValidStateInput(request.state, spec.state)
  /\ ValidNoise(request.noise, spec.action)

PrepareObservation(request, spec, legacy) ==
  [ canvas |-> ComposeCanvas(Transforms(request, spec, legacy), spec),
    raw_state |-> request.state.values,
    model_state |-> NormalizeState(PadState(request.state.values, spec.state),
                                   spec.state.norm, spec.state.stats),
    noise |-> NoiseShape(spec.action) ]
=============================================================================
