--------------------------- MODULE PinAssignment ---------------------------
(***************************************************************************)
(* Which pin drives which ECU function.                                    *)
(*                                                                         *)
(* The pin table (board.rs): for each of the 48 pins whether it is         *)
(* reserved, the function classes it may take, and the exclusive resource  *)
(* each of its routes occupies (a timer channel, an ADC channel, a bus     *)
(* line), or NoResource.  A class without a route is unsupported.  Labels, *)
(* tolerances, mux modes and signals are not modelled.                     *)
(*                                                                         *)
(* The assignments (io.rs): the fixed paths, the default set, the          *)
(* validation of a set of requests and the overriding of a set by others.  *)
(* A request names a function and a pin; a set is a sequence of requests,  *)
(* in the order the page lists them.                                       *)
(***************************************************************************)
EXTENDS Naturals, Sequences, TLC

----------------------------------------------------------------------------
(* The pin table *)

NoResource == "none"

\* The function classes of the tables: one route each, except capture pins,
\* which are also digital inputs, and PWM pins, which are also low-side.
USB_FUNCTIONS == {"Usb"}
CAN_FUNCTIONS == {"Can"}
CAPTURE_FUNCTIONS == {"DigitalInput", "CaptureInput"}
ANALOG_FUNCTIONS == {"AnalogInput"}
PWM_FUNCTIONS == {"PwmOutput", "LowSideOutput"}
INJECTOR_FUNCTIONS == {"Injector"}
IGNITION_FUNCTIONS == {"Ignition"}
UART_FUNCTIONS == {"Uart"}
DEBUG_FUNCTIONS == {"Debug"}
SPI_FUNCTIONS == {"Spi"}
I2C_FUNCTIONS == {"I2c"}

\* A pin whose every route occupies `resource`.
Pin(classes, resource) ==
    [reserved |-> FALSE, classes |-> classes, routes |-> [c \in classes |-> resource]]

ReservedPin(classes, resource) ==
    [Pin(classes, resource) EXCEPT !.reserved = TRUE]

\* As a digital input a capture pin leaves its timer channel free.
CapturePin(resource) ==
    [Pin(CAPTURE_FUNCTIONS, resource) EXCEPT !.routes["DigitalInput"] = NoResource]

UsbAndCanPins ==
    [ PA11 |-> ReservedPin(USB_FUNCTIONS, "usb:otg_fs:dm"),
      PA12 |-> ReservedPin(USB_FUNCTIONS, "usb:otg_fs:dp"),
      PD0  |-> ReservedPin(CAN_FUNCTIONS, "can:fdcan1:rx"),
      PD1  |-> ReservedPin(CAN_FUNCTIONS, "can:fdcan1:tx") ]

TriggerPins ==
    [ PA0 |-> CapturePin("timer:TIM2:CH1"),
      PA1 |-> CapturePin("timer:TIM2:CH2") ]

SensorPins ==
    [ PC0 |-> Pin(ANALOG_FUNCTIONS, "adc:ADC1:ch10"),
      PC1 |-> Pin(ANALOG_FUNCTIONS, "adc:ADC1:ch11"),
      PC2 |-> Pin(ANALOG_FUNCTIONS, "adc:ADC1:ch12"),
      PC3 |-> Pin(ANALOG_FUNCTIONS, "adc:ADC1:ch13") ]

\* BOOST_PWM (PB0) and BOOST_PWM_ALT (PC8) are the same timer channel.
SolenoidPins ==
    [ PB0 |-> Pin(PWM_FUNCTIONS, "timer:TIM3:CH3"),
      PB1 |-> Pin(PWM_FUNCTIONS, "timer:TIM3:CH4"),
      PC8 |-> Pin(PWM_FUNCTIONS, "timer:TIM3:CH3") ]

InjectorAndIgnitionPins ==
    [ PE9  |-> Pin(INJECTOR_FUNCTIONS, "timer:TIM1:CH1"),
      PE11 |-> Pin(INJECTOR_FUNCTIONS, "timer:TIM1:CH2"),
      PF8  |-> Pin(IGNITION_FUNCTIONS, "timer:TIM13:CH1"),
      PF9  |-> Pin(IGNITION_FUNCTIONS, "timer:TIM14:CH1") ]

BridgeAndDebugPins ==
    [ PB6  |-> ReservedPin(UART_FUNCTIONS, "uart:USART1:tx"),
      PB7  |-> ReservedPin(UART_FUNCTIONS, "uart:USART1:rx"),
      PA13 |-> ReservedPin(DEBUG_FUNCTIONS, "debug:swdio") ]

MoreInjectorPins ==
    [ PE13 |-> Pin(INJECTOR_FUNCTIONS, "timer:TIM1:CH3"),
      PE14 |-> Pin(INJECTOR_FUNCTIONS, "timer:TIM1:CH4"),
      PC6  |-> Pin(INJECTOR_FUNCTIONS, "timer:TIM8:CH1"),
      PC7  |-> Pin(INJECTOR_FUNCTIONS, "timer:TIM8:CH2"),
      PC9  |-> Pin(INJECTOR_FUNCTIONS, "timer:TIM8:CH4") ]

MoreIgnitionPins ==
    [ PB14 |-> Pin(IGNITION_FUNCTIONS, "timer:TIM12:CH1"),
      PB15 |-> Pin(IGNITION_FUNCTIONS, "timer:TIM12:CH2"),
      PF6  |-> Pin(IGNITION_FUNCTIONS, "timer:TIM16:CH1"),
      PF7  |-> Pin(IGNITION_FUNCTIONS, "timer:TIM17:CH1") ]

LastIgnitionPins ==
    [ PA2 |-> Pin(IGNITION_FUNCTIONS, "timer:TIM5:CH3"),
      PA3 |-> Pin(IGNITION_FUNCTIONS, "timer:TIM5:CH4") ]

MoreSensorPins ==
    [ PC4 |-> Pin(ANALOG_FUNCTIONS, "adc:ADC12:ch4"),
      PC5 |-> Pin(ANALOG_FUNCTIONS, "adc:ADC12:ch8"),
      PA4 |-> Pin(ANALOG_FUNCTIONS, "adc:ADC12:ch18"),
      PA5 |-> Pin(ANALOG_FUNCTIONS, "adc:ADC12:ch19"),
      PA6 |-> Pin(ANALOG_FUNCTIONS, "adc:ADC12:ch3") ]

AuxiliaryPins ==
    [ PA7  |-> Pin(ANALOG_FUNCTIONS, "adc:ADC12:ch7"),
      PF3  |-> Pin(ANALOG_FUNCTIONS, "adc:ADC3:ch5"),
      PF4  |-> Pin(ANALOG_FUNCTIONS, "adc:ADC3:ch9"),
      PF5  |-> Pin(ANALOG_FUNCTIONS, "adc:ADC3:ch4"),
      PF10 |-> Pin(ANALOG_FUNCTIONS, "adc:ADC3:ch6") ]

\* The SPI and I2C lines are not reserved; no ECU function asks for their class.
BusPins ==
    [ PB3  |-> Pin(SPI_FUNCTIONS, "spi:SPI1:sck"),
      PB4  |-> Pin(SPI_FUNCTIONS, "spi:SPI1:miso"),
      PB5  |-> Pin(SPI_FUNCTIONS, "spi:SPI1:mosi"),
      PB10 |-> Pin(I2C_FUNCTIONS, "i2c:I2C2:scl"),
      PB11 |-> Pin(I2C_FUNCTIONS, "i2c:I2C2:sda") ]

SecondCanPins ==
    [ PB12 |-> ReservedPin(CAN_FUNCTIONS, "can:fdcan2:rx"),
      PB13 |-> ReservedPin(CAN_FUNCTIONS, "can:fdcan2:tx") ]

ST_ECU_V1_PINS ==
    UsbAndCanPins @@ TriggerPins @@ SensorPins @@ SolenoidPins
        @@ InjectorAndIgnitionPins @@ BridgeAndDebugPins @@ MoreInjectorPins
        @@ MoreIgnitionPins @@ LastIgnitionPins @@ MoreSensorPins
        @@ AuxiliaryPins @@ BusPins @@ SecondCanPins

find_pin(id) == id \in DOMAIN ST_ECU_V1_PINS

supports_function(id, class) ==
    /\ class \in ST_ECU_V1_PINS[id].classes
    /\ class \in DOMAIN ST_ECU_V1_PINS[id].routes

assignable_pins == {id \in DOMAIN ST_ECU_V1_PINS : ~ST_ECU_V1_PINS[id].reserved}

\* A known pin that is not reserved and supports the class.
validate_pin_assignment(id, class) ==
    /\ find_pin(id)
    /\ id \in assignable_pins
    /\ supports_function(id, class)

\* resource_key of io.rs: what the pin occupies in that class.
resource_key(id, class) == ST_ECU_V1_PINS[id].routes[class]

----------------------------------------------------------------------------
(* Functions and requests *)

EcuFunction ==
    {"CrankInput", "CamInput", "MapSensor", "TpsSensor", "CltSensor", "IatSensor",
     "BoostControl", "IdleControl", "Injector1", "Injector2", "Ignition1", "Ignition2"}

required_pin_function ==
    [ f \in EcuFunction |->
        CASE f \in {"CrankInput", "CamInput"}   -> "CaptureInput"
          [] f \in {"MapSensor", "TpsSensor", "CltSensor", "IatSensor"} -> "AnalogInput"
          [] f \in {"BoostControl", "IdleControl"} -> "PwmOutput"
          [] f \in {"Injector1", "Injector2"}   -> "Injector"
          [] f \in {"Ignition1", "Ignition2"}   -> "Ignition" ]

\* The functions with the FixedHardwarePath policy, and the pin each must have.
fixed_pin_id ==
    [ CrankInput |-> "PA0", CamInput |-> "PA1", Injector1 |-> "PE9",
      Injector2 |-> "PE11", Ignition1 |-> "PF8", Ignition2 |-> "PF9" ]

Request(function, pin) == [function |-> function, pin_id |-> pin]

default_pin_assignments ==
    << Request("CrankInput", "PA0"),   Request("CamInput", "PA1"),
       Request("MapSensor", "PC0"),    Request("TpsSensor", "PC1"),
       Request("CltSensor", "PC2"),    Request("IatSensor", "PC3"),
       Request("BoostControl", "PB0"), Request("IdleControl", "PB1"),
       Request("Injector1", "PE9"),    Request("Injector2", "PE11"),
       Request("Ignition1", "PF8"),    Request("Ignition2", "PF9") >>

----------------------------------------------------------------------------
(* Validation *)

OnItsPath(request) ==
    request.function \in DOMAIN fixed_pin_id
        => request.pin_id = fixed_pin_id[request.function]

OnTheBoard(request) ==
    validate_pin_assignment(request.pin_id, required_pin_function[request.function])

Resource(request) ==
    resource_key(request.pin_id, required_pin_function[request.function])

\* Slip: sharing a timer channel on another pin is not seen.
SamePinOnly(request, resolved) == request.pin_id = resolved.pin_id

\* The request takes the pin or the exclusive resource of one resolved before.
conflicts(request, resolved) ==
    \/ request.pin_id = resolved.pin_id
    \/ Resource(request) # NoResource /\ Resource(request) = Resource(resolved)

\* The requests are resolved in order, each against those before it; the
\* first that fails rejects the whole set.  Only the error differs between a
\* duplicate function, a pin off the fixed path, a pin the board refuses and
\* a conflict.
validate_assignment_set(requests) ==
    \A i \in DOMAIN requests :
        /\ \A j \in 1..(i - 1) : requests[j].function # requests[i].function
        /\ OnItsPath(requests[i])
        /\ OnTheBoard(requests[i])
        /\ \A j \in 1..(i - 1) : ~conflicts(requests[i], requests[j])

\* The sets the validation accepts.
Assignments ==
    {s \in Seq([function : EcuFunction, pin_id : STRING]) : validate_assignment_set(s)}

\* An override replaces the request of its function or is appended.
overridden(assigned, request) ==
    IF \E i \in DOMAIN assigned : assigned[i].function = request.function
    THEN [ i \in DOMAIN assigned |->
             IF assigned[i].function = request.function THEN request ELSE assigned[i] ]
    ELSE Append(assigned, request)

\* The overrides are applied in order and the merged set is validated whole,
\* so that two functions can swap their pins in one packet.
merged_assignments(base, overrides) ==
    LET merged[n \in 0..Len(overrides)] ==
            IF n = 0 THEN base ELSE overridden(merged[n - 1], overrides[n])
    IN  merged[Len(overrides)]

\* The sequence serialize_assignments_to_page writes for the set is the set;
\* what deserialize_assignments_from_page reads back is validated again.
deserialize_assignments(listed) == listed \in Assignments

----------------------------------------------------------------------------
(* What the validation is for *)

\* No two functions of the set drive one pin or one exclusive resource, no
\* reserved pin is driven, and every fixed path is kept.
DrivesOneThingEach(assigned) ==
    /\ \A i, j \in DOMAIN assigned :
         i # j => /\ assigned[i].function # assigned[j].function
                  /\ assigned[i].pin_id # assigned[j].pin_id
                  /\ \/ Resource(assigned[i]) = NoResource
                     \/ Resource(assigned[i]) # Resource(assigned[j])
    /\ \A i \in DOMAIN assigned :
         /\ assigned[i].pin_id \in assignable_pins
         /\ assigned[i].function \in DOMAIN fixed_pin_id
               => assigned[i].pin_id = fixed_pin_id[assigned[i].function]
============================================================================
