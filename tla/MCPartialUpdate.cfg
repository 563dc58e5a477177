SPECIFICATION Spec

CONSTANTS
    email = email
    sms = sms
    payment = payment
    replica1 = replica1
    replica2 = replica2
    event = event
    first = first
    second = second
    third = third
    Replicas = {replica1, replica2}
    Readers = {event}
    Updates = {second}
    Host <- MCHost
    Flags = {email, sms, payment}
    Group <- MCGroup
    Values = {"on", "off"}
    Off = "off"
    Default <- MCDefault
    Names <- MCNames
    Asks <- MCAsks
    Nothing = Nothing
    MaxFaults = 0

PROPERTY
    OnlyNamedFlagsChange
